------------------------ MODULE ExplanationLifecycle ------------------------
(***************************************************************************)
(* What may happen to the row of an Analysis that has a result.            *)
(*                                                                         *)
(* Two sides write it: the AI side (its worker, and the callers that       *)
(* schedule an explanation) and an Analyzer activation that fails after    *)
(* the result.  Both record an outcome with updateStatus, which reads the  *)
(* row, checks the transition, and then updates the row by its id alone:   *)
(* ending and failing say that some writer of either side is in between.   *)
(* So "completed" may be written over "failed" and "failed" over           *)
(* "completed", but never by a writer that has not seen a status from      *)
(* which it may be.                                                        *)
(*                                                                         *)
(* AiExplanation implements it, with AnalyzerStep for an environment, and  *)
(* AnalyzerWorker keeps to it, with AiStep for an environment.             *)
(***************************************************************************)
EXTENDS Lifecycle

VARIABLES status, analyzerStatus, aiStatus,  \* the row
          scheduled,                         \* the AI job was added
          ending, failing                    \* an outcome is about to be written

vars == <<status, analyzerStatus, aiStatus, scheduled, ending, failing>>

Init ==
  /\ status = "analyzer_result_ready"
  /\ analyzerStatus \in {"success", "partial"}
  /\ aiStatus = "not_requested"
  /\ scheduled = FALSE /\ ending = FALSE /\ failing = FALSE

-----------------------------------------------------------------------------
(* The AI side.                                                            *)

Schedule ==
  /\ scheduled' = TRUE
  /\ UNCHANGED <<status, aiStatus, ending>>

\* An Analysis is taken into "explaining" by one claim, a compare-and-set.
Claim ==
  /\ scheduled
  /\ status \in {"analyzer_result_ready", "completed"}
  /\ status' = "explaining"
  /\ aiStatus' = "running"
  /\ UNCHANGED <<scheduled, ending>>

\* A failure may come before the claim, and over an earlier outcome.
DecideEnd ==
  /\ scheduled
  /\ CanTransition(status, "completed")
  /\ ending' = TRUE
  /\ UNCHANGED <<status, aiStatus, scheduled>>

End ==
  /\ ending
  /\ status' = "completed"
  /\ aiStatus' \in {"success", "failed"}
  /\ ending' \in BOOLEAN
  /\ UNCHANGED scheduled

GiveUpEnd ==
  /\ ending' = FALSE
  /\ UNCHANGED <<status, aiStatus, scheduled>>

\* A retry is recorded over whatever the row says.
Queue ==
  /\ scheduled
  /\ status \in Explainable
  /\ aiStatus' = "queued"
  /\ UNCHANGED <<status, scheduled, ending>>

AiStep ==
  /\ Schedule \/ Claim \/ DecideEnd \/ End \/ GiveUpEnd \/ Queue
  /\ UNCHANGED analyzerStatus

-----------------------------------------------------------------------------
(* An Analyzer activation that fails although there is a result.           *)

DecideFailure ==
  /\ CanTransition(status, "failed")
  /\ failing' = TRUE
  /\ UNCHANGED <<status, analyzerStatus>>

Fail ==
  /\ failing
  /\ status' = "failed"
  /\ analyzerStatus' = "failed"
  /\ failing' \in BOOLEAN

GiveUpFailure ==
  /\ failing' = FALSE
  /\ UNCHANGED <<status, analyzerStatus>>

AnalyzerStep ==
  /\ DecideFailure \/ Fail \/ GiveUpFailure
  /\ UNCHANGED aiStatus

-----------------------------------------------------------------------------

Next ==
  \/ AiStep /\ UNCHANGED failing
  \/ AnalyzerStep /\ UNCHANGED <<scheduled, ending>>

Spec == Init /\ [][Next]_vars

=============================================================================
