------------------------- MODULE AnalysisLifecycle -------------------------
(***************************************************************************)
(* What the pipeline promises about one uploaded Analysis, whatever the    *)
(* processes that work on it do: the guarantees that                       *)
(* md/35_Sprint_4_Plan_Review.md section 10 lists in place of exactly-once *)
(* execution.  A result is produced at most once and only out of           *)
(* "analyzing", an Analysis is taken into "analyzing" once, and the raw    *)
(* log goes away only after the outcome is recorded or its retention       *)
(* period has passed.                                                      *)
(*                                                                         *)
(* "failed" and "completed" are recorded in two steps, as in               *)
(* ExplanationLifecycle: a writer has seen a status from which the         *)
(* outcome may be reached, and writes it over whatever is there by then.   *)
(***************************************************************************)
EXTENDS Lifecycle

CONSTANT CanExpire

VARIABLES status, hasResult, stored, expired, failing, ending

vars == <<status, hasResult, stored, expired, failing, ending>>

Init ==
  /\ status = "uploaded"
  /\ hasResult = FALSE
  /\ stored = TRUE
  /\ expired = FALSE
  /\ failing = FALSE /\ ending = FALSE

Start ==
  /\ status = "uploaded"
  /\ status' = "analyzing"
  /\ UNCHANGED <<hasResult, stored, expired, failing, ending>>

Produce ==
  /\ status = "analyzing"
  /\ ~hasResult
  /\ status' = "analyzer_result_ready"
  /\ hasResult' = TRUE
  /\ UNCHANGED <<stored, expired, failing, ending>>

\* The claim of the AI side.
Explain ==
  /\ hasResult
  /\ status \in {"analyzer_result_ready", "completed"}
  /\ status' = "explaining"
  /\ UNCHANGED <<hasResult, stored, expired, failing, ending>>

\* A failure may be recorded with a result and without one, an end only with.
Decide ==
  /\ \/ failing' = TRUE /\ UNCHANGED ending /\ CanTransition(status, "failed")
     \/ ending' = TRUE /\ UNCHANGED failing /\ hasResult /\ CanTransition(status, "completed")
  /\ UNCHANGED <<status, hasResult, stored, expired>>

Fail ==
  /\ failing
  /\ status' = "failed"
  /\ failing' \in BOOLEAN
  /\ UNCHANGED <<hasResult, stored, expired, ending>>

End ==
  /\ ending
  /\ status' = "completed"
  /\ ending' \in BOOLEAN
  /\ UNCHANGED <<hasResult, stored, expired, failing>>

GiveUp ==
  /\ failing' \in {failing, FALSE} /\ ending' \in {ending, FALSE}
  /\ UNCHANGED <<status, hasResult, stored, expired>>

\* An outcome that was recorded once is enough, whatever was written over it.
Drop ==
  /\ stored
  /\ hasResult \/ status = "failed" \/ expired
  /\ stored' = FALSE
  /\ UNCHANGED <<status, hasResult, expired, failing, ending>>

Expire ==
  /\ CanExpire
  /\ ~expired
  /\ expired' = TRUE
  /\ UNCHANGED <<status, hasResult, stored, failing, ending>>

Next == Start \/ Produce \/ Explain \/ Decide \/ Fail \/ End \/ GiveUp \/ Drop \/ Expire

Spec == Init /\ [][Next]_vars

=============================================================================
