-------------------------- MODULE MCAiExplanation --------------------------
(***************************************************************************)
(* Instances of AiExplanation for TLC.                                     *)
(***************************************************************************)
EXTENDS AiExplanation, TLC

\* Activations and retry requests are interchangeable.
Symmetry == Permutations(Workers) \cup Permutations(Requests)

\* The states by what can still be told of them: the status an activation has
\* read is used in its claim alone, the job state a caller has seen in the retry
\* of the job, its anchor in the mark; at other places either is written again
\* before it is read, or not read at all.
ReadInUse   == [w \in Workers |-> IF At(w, "claim") THEN read[w] ELSE "unused"]
AnchorInUse == [r \in Callers |-> IF rpc[r] \in {"start", "finalizeRead", "finalizeWrite", "end"}
                                  THEN "unused" ELSE anchor[r]]
SeenInUse   == [r \in Callers |-> IF rpc[r] \in {"readStatus", "retryJob"}
                                  THEN jobSeen[r] ELSE "unused"]
Distinguishable ==
  <<status, aiStatus, analyzerStatus, failing, records, exec, job, holder,
    pc, attempt, ReadInUse, why, rpc, AnchorInUse, SeenInUse, faults, crashes, lostLocks>>

=============================================================================
