------------------------------ MODULE JobQueue ------------------------------
(***************************************************************************)
(* BullMQ, as packages/queue and apps/worker use it: one job under a       *)
(* deterministic id.  A job is a record; an operator here is one of the    *)
(* atomic Redis scripts the library runs.  "waiting" stands for the        *)
(* waiting and the delayed (backoff) sets.                                 *)
(*                                                                         *)
(* A finished job keeps its id, so that adding it again does nothing;      *)
(* attemptsStarted counts activations, a redelivery after a lost lock      *)
(* included, attemptsMade only the activations that reported an end; a job *)
(* that lost its lock goes back to the queue once (maxStalledCount) and is *)
(* failed the next time.                                                   *)
(***************************************************************************)
EXTENDS Naturals

MaxStalledCount == 1

JobState == {"absent", "waiting", "active", "completed", "failed"}

Job == [state : JobState, started : Nat, made : Nat, stalls : Nat]

NoJob == [state |-> "absent", started |-> 0, made |-> 0, stalls |-> 0]

\* queue.add with a custom jobId: ignored while a job of that id exists.
Added(job) ==
  IF job.state = "absent" THEN [job EXCEPT !.state = "waiting"] ELSE job

Activated(job) == [job EXCEPT !.state = "active", !.started = @ + 1]

Completed(job) == [job EXCEPT !.state = "completed", !.made = @ + 1]

\* A processor that threw: another attempt while some are left, unless it
\* threw an UnrecoverableError.
FailedAttempt(job, attempts, unrecoverable) ==
  [job EXCEPT !.made = @ + 1,
              !.state = IF ~unrecoverable /\ job.made + 1 < attempts
                        THEN "waiting" ELSE "failed"]

\* The stalled checker finds an active job whose lock was not renewed.
Stalled(job) ==
  [job EXCEPT !.stalls = @ + 1,
              !.state = IF job.stalls < MaxStalledCount
                        THEN "waiting" ELSE "failed"]

Finished(job) == job.state \in {"completed", "failed"}

\* job.retry(state): back to waiting, the counters as they were.
Retried(job) == [job EXCEPT !.state = "waiting"]

=============================================================================
