-------------------------- MODULE JobQueue_proofs --------------------------
(***************************************************************************)
(* What the queue's operators preserve, for the proofs about the handlers. *)
(***************************************************************************)
EXTENDS JobQueue, TLAPS

\* Every operation of the queue turns a job into a job.
LEMMA JobClosed ==
  ASSUME NEW job \in Job, NEW attempts \in Nat, NEW unrecoverable \in BOOLEAN
  PROVE  /\ Added(job) \in Job
         /\ Activated(job) \in Job
         /\ Completed(job) \in Job
         /\ FailedAttempt(job, attempts, unrecoverable) \in Job
         /\ Stalled(job) \in Job
         /\ Retried(job) \in Job
<1>0. job.started + 1 \in Nat /\ job.made + 1 \in Nat /\ job.stalls + 1 \in Nat
  BY DEF Job
<1>1. Added(job) \in Job  BY DEF Job, JobState, Added
<1>2. Activated(job) \in Job  BY <1>0 DEF Job, JobState, Activated
<1>3. Completed(job) \in Job  BY <1>0 DEF Job, JobState, Completed
<1>4. FailedAttempt(job, attempts, unrecoverable) \in Job
  BY <1>0 DEF Job, JobState, FailedAttempt
<1>5. Stalled(job) \in Job  BY <1>0 DEF Job, JobState, Stalled
<1>6. Retried(job) \in Job  BY DEF Job, JobState, Retried
<1>7. QED  BY <1>1, <1>2, <1>3, <1>4, <1>5, <1>6

\* The absent job is a job.
LEMMA NoJobIsJob == NoJob \in Job
  BY DEF NoJob, Job, JobState

\* Where each operation leaves a job; adding an existing one changes nothing.
LEMMA JobStaysPresent ==
  ASSUME NEW job \in Job, NEW attempts \in Nat, NEW unrecoverable \in BOOLEAN
  PROVE  /\ Activated(job).state = "active"
         /\ Completed(job).state = "completed"
         /\ FailedAttempt(job, attempts, unrecoverable).state \in {"waiting", "failed"}
         /\ Stalled(job).state \in {"waiting", "failed"}
         /\ Retried(job).state = "waiting"
         /\ job.state # "absent" => Added(job) = job
  BY DEF Job, JobState, Added, Activated, Completed, FailedAttempt, Stalled, Retried

=============================================================================
