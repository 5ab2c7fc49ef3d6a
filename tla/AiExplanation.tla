--------------------------- MODULE AiExplanation ---------------------------
(***************************************************************************)
(* The AI Explanation of one Analysis whose ObservationSet is persisted:   *)
(* the worker's handleAiExplanationJob, and the callers of                 *)
(* recoverAiExplanationEnqueue, which are the Analyzer handler's           *)
(* scheduleInitialAiExplanation and the API's retry route.                 *)
(*                                                                         *)
(* As in AnalyzerWorker, pc[w] is the next await of the handler activation *)
(* in slot w, and rpc[r] that of caller r.  The Analyzer's activations are *)
(* not over when they schedule the explanation: one that fails afterwards  *)
(* marks the whole Analysis failed, whatever goes on here (AnalyzerSide).  *)
(***************************************************************************)
EXTENDS Lifecycle, JobQueue

CONSTANTS
  Workers,       \* slots for handler activations
  NoWorker,      \* no activation holds the job's lock
  Scheduler,     \* the one call of scheduleInitialAiExplanation
  Requests,      \* the retry requests users send: a bound on their number
  Attempts,      \* AI_EXPLANATION_JOB_OPTIONS.attempts (3)
  Outcomes,      \* what an attempt to have the provider explain may give
  MaxFaults,     \* bound on failing awaits
  MaxCrashes,    \* bound on worker crashes
  MaxLostLocks   \* bound on locks lost by a live activation

ASSUME WorkersAssumption == NoWorker \notin Workers
ASSUME CallersAssumption == Scheduler \notin Requests
ASSUME AttemptsAssumption == Attempts \in Nat \ {0}
ASSUME OutcomesAssumption == Outcomes \subseteq {"explained", "retryable", "fatal"}
ASSUME BoundsAssumption == MaxFaults \in Nat /\ MaxCrashes \in Nat /\ MaxLostLocks \in Nat

Callers == Requests \cup {Scheduler}

VARIABLES
  status, aiStatus,      \* the Analysis row
  analyzerStatus,        \* ... of which "success" stands for "partial" too
  failing,               \* an Analyzer activation is about to write "failed"
  records,               \* number of AIExplanationRecords of the Analysis
  exec,                  \* status of its "ai_explanation" AnalysisExecution row
  job, holder,           \* the AI Explanation job, the activation with its lock
  pc, attempt, read, why,  \* per slot: next await, attemptsStarted, status read, cause
  rpc, anchor, jobSeen,  \* per caller: next await, status and job state it read
  faults, crashes, lostLocks

analyzerVars == <<analyzerStatus, failing>>
workerVars == <<pc, attempt, read, why>>
callerVars == <<rpc, anchor, jobSeen>>
boundVars  == <<faults, crashes, lostLocks>>
\* what no await of the handler itself writes
outerVars  == <<analyzerVars, job, holder, attempt, callerVars, crashes, lostLocks>>
vars == <<status, aiStatus, analyzerStatus, failing, records, exec, job, holder,
          pc, attempt, read, why, rpc, anchor, jobSeen, faults, crashes, lostLocks>>

HandlerPc ==
  {"idle", "lookup", "readStatus", "claim", "reread", "execFind", "execCreate", "execRun",
   "provider", "persistRead", "persistCommit", "execReconcile", "execDone",
   "failRead", "failWrite", "execFailed", "return", "throwRetry", "throwFatal"}

CallerPc ==
  {"start", "checkRecord", "findRecord", "findJob", "readStatus", "finalizeRead",
   "finalizeWrite", "retryJob", "enqueue", "markQueued", "end"}

TypeOK ==
  /\ status \in Explainable \cup {"failed"}
  /\ analyzerStatus \in {"success", "failed"}
  /\ failing \in BOOLEAN
  /\ aiStatus \in AIStatus
  /\ records \in Nat
  /\ exec \in ExecutionStatus
  /\ job \in Job
  /\ holder \in Workers \cup {NoWorker}
  /\ pc \in [Workers -> HandlerPc]
  /\ attempt \in [Workers -> Nat]
  /\ read \in [Workers -> Explainable \cup {"failed"}]
  /\ why \in [Workers -> {"none", "fatal", "exhausted"}]
  /\ rpc \in [Callers -> CallerPc]
  /\ anchor \in [Callers -> Explainable \cup {"failed"}]
  /\ jobSeen \in [Callers -> JobState]
  /\ faults \in Nat /\ crashes \in Nat /\ lostLocks \in Nat

\* persistAnalyzerSuccess has committed and the Analyzer handler is about to
\* schedule the explanation.
Init ==
  /\ status = "analyzer_result_ready"
  /\ aiStatus = "not_requested"
  /\ analyzerStatus = "success"
  /\ failing = FALSE
  /\ records = 0
  /\ exec = "none"
  /\ job = NoJob
  /\ holder = NoWorker
  /\ pc = [w \in Workers |-> "idle"]
  /\ attempt = [w \in Workers |-> 0]
  /\ read = [w \in Workers |-> "analyzer_result_ready"]
  /\ why = [w \in Workers |-> "none"]
  /\ rpc = [r \in Callers |-> IF r = Scheduler THEN "findRecord" ELSE "start"]
  /\ anchor = [r \in Callers |-> "analyzer_result_ready"]
  /\ jobSeen = [r \in Callers |-> "absent"]
  /\ faults = 0 /\ crashes = 0 /\ lostLocks = 0

-----------------------------------------------------------------------------
(* Moving the handler of slot w.                                           *)

At(w, label)   == pc[w] = label
Goto(w, label) == pc' = [pc EXCEPT ![w] = label]
Because(w, reason) == why' = [why EXCEPT ![w] = reason]

\* What an activation knows goes with it.
Forget(w) ==
  /\ attempt' = [attempt EXCEPT ![w] = 0]
  /\ read' = [read EXCEPT ![w] = "analyzer_result_ready"]
  /\ Because(w, "none")

\* handleRetryableAiFailure and handleNonRetryableAiFailure
ThrowRetryable(w) ==
  IF attempt[w] >= Attempts
  THEN Goto(w, "failRead") /\ Because(w, "exhausted")
  ELSE Goto(w, "throwRetry") /\ UNCHANGED why

ThrowFatal(w) == Goto(w, "failRead") /\ Because(w, "fatal")

FailureNotPersisted(w) ==
  IF why[w] = "fatal" THEN ThrowRetryable(w)
                      ELSE Goto(w, "throwRetry") /\ UNCHANGED why

\* Mutant: an Analysis in explaining is always someone else's.
NeverTakesOver(w) == FALSE

MayTakeOver(w) == status = "explaining" /\ attempt[w] > 1

\* Mutant: only one column is written.
RecordStatusOnly == status' = "completed" /\ UNCHANGED aiStatus

\* The update of persistAiExplanationFailure, whose read came before.
RecordAiFailure == status' = "completed" /\ aiStatus' = "failed"

\* Mutant: AIExplanationRecord.analysisId is not unique.
NoConflict == FALSE

RecordConflict == records > 0

-----------------------------------------------------------------------------
(* handleAiExplanationJob, await by await.                                 *)

Activate(w) ==
  /\ At(w, "idle")
  /\ job.state = "waiting"
  /\ job' = Activated(job)
  /\ holder' = w
  /\ attempt' = [attempt EXCEPT ![w] = job.started + 1]
  /\ Because(w, "none")
  /\ Goto(w, "lookup")
  /\ UNCHANGED <<status, aiStatus, analyzerVars, records, exec, read, callerVars, boundVars>>

\* Mutants: the record is not looked for; the execution row is taken for it.
LookupSkipped(w) ==
  /\ At(w, "lookup")
  /\ Goto(w, "readStatus")
  /\ UNCHANGED <<status, aiStatus, records, exec, read, why, faults, outerVars>>
LookupInExecution(w) ==
  /\ At(w, "lookup")
  /\ Goto(w, IF exec # "none" THEN "execReconcile" ELSE "readStatus")
  /\ UNCHANGED <<status, aiStatus, records, exec, read, why, faults, outerVars>>

LookupRecord(w) ==
  /\ At(w, "lookup")
  /\ Goto(w, IF records > 0 THEN "execReconcile" ELSE "readStatus")
  /\ UNCHANGED <<status, aiStatus, records, exec, read, why, faults, outerVars>>

ReadStatus(w) ==
  /\ At(w, "readStatus")
  /\ read' = [read EXCEPT ![w] = status]
  /\ Goto(w, IF analyzerStatus = "failed" THEN "return"
             ELSE IF status \in {"analyzer_result_ready", "completed"} THEN "claim"
             ELSE IF MayTakeOver(w) THEN "execFind" ELSE "return")
  /\ UNCHANGED <<status, aiStatus, records, exec, why, faults, outerVars>>

\* Mutant: the update of the claim does not repeat the status that was read.
ClaimBlindly(w) ==
  /\ At(w, "claim")
  /\ status' = "explaining"
  /\ aiStatus' = "running"
  /\ Goto(w, "execFind")
  /\ UNCHANGED <<records, exec, read, why, faults, outerVars>>

\* compareAndSetStatus(analysis.status -> explaining, aiStatus: running)
Claim(w) ==
  /\ At(w, "claim")
  /\ IF status = read[w]
     THEN /\ status' = "explaining"
          /\ aiStatus' = "running"
          /\ Goto(w, "execFind")
     ELSE Goto(w, "reread") /\ UNCHANGED <<status, aiStatus>>
  /\ UNCHANGED <<records, exec, read, why, faults, outerVars>>

Reread(w) ==
  /\ At(w, "reread")
  /\ Goto(w, IF MayTakeOver(w) THEN "execFind" ELSE "return")
  /\ UNCHANGED <<status, aiStatus, records, exec, read, why, faults, outerVars>>

FindExecution(w) ==
  /\ At(w, "execFind")
  /\ Goto(w, IF exec = "none" THEN "execCreate" ELSE "execRun")
  /\ UNCHANGED <<status, aiStatus, records, exec, read, why, faults, outerVars>>

CreateExecution(w) ==
  /\ At(w, "execCreate")
  /\ IF exec = "none"
     THEN exec' = "queued" /\ Goto(w, "execRun") /\ UNCHANGED why
     ELSE ThrowRetryable(w) /\ UNCHANGED exec
  /\ UNCHANGED <<status, aiStatus, records, read, faults, outerVars>>

RunExecution(w) ==
  /\ At(w, "execRun")
  /\ exec' = "running"
  /\ Goto(w, "provider")
  /\ UNCHANGED <<status, aiStatus, records, read, why, faults, outerVars>>

\* The size guard, the provider's answer, its schema and its grounding.  A
\* model's answer differs from one attempt to the next.
CallProvider(w) ==
  /\ At(w, "provider")
  /\ \/ "explained" \in Outcomes /\ Goto(w, "persistRead") /\ UNCHANGED why
     \/ "retryable" \in Outcomes /\ ThrowRetryable(w)
     \/ "fatal" \in Outcomes /\ ThrowFatal(w)
  /\ UNCHANGED <<status, aiStatus, records, exec, read, faults, outerVars>>

\* The transaction of persistAiExplanationSuccess up to updateStatus' read.  The
\* insert waits for another open transaction on the same unique key.
PersistRead(w) ==
  /\ At(w, "persistRead")
  /\ \A v \in Workers : ~At(v, "persistCommit")
  /\ IF RecordConflict THEN ThrowRetryable(w)                          \* CONFLICT
     ELSE IF ~CanTransition(status, "completed") THEN ThrowFatal(w)    \* INVALID_DATA
     ELSE Goto(w, "persistCommit") /\ UNCHANGED why
  /\ UNCHANGED <<status, aiStatus, records, exec, read, faults, outerVars>>

\* ... and its writes, which do not look at the status again.
PersistCommit(w) ==
  /\ At(w, "persistCommit")
  /\ records' = records + 1
  /\ status' = "completed"
  /\ aiStatus' = "success"
  /\ Goto(w, "execDone")
  /\ UNCHANGED <<exec, read, why, faults, outerVars>>

\* reconcileAiExecutionAfterPersist
ReconcileExecution(w) ==
  /\ At(w, "execReconcile")
  /\ exec' = IF exec = "none" THEN "none" ELSE "success"
  /\ Goto(w, "return")
  /\ UNCHANGED <<status, aiStatus, records, read, why, faults, outerVars>>

FinishExecution(w) ==
  /\ At(w, "execDone")
  /\ exec' = "success"
  /\ Goto(w, "return")
  /\ UNCHANGED <<status, aiStatus, records, read, why, faults, outerVars>>

\* persistAiExplanationFailure -> updateStatus: the read and the assertion ...
ReadForFailure(w) ==
  /\ At(w, "failRead")
  /\ IF CanTransition(status, "completed")
     THEN Goto(w, "failWrite") /\ UNCHANGED why
     ELSE FailureNotPersisted(w)
  /\ UNCHANGED <<status, aiStatus, records, exec, read, faults, outerVars>>

\* ... and the update, by id alone.
WriteFailure(w) ==
  /\ At(w, "failWrite")
  /\ RecordAiFailure
  /\ Goto(w, "execFailed")
  /\ UNCHANGED <<records, exec, read, why, faults, outerVars>>

AfterFailurePersisted(w) == Goto(w, IF why[w] = "fatal" THEN "throwFatal" ELSE "throwRetry")

FailExecution(w) ==
  /\ At(w, "execFailed")
  /\ exec' = IF exec = "none" THEN "none" ELSE "failed"
  /\ AfterFailurePersisted(w)
  /\ UNCHANGED <<status, aiStatus, records, read, why, faults, outerVars>>

EndActivation(w) ==
  /\ pc[w] \in {"return", "throwRetry", "throwFatal"}
  /\ IF holder = w
     THEN /\ holder' = NoWorker
          /\ job' = IF At(w, "return") THEN Completed(job)
                    ELSE FailedAttempt(job, Attempts, At(w, "throwFatal"))
     ELSE UNCHANGED <<job, holder>>
  /\ Goto(w, "idle")
  /\ Forget(w)
  /\ UNCHANGED <<status, aiStatus, analyzerVars, records, exec, callerVars, boundVars>>

InTryBlock == {"readStatus", "claim", "reread", "execFind", "execCreate", "execRun",
               "provider", "persistRead", "persistCommit", "execDone"}

Fault(w) ==
  /\ faults < MaxFaults
  /\ faults' = faults + 1
  /\ \/ At(w, "lookup") /\ Goto(w, "throwRetry") /\ UNCHANGED why
     \/ pc[w] \in InTryBlock /\ ThrowRetryable(w)
     \/ At(w, "execReconcile") /\ Goto(w, "return") /\ UNCHANGED why
     \/ pc[w] \in {"failRead", "failWrite"} /\ FailureNotPersisted(w)
     \/ At(w, "execFailed") /\ AfterFailurePersisted(w) /\ UNCHANGED why
  /\ UNCHANGED <<status, aiStatus, records, exec, read, outerVars>>

Crash(w) ==
  /\ crashes < MaxCrashes
  /\ ~At(w, "idle")
  /\ crashes' = crashes + 1
  /\ Goto(w, "idle")
  /\ Forget(w)
  /\ UNCHANGED <<status, aiStatus, analyzerVars, records, exec, job, holder, callerVars,
                 faults, lostLocks>>

Stall ==
  /\ job.state = "active"
  /\ holder \in Workers
  /\ At(holder, "idle")
  /\ job' = Stalled(job)
  /\ holder' = NoWorker
  /\ UNCHANGED <<status, aiStatus, analyzerVars, records, exec, workerVars, callerVars, boundVars>>

LoseLock ==
  /\ lostLocks < MaxLostLocks
  /\ job.state = "active"
  /\ holder \in Workers
  /\ ~At(holder, "idle")
  /\ lostLocks' = lostLocks + 1
  /\ job' = Stalled(job)
  /\ holder' = NoWorker
  /\ UNCHANGED <<status, aiStatus, analyzerVars, records, exec, workerVars, callerVars,
                 faults, crashes>>

-----------------------------------------------------------------------------
(* The callers of recoverAiExplanationEnqueue.                             *)

CallerAt(r, label) == rpc[r] = label
Proceed(r, label)  == rpc' = [rpc EXCEPT ![r] = label]
handlerVars == <<analyzerVars, exec, holder, workerVars>>

\* The retry route of an owner entitled to it: requireOwnedAnalysis reads the
\* row once, a failed Analyzer is a 409, and the last compareAndSetStatus is
\* anchored on the status that was read.
StartRequest(r) ==
  /\ CallerAt(r, "start")
  /\ anchor' = [anchor EXCEPT ![r] = status]
  /\ Proceed(r, IF analyzerStatus = "failed" THEN "end" ELSE "checkRecord")
  /\ UNCHANGED <<status, aiStatus, records, job, jobSeen, handlerVars, boundVars>>

\* The route's own lookup (409), then the same one in the function it calls.
CheckRecord(r) ==
  /\ rpc[r] \in {"checkRecord", "findRecord"}
  /\ Proceed(r, IF records > 0 THEN "end"
                ELSE IF CallerAt(r, "checkRecord") THEN "findRecord" ELSE "findJob")
  /\ UNCHANGED <<status, aiStatus, records, job, anchor, jobSeen, handlerVars, boundVars>>

\* Mutant: a failed job is taken for one that waits.
IsOverCompletedOnly == job.state = "completed"

IsOver == Finished(job)

\* getJob and getState; what is neither absent, over nor active is waiting.
FindJob(r) ==
  /\ CallerAt(r, "findJob")
  /\ jobSeen' = [jobSeen EXCEPT ![r] = job.state]
  /\ Proceed(r, IF job.state = "absent" THEN "enqueue"
                ELSE IF IsOver THEN "readStatus"
                ELSE IF job.state = "active" THEN "end" ELSE "markQueued")
  /\ UNCHANGED <<status, aiStatus, records, job, anchor, handlerVars, boundVars>>

\* A terminal job with aiStatus still running is finalized, not retried.
CheckRunning(r) ==
  /\ CallerAt(r, "readStatus")
  /\ Proceed(r, IF aiStatus = "running" THEN "finalizeRead" ELSE "retryJob")
  /\ UNCHANGED <<status, aiStatus, records, job, anchor, jobSeen, handlerVars, boundVars>>

FinalizeRead(r) ==
  /\ CallerAt(r, "finalizeRead")
  /\ Proceed(r, IF CanTransition(status, "completed") THEN "finalizeWrite" ELSE "end")
  /\ UNCHANGED <<status, aiStatus, records, job, anchor, jobSeen, handlerVars, boundVars>>

FinalizeWrite(r) ==
  /\ CallerAt(r, "finalizeWrite")
  /\ RecordAiFailure
  /\ Proceed(r, "end")
  /\ UNCHANGED <<records, job, anchor, jobSeen, handlerVars, boundVars>>

\* job.retry(state) throws if the job has left that state.
RetryJob(r) ==
  /\ CallerAt(r, "retryJob")
  /\ IF job.state = jobSeen[r]
     THEN job' = Retried(job) /\ Proceed(r, "markQueued")
     ELSE UNCHANGED job /\ Proceed(r, "end")
  /\ UNCHANGED <<status, aiStatus, records, anchor, jobSeen, handlerVars, boundVars>>

Enqueue(r) ==
  /\ CallerAt(r, "enqueue")
  /\ job' = Added(job)
  /\ Proceed(r, "markQueued")
  /\ UNCHANGED <<status, aiStatus, records, anchor, jobSeen, handlerVars, boundVars>>

\* compareAndSetStatus(anchor -> anchor, aiStatus: queued)
MarkQueued(r) ==
  /\ CallerAt(r, "markQueued")
  /\ aiStatus' = IF status = anchor[r] THEN "queued" ELSE aiStatus
  /\ Proceed(r, "end")
  /\ UNCHANGED <<status, records, job, anchor, jobSeen, handlerVars, boundVars>>

\* Mutant: an enqueue that failed is marked all the same.
MarkAnyway(r) == IF CallerAt(r, "enqueue") THEN "markQueued" ELSE "end"

\* Swallowed by the scheduler, a 500 for the retry route.
AfterCallerFault(r) == "end"

CallerFault(r) ==
  /\ faults < MaxFaults
  /\ rpc[r] \notin {"start", "end"}
  /\ faults' = faults + 1
  /\ Proceed(r, AfterCallerFault(r))
  /\ UNCHANGED <<status, aiStatus, records, job, anchor, jobSeen, handlerVars, crashes, lostLocks>>

-----------------------------------------------------------------------------
(* The Analyzer's activations, after the result: KeepsExplanationLifecycle  *)
(* of AnalyzerWorker says that they do no more to the row than this.        *)

\* The AI side has read the row and is about to write an outcome.
Ending ==
  \/ \E w \in Workers : pc[w] \in {"persistCommit", "failWrite"}
  \/ \E r \in Callers : CallerAt(r, "finalizeWrite")

Explanation ==
  INSTANCE ExplanationLifecycle WITH scheduled <- job.state # "absent", ending <- Ending

AnalyzerSide ==
  /\ Explanation!AnalyzerStep
  /\ UNCHANGED <<records, exec, job, holder, workerVars, callerVars, boundVars>>

-----------------------------------------------------------------------------

HandlerStep(w) ==
  \/ LookupRecord(w) \/ ReadStatus(w) \/ Claim(w) \/ Reread(w)
  \/ FindExecution(w) \/ CreateExecution(w) \/ RunExecution(w)
  \/ CallProvider(w) \/ PersistRead(w) \/ PersistCommit(w)
  \/ ReconcileExecution(w) \/ FinishExecution(w)
  \/ ReadForFailure(w) \/ WriteFailure(w) \/ FailExecution(w)
  \/ EndActivation(w)

CallerStep(r) ==
  \/ CheckRecord(r) \/ FindJob(r) \/ CheckRunning(r) \/ FinalizeRead(r)
  \/ FinalizeWrite(r) \/ RetryJob(r) \/ Enqueue(r) \/ MarkQueued(r)

Next ==
  \/ \E w \in Workers : Activate(w) \/ HandlerStep(w) \/ Fault(w) \/ Crash(w)
  \/ Stall \/ LoseLock
  \/ \E r \in Callers : StartRequest(r) \/ CallerStep(r) \/ CallerFault(r)
  \/ AnalyzerSide

Spec == Init /\ [][Next]_vars

(***************************************************************************)
(* Fairness: an await of a running handler or request ends, BullMQ         *)
(* delivers a waiting job to a live worker and detects a dead one.  Nobody *)
(* has to ask for a retry, and the Analyzer need not fail.                 *)
(***************************************************************************)
Fairness ==
  /\ \A w \in Workers : WF_vars(HandlerStep(w))
  /\ \A r \in Callers : WF_vars(CallerStep(r))
  /\ WF_vars(\E w \in Workers : Activate(w))
  /\ WF_vars(Stall)

FairSpec == Spec /\ Fairness

-----------------------------------------------------------------------------
(* Properties.                                                             *)

\* However often the job is delivered, retried or requested again, at most one
\* explanation is stored, and "success" is never shown without it
\* (persist-ai-explanation-result.ts:8-12).
AtMostOneExplanation == records <= 1 /\ (aiStatus = "success" => records > 0)

\* status, aiStatus and analyzerStatus are written by the worker's claim, by the
\* updates of three outcomes, by two same-status updates and by the Analyzer's
\* failure, in any order, and still agree: only an Analysis in "explaining", or
\* one the Analyzer failed under the AI worker's hands, is shown as running, one
\* in "explaining" is running or has a retry recorded on top, and the AI side
\* alone never makes an Analysis "failed" (persist-ai-explanation-result.ts:48-52).
ColumnsAgree ==
  /\ aiStatus = "running" => status \in {"explaining", "failed"}
  /\ status = "explaining" => aiStatus \in {"running", "queued"}
  /\ status = "failed" => analyzerStatus = "failed"

\* The interface never shows "queued" unless a job was really enqueued: the
\* enqueue comes before the row says so (schedule-ai-explanation.ts:21-34).
QueuedHasJob == aiStatus # "not_requested" => job.state # "absent"

\* The provider, which is paid by the call, is not called once an explanation
\* is stored: a redelivered job only reconciles (ai-explanation-job-handler.ts
\* :26-33).  An activation that lost its lock may still be about to call it.
NoCallAfterRecord ==
  records > 0 /\ lostLocks = 0 => \A w \in Workers : ~At(w, "provider")

\* The AnalysisExecution row never claims a success that was not persisted.
ExecutionSuccessMeansRecord == exec = "success" => records > 0

\* Whatever is lost, repeated or asked for again, and whatever the Analyzer does
\* to the row meanwhile, the AI side does what AnalyzerWorker takes for granted of
\* it: out of "analyzer_result_ready" or "completed" by a claim, into "completed"
\* by an outcome whose writer has seen a status that allows it, and nowhere else
\* (ai-explanation-job-handler.ts:125-139, prisma-analysis-repository.ts:112-128).
ImplementsExplanationLifecycle == Explanation!Spec

\* While nobody asks for a retry and the attempts outnumber what goes wrong, an
\* explanation that was enqueued comes to a visible end.  An answer that can be
\* tried again uses an attempt up, and with nothing else going wrong even the
\* last of them does not leave it open.  The Analyzer's failure is such an end.
Unasked == \A r \in Requests : CallerAt(r, "start")
FewFaults ==
  /\ crashes <= MaxStalledCount
  /\ faults + crashes < IF "retryable" \in Outcomes THEN 1 ELSE Attempts
EnqueuedIsExplained ==
  [](Unasked /\ FewFaults) =>
    (job.state # "absent" ~> aiStatus \in {"success", "failed"} \/ status = "failed")

\* An Analysis stuck in "explaining" behind a job BullMQ has given up is
\* finalized by the retry request that finds it so, if no await fails on it
\* (recover-ai-explanation-enqueue.ts:40-48).
StuckIsFinalized ==
  \A r \in Requests :
    /\ CallerAt(r, "findJob") /\ records = 0 /\ aiStatus = "running" /\ Finished(job)
    /\ \A w \in Workers : At(w, "idle")
    /\ faults = MaxFaults
    ~> status \in {"completed", "failed"}

=============================================================================
