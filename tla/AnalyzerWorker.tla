--------------------------- MODULE AnalyzerWorker ---------------------------
(***************************************************************************)
(* The Analyzer worker of apps/worker for one uploaded Analysis.           *)
(*                                                                         *)
(* PostgreSQL rows, the storage object and the BullMQ jobs are global      *)
(* variables.  A Workers element is a slot a handler activation runs in;   *)
(* several may run handleAnalyzerJob for the same Analysis, since an       *)
(* activation whose lock was lost goes on running while the job is         *)
(* delivered again.  pc[w] is the next await of the handler in slot w: an  *)
(* action does that await and the synchronous code up to the next one.     *)
(* Around the handler: the maintenance worker (raw-log delete job and      *)
(* retention sweep), the operator's recoverAnalyzerEnqueue, the passing of *)
(* expiresAt, and the AI side, which only matters here for what it does to *)
(* Analysis.status.                                                        *)
(***************************************************************************)
EXTENDS Lifecycle, JobQueue

CONSTANTS
  Workers,         \* slots for handler activations
  NoWorker,        \* no activation holds the job's lock
  Attempts,        \* ANALYZER_JOB_OPTIONS.attempts (3)
  DeleteAttempts,  \* attempts of the raw-log delete job (5)
  Verdicts,        \* the results the Analyzer may give for the uploaded file
  CanExpire,       \* whether the retention period may pass
  MaxFaults,       \* bound on failing awaits
  MaxCrashes,      \* bound on process crashes
  MaxLostLocks,    \* bound on locks lost by a live activation
  MaxRecoveries    \* bound on operator recoveries

ASSUME WorkersAssumption == NoWorker \notin Workers
ASSUME AttemptsAssumption == Attempts \in Nat \ {0} /\ DeleteAttempts \in Nat \ {0}
ASSUME VerdictsAssumption == Verdicts \subseteq {"success", "partial", "fatal", "error"}
ASSUME ExpiryAssumption == CanExpire \in BOOLEAN
ASSUME BoundsAssumption ==
  /\ MaxFaults \in Nat
  /\ MaxCrashes \in Nat
  /\ MaxLostLocks \in Nat
  /\ MaxRecoveries \in Nat

VARIABLES
  status, analyzerStatus, aiStatus,  \* the Analysis row
  observationSets,  \* number of ObservationSetRecords of the Analysis
  usageEvents,      \* number of UsageEvents of the Analysis
  exec,             \* status of its "analyzer" AnalysisExecution row
  rawLog,           \* its UploadedAccessLog row: status and deletionStatus
  object,           \* whether the raw log is in the object storage
  expired,          \* whether expiresAt has passed
  verdict,          \* what the Analyzer makes of the file: a function of it
  job, holder,      \* the analyzer job, the activation that holds its lock
  pc, attempt, why, \* per slot: next await, attemptsStarted, why it cleans up
  aiJob,            \* whether the AI Explanation job was ever enqueued
  ending,           \* the AI side has read the row and is about to complete it
  deleteJob, mpc,   \* the raw-log delete job, the maintenance worker
  opc,              \* the operator's recovery call
  faults, crashes, lostLocks, recoveries

analysisVars == <<status, analyzerStatus, aiStatus>>
resultVars   == <<observationSets, usageEvents>>
rawVars      == <<rawLog, object, expired, verdict>>
jobVars      == <<job, holder>>
localVars    == <<attempt, why>>
aiVars       == <<aiJob, ending>>
maintVars    == <<deleteJob, mpc>>
boundVars    == <<faults, crashes, lostLocks, recoveries>>
\* what no await of the handler itself writes
outerVars    == <<expired, verdict, holder, attempt, ending, mpc, opc, job,
                  crashes, lostLocks, recoveries>>
vars == <<status, analyzerStatus, aiStatus, observationSets, usageEvents, exec,
          rawLog, object, expired, verdict, job, holder, pc, attempt, why,
          aiJob, ending, deleteJob, mpc, opc, faults, crashes, lostLocks, recoveries>>

HandlerPc ==
  {"idle", "lookup", "readStatus", "claim", "markProcessing", "reread",
   "exists", "execFind", "execCreate", "execRun", "analyze", "persistRead",
   "persistCommit", "aiEnqueue", "aiMark", "rawFind", "rawDelete", "rawMark",
   "rawMarkFailed", "rawEnqueue", "execReconcile", "execDone", "failRead",
   "failWrite", "execFailed", "return", "throwRetry", "throwFatal"}

\* Why an activation reconciles the raw log or persists a failure.
Why == {"none", "recovered", "done", "fatal", "exhausted"}

MaintPc == {"idle", "sweepDelete", "sweepMark", "sweepFailed",
            "jobDelete", "jobMark", "jobFailed"}

RawLogRow == [status : {"uploaded", "processing", "deleted", "expired"},
              deletion : {"pending", "success", "failed"}]

TypeOK ==
  /\ status \in AnalysisStatus
  /\ analyzerStatus \in AnalyzerStatus
  /\ aiStatus \in AIStatus
  /\ observationSets \in Nat
  /\ usageEvents \in Nat
  /\ exec \in ExecutionStatus
  /\ rawLog \in RawLogRow
  /\ object \in BOOLEAN
  /\ expired \in BOOLEAN
  /\ verdict \in Verdicts
  /\ job \in Job
  /\ holder \in Workers \cup {NoWorker}
  /\ pc \in [Workers -> HandlerPc]
  /\ attempt \in [Workers -> Nat]
  /\ why \in [Workers -> Why]
  /\ aiJob \in BOOLEAN /\ ending \in BOOLEAN
  /\ deleteJob \in Job
  /\ mpc \in MaintPc
  /\ opc \in {"idle", "requeue"}
  /\ faults \in Nat /\ crashes \in Nat /\ lostLocks \in Nat /\ recoveries \in Nat

\* The upload route has persisted the row and moved the Analysis to
\* "uploaded"; its enqueue succeeded, or failed and left no job.
Init ==
  /\ status = "uploaded"
  /\ analyzerStatus = "null"
  /\ aiStatus = "not_requested"
  /\ observationSets = 0
  /\ usageEvents = 0
  /\ exec = "none"
  /\ rawLog = [status |-> "uploaded", deletion |-> "pending"]
  /\ object = TRUE
  /\ expired = FALSE
  /\ verdict \in Verdicts
  /\ job \in {NoJob, Added(NoJob)}
  /\ holder = NoWorker
  /\ pc = [w \in Workers |-> "idle"]
  /\ attempt = [w \in Workers |-> 0]
  /\ why = [w \in Workers |-> "none"]
  /\ aiJob = FALSE /\ ending = FALSE
  /\ deleteJob = NoJob
  /\ mpc = "idle"
  /\ opc = "idle"
  /\ faults = 0 /\ crashes = 0 /\ lostLocks = 0 /\ recoveries = 0

-----------------------------------------------------------------------------
(* Moving the handler of slot w.                                           *)

At(w, label)   == pc[w] = label
Goto(w, label) == pc' = [pc EXCEPT ![w] = label]
Because(w, reason) == why' = [why EXCEPT ![w] = reason]

\* What an activation knows goes with it.
Forget(w) == attempt' = [attempt EXCEPT ![w] = 0] /\ Because(w, "none")

\* handleRetryableFailure: the last attempt first records the failure.
ThrowRetryable(w) ==
  IF attempt[w] >= Attempts
  THEN Goto(w, "failRead") /\ Because(w, "exhausted")
  ELSE Goto(w, "throwRetry") /\ UNCHANGED why

\* handleNonRetryableFailure: the failure is recorded whatever the attempt.
ThrowFatal(w) == Goto(w, "failRead") /\ Because(w, "fatal")

\* Mutant: the result of persistAnalyzerFailure is not looked at.
FailureNotPersistedIgnored(w) ==
  Goto(w, IF why[w] = "fatal" THEN "rawFind" ELSE "throwRetry") /\ UNCHANGED why

\* A failure that could not be persisted: a fatal result becomes a retryable
\* error; at exhaustion there is nothing left to do.
FailureNotPersisted(w) ==
  IF why[w] = "fatal" THEN ThrowRetryable(w)
                      ELSE Goto(w, "throwRetry") /\ UNCHANGED why

\* Mutant: the failed path ends like the successful one.
AfterReconcileConfused(w) ==
  Goto(w, IF why[w] = "recovered" THEN "execReconcile" ELSE "execDone")

\* Where the caller of reconcileRawLogDeletion goes on.
AfterReconcile(w) ==
  Goto(w, CASE why[w] = "recovered" -> "execReconcile"
            [] why[w] = "done"      -> "execDone"
            [] OTHER                -> "throwFatal")

\* Mutant: off by one.
MayTakeOverLate(w) == status = "analyzing" /\ attempt[w] > 2

\* A redelivery (attemptsStarted > 1) takes an Analysis already in analyzing.
MayTakeOver(w) == status = "analyzing" /\ attempt[w] > 1

\* Mutant: an update that is not conditional on the status.
ClaimUnconditional == TRUE

\* compareAndSetStatus(uploaded -> analyzing) matches the row.
ClaimWins == status = "uploaded"

\* A missing object is NOT_FOUND, and that is not retryable either.
FatalResult == ~object \/ verdict = "fatal"

\* Mutant: ObservationSetRecord.analysisId is not unique.
NoConflict == FALSE

ResultConflict == observationSets > 0

-----------------------------------------------------------------------------
(* handleAnalyzerJob, await by await.                                      *)

\* BullMQ hands the job to a free slot.
Activate(w) ==
  /\ At(w, "idle")
  /\ job.state = "waiting"
  /\ job' = Activated(job)
  /\ holder' = w
  /\ attempt' = [attempt EXCEPT ![w] = job.started + 1]
  /\ Because(w, "none")
  /\ Goto(w, "lookup")
  /\ UNCHANGED <<analysisVars, resultVars, exec, rawVars, aiVars, maintVars, opc, boundVars>>

LookupObservationSet(w) ==
  /\ At(w, "lookup")
  /\ IF observationSets > 0
     THEN Goto(w, "rawFind") /\ Because(w, "recovered")
     ELSE Goto(w, "readStatus") /\ UNCHANGED why
  /\ UNCHANGED <<analysisVars, resultVars, exec, rawLog, object, aiJob, deleteJob, faults, outerVars>>

ReadStatus(w) ==
  /\ At(w, "readStatus")
  /\ Goto(w, IF status = "uploaded" THEN "claim"
             ELSE IF MayTakeOver(w) THEN "exists" ELSE "return")
  /\ UNCHANGED <<analysisVars, resultVars, exec, rawLog, object, why, aiJob, deleteJob, faults, outerVars>>

Claim(w) ==
  /\ At(w, "claim")
  /\ IF ClaimWins
     THEN status' = "analyzing" /\ Goto(w, "markProcessing")
     ELSE UNCHANGED status /\ Goto(w, "reread")
  /\ UNCHANGED <<analyzerStatus, aiStatus, resultVars, exec, rawLog, object, why, aiJob,
                 deleteJob, faults, outerVars>>

MarkProcessing(w) ==
  /\ At(w, "markProcessing")
  /\ rawLog' = [rawLog EXCEPT !.status = "processing"]
  /\ Goto(w, "execFind")
  /\ UNCHANGED <<analysisVars, resultVars, exec, object, why, aiJob, deleteJob, faults, outerVars>>

Reread(w) ==
  /\ At(w, "reread")
  /\ Goto(w, IF MayTakeOver(w) THEN "exists" ELSE "return")
  /\ UNCHANGED <<analysisVars, resultVars, exec, rawLog, object, why, aiJob, deleteJob, faults, outerVars>>

\* A retry only proceeds while the raw log is still there.
CheckRawLog(w) ==
  /\ At(w, "exists")
  /\ Goto(w, IF object THEN "execFind" ELSE "return")
  /\ UNCHANGED <<analysisVars, resultVars, exec, rawLog, object, why, aiJob, deleteJob, faults, outerVars>>

FindExecution(w) ==
  /\ At(w, "execFind")
  /\ Goto(w, IF exec = "none" THEN "execCreate" ELSE "execRun")
  /\ UNCHANGED <<analysisVars, resultVars, exec, rawLog, object, why, aiJob, deleteJob, faults, outerVars>>

\* @@unique([analysisId, type]): a second row is a CONFLICT.
CreateExecution(w) ==
  /\ At(w, "execCreate")
  /\ IF exec = "none"
     THEN exec' = "queued" /\ Goto(w, "execRun") /\ UNCHANGED why
     ELSE ThrowRetryable(w) /\ UNCHANGED exec
  /\ UNCHANGED <<analysisVars, resultVars, rawLog, object, aiJob, deleteJob, faults, outerVars>>

RunExecution(w) ==
  /\ At(w, "execRun")
  /\ exec' = "running"
  /\ Goto(w, "analyze")
  /\ UNCHANGED <<analysisVars, resultVars, rawLog, object, why, aiJob, deleteJob, faults, outerVars>>

\* getObjectStream and analyzeAccessLog: "error" is a result with a retryable
\* error code.
Analyze(w) ==
  /\ At(w, "analyze")
  /\ IF FatalResult THEN ThrowFatal(w)
     ELSE IF verdict = "error" THEN ThrowRetryable(w)
     ELSE Goto(w, "persistRead") /\ UNCHANGED why
  /\ UNCHANGED <<analysisVars, resultVars, exec, rawLog, object, aiJob, deleteJob, faults, outerVars>>

\* The transaction of persistAnalyzerSuccess up to updateStatus' read.  The
\* insert waits for another open transaction on the same unique key.
PersistRead(w) ==
  /\ At(w, "persistRead")
  /\ \A v \in Workers : ~At(v, "persistCommit")
  /\ IF ResultConflict THEN ThrowRetryable(w)                                   \* CONFLICT
     ELSE IF ~CanTransition(status, "analyzer_result_ready") THEN ThrowFatal(w) \* INVALID_DATA
     ELSE Goto(w, "persistCommit") /\ UNCHANGED why
  /\ UNCHANGED <<analysisVars, resultVars, exec, rawLog, object, aiJob, deleteJob, faults, outerVars>>

\* ... and its writes, which do not look at the status again.
PersistCommit(w) ==
  /\ At(w, "persistCommit")
  /\ observationSets' = observationSets + 1
  /\ usageEvents' = usageEvents + 1
  /\ status' = "analyzer_result_ready"
  /\ analyzerStatus' = verdict
  /\ Because(w, "done")
  /\ Goto(w, "aiEnqueue")
  /\ UNCHANGED <<aiStatus, exec, rawLog, object, aiJob, deleteJob, faults, outerVars>>

\* scheduleInitialAiExplanation: enqueue.  If the AI side has a job already
\* (a retry request came first), what is done depends on that job's state.
EnqueueAi(w) ==
  /\ At(w, "aiEnqueue")
  /\ aiJob' = TRUE
  /\ Goto(w, "aiMark") \/ (aiJob /\ Goto(w, "rawFind"))
  /\ UNCHANGED <<analysisVars, resultVars, exec, rawLog, object, why, deleteJob, faults, outerVars>>

\* ... and the same-status compareAndSetStatus that records it.
MarkAiQueued(w) ==
  /\ At(w, "aiMark")
  /\ aiStatus' = IF status = "analyzer_result_ready" THEN "queued" ELSE aiStatus
  /\ Goto(w, "rawFind")
  /\ UNCHANGED <<status, analyzerStatus, resultVars, exec, rawLog, object, why, aiJob,
                 deleteJob, faults, outerVars>>

(* reconcileRawLogDeletion *)

FindRawLog(w) ==
  /\ At(w, "rawFind")
  /\ IF rawLog.status \in {"deleted", "expired"} THEN AfterReconcile(w) ELSE Goto(w, "rawDelete")
  /\ UNCHANGED <<analysisVars, resultVars, exec, rawLog, object, why, aiJob, deleteJob, faults, outerVars>>

\* Mutant: the delete is not awaited.
DeleteRawLogLater(w) ==
  /\ At(w, "rawDelete")
  /\ Goto(w, "rawMark")
  /\ UNCHANGED <<analysisVars, resultVars, exec, rawLog, object, why, aiJob, deleteJob, faults, outerVars>>

DeleteRawLog(w) ==
  /\ At(w, "rawDelete")
  /\ object' = FALSE
  /\ Goto(w, "rawMark")
  /\ UNCHANGED <<analysisVars, resultVars, exec, rawLog, why, aiJob, deleteJob, faults, outerVars>>

MarkDeleted(w) ==
  /\ At(w, "rawMark")
  /\ rawLog' = [status |-> "deleted", deletion |-> "success"]
  /\ AfterReconcile(w)
  /\ UNCHANGED <<analysisVars, resultVars, exec, object, why, aiJob, deleteJob, faults, outerVars>>

MarkDeletionFailed(w) ==
  /\ At(w, "rawMarkFailed")
  /\ rawLog' = [rawLog EXCEPT !.deletion = "failed"]
  /\ Goto(w, "rawEnqueue")
  /\ UNCHANGED <<analysisVars, resultVars, exec, object, why, aiJob, deleteJob, faults, outerVars>>

EnqueueDelete(w) ==
  /\ At(w, "rawEnqueue")
  /\ deleteJob' = Added(deleteJob)
  /\ AfterReconcile(w)
  /\ UNCHANGED <<analysisVars, resultVars, exec, rawLog, object, why, aiJob, faults, outerVars>>

(* The AnalysisExecution row after the result. *)

\* reconcileExecutionAfterPersist
ReconcileExecution(w) ==
  /\ At(w, "execReconcile")
  /\ exec' = IF exec # "none" /\ analyzerStatus \in {"success", "partial"} THEN "success" ELSE exec
  /\ Goto(w, "return")
  /\ UNCHANGED <<analysisVars, resultVars, rawLog, object, why, aiJob, deleteJob, faults, outerVars>>

FinishExecution(w) ==
  /\ At(w, "execDone")
  /\ exec' = "success"
  /\ Goto(w, "return")
  /\ UNCHANGED <<analysisVars, resultVars, rawLog, object, why, aiJob, deleteJob, faults, outerVars>>

(* persistFailureAndUpdateExecution *)

\* persistAnalyzerFailure -> updateStatus: the read and the assertion ...
ReadForFailure(w) ==
  /\ At(w, "failRead")
  /\ IF CanTransition(status, "failed")
     THEN Goto(w, "failWrite") /\ UNCHANGED why
     ELSE FailureNotPersisted(w)
  /\ UNCHANGED <<analysisVars, resultVars, exec, rawLog, object, aiJob, deleteJob, faults, outerVars>>

\* ... and the update, which is not conditional on what was read.
WriteFailure(w) ==
  /\ At(w, "failWrite")
  /\ status' = "failed"
  /\ analyzerStatus' = "failed"
  /\ Goto(w, "execFailed")
  /\ UNCHANGED <<aiStatus, resultVars, exec, rawLog, object, why, aiJob, deleteJob, faults, outerVars>>

AfterFailurePersisted(w) == Goto(w, IF why[w] = "fatal" THEN "rawFind" ELSE "throwRetry")

FailExecution(w) ==
  /\ At(w, "execFailed")
  /\ exec' = IF exec = "none" THEN "none" ELSE "failed"
  /\ AfterFailurePersisted(w)
  /\ UNCHANGED <<analysisVars, resultVars, rawLog, object, why, aiJob, deleteJob, faults, outerVars>>

\* The handler returns or throws: BullMQ accepts it from the lock's holder.
EndActivation(w) ==
  /\ pc[w] \in {"return", "throwRetry", "throwFatal"}
  /\ IF holder = w
     THEN /\ holder' = NoWorker
          /\ job' = IF At(w, "return") THEN Completed(job)
                    ELSE FailedAttempt(job, Attempts, At(w, "throwFatal"))
     ELSE UNCHANGED jobVars
  /\ Goto(w, "idle")
  /\ Forget(w)
  /\ UNCHANGED <<analysisVars, resultVars, exec, rawVars, aiVars, maintVars, opc, boundVars>>

-----------------------------------------------------------------------------
(* A failing await: the error goes where the code around it sends it.      *)

InTryBlock == {"readStatus", "claim", "markProcessing", "reread", "exists", "execFind",
               "execCreate", "execRun", "analyze", "persistRead", "persistCommit", "execDone"}

StorageReads == {"exists", "analyze"}

Fault(w) ==
  /\ faults < MaxFaults
  /\ faults' = faults + 1
  /\ \/ At(w, "lookup") /\ Goto(w, "throwRetry") /\ UNCHANGED why
     \/ pc[w] \in InTryBlock /\ ThrowRetryable(w)
     \/ pc[w] \in StorageReads /\ ThrowFatal(w)     \* StorageError PERMANENT
     \/ pc[w] \in {"aiEnqueue", "aiMark"} /\ Goto(w, "rawFind") /\ UNCHANGED why
     \/ pc[w] \in {"rawFind", "rawMarkFailed", "rawEnqueue"} /\ AfterReconcile(w) /\ UNCHANGED why
     \/ pc[w] \in {"rawDelete", "rawMark"} /\ Goto(w, "rawMarkFailed") /\ UNCHANGED why
     \/ At(w, "execReconcile") /\ Goto(w, "return") /\ UNCHANGED why
     \/ pc[w] \in {"failRead", "failWrite"} /\ FailureNotPersisted(w)
     \/ At(w, "execFailed") /\ AfterFailurePersisted(w) /\ UNCHANGED why
  /\ UNCHANGED <<analysisVars, resultVars, exec, rawLog, object, aiJob, deleteJob, outerVars>>

\* The worker process dies; an open transaction is rolled back.
Crash(w) ==
  /\ crashes < MaxCrashes
  /\ ~At(w, "idle")
  /\ crashes' = crashes + 1
  /\ Goto(w, "idle")
  /\ Forget(w)
  /\ UNCHANGED <<analysisVars, resultVars, exec, rawVars, jobVars, aiVars, maintVars,
                 opc, faults, lostLocks, recoveries>>

\* The lock of an active job runs out because its holder's process died ...
Stall ==
  /\ job.state = "active"
  /\ holder \in Workers
  /\ At(holder, "idle")
  /\ job' = Stalled(job)
  /\ holder' = NoWorker
  /\ UNCHANGED <<analysisVars, resultVars, exec, rawVars, pc, localVars, aiVars, maintVars, opc,
                 boundVars>>

\* ... or the holder did not renew it in time, and goes on without it.
LoseLock ==
  /\ lostLocks < MaxLostLocks
  /\ job.state = "active"
  /\ holder \in Workers
  /\ ~At(holder, "idle")
  /\ lostLocks' = lostLocks + 1
  /\ job' = Stalled(job)
  /\ holder' = NoWorker
  /\ UNCHANGED <<analysisVars, resultVars, exec, rawVars, pc, localVars, aiVars, maintVars, opc,
                 faults, crashes, recoveries>>

-----------------------------------------------------------------------------
(* The maintenance worker (concurrency 1).                                 *)

MaintGoto(label) == mpc' = label
handlerVars == <<analysisVars, resultVars, exec, jobVars, pc, localVars, aiVars, opc>>

\* Mutant: a row whose deletion failed once is not tried again.
PendingOnly == rawLog.deletion = "pending"

\* findExpiredCandidates looks at the status alone.
NotYetCleaned == rawLog.status \notin {"deleted", "expired"}

\* handleCleanupJob, which the hourly scheduler runs again and again.
SweepFind ==
  /\ mpc = "idle"
  /\ expired
  /\ NotYetCleaned
  /\ MaintGoto("sweepDelete")
  /\ UNCHANGED <<handlerVars, rawVars, deleteJob, boundVars>>

SweepDelete ==
  /\ mpc = "sweepDelete"
  /\ object' = FALSE
  /\ MaintGoto("sweepMark")
  /\ UNCHANGED <<handlerVars, rawLog, expired, verdict, deleteJob, boundVars>>

SweepMark ==
  /\ mpc = "sweepMark"
  /\ rawLog' = [status |-> "expired", deletion |-> "success"]
  /\ MaintGoto("idle")
  /\ UNCHANGED <<handlerVars, object, expired, verdict, deleteJob, boundVars>>

\* handleRawLogDeleteJob
StartDeleteJob ==
  /\ mpc = "idle"
  /\ deleteJob.state = "waiting"
  /\ IF rawLog.status \in {"deleted", "expired"}
     THEN deleteJob' = Completed(Activated(deleteJob)) /\ UNCHANGED mpc
     ELSE deleteJob' = Activated(deleteJob) /\ MaintGoto("jobDelete")
  /\ UNCHANGED <<handlerVars, rawVars, boundVars>>

DeleteJobDelete ==
  /\ mpc = "jobDelete"
  /\ object' = FALSE
  /\ MaintGoto("jobMark")
  /\ UNCHANGED <<handlerVars, rawLog, expired, verdict, deleteJob, boundVars>>

DeleteJobMark ==
  /\ mpc = "jobMark"
  /\ rawLog' = [status |-> "deleted", deletion |-> "success"]
  /\ deleteJob' = Completed(deleteJob)
  /\ MaintGoto("idle")
  /\ UNCHANGED <<handlerVars, object, expired, verdict, boundVars>>

\* markDeletionFailed in either handler; the delete job then rethrows.
MaintMarkFailed ==
  /\ mpc \in {"sweepFailed", "jobFailed"}
  /\ rawLog' = [rawLog EXCEPT !.deletion = "failed"]
  /\ deleteJob' = IF mpc = "jobFailed" THEN FailedAttempt(deleteJob, DeleteAttempts, FALSE)
                                       ELSE deleteJob
  /\ MaintGoto("idle")
  /\ UNCHANGED <<handlerVars, object, expired, verdict, boundVars>>

MaintFault ==
  /\ faults < MaxFaults
  /\ faults' = faults + 1
  /\ \/ /\ mpc \in {"sweepDelete", "sweepMark"}
        /\ MaintGoto("sweepFailed")
        /\ UNCHANGED deleteJob
     \/ /\ mpc = "jobDelete"
        /\ MaintGoto("jobFailed")
        /\ UNCHANGED deleteJob
     \/ /\ mpc = "sweepFailed"
        /\ MaintGoto("idle")
        /\ UNCHANGED deleteJob
     \/ /\ mpc \in {"jobMark", "jobFailed"}
        /\ MaintGoto("idle")
        /\ deleteJob' = FailedAttempt(deleteJob, DeleteAttempts, FALSE)
  /\ UNCHANGED <<handlerVars, rawVars, crashes, lostLocks, recoveries>>

\* The process dies; its delete job, if it had one, stalls.
MaintCrash ==
  /\ crashes < MaxCrashes
  /\ mpc # "idle"
  /\ crashes' = crashes + 1
  /\ deleteJob' = IF deleteJob.state = "active" THEN Stalled(deleteJob) ELSE deleteJob
  /\ MaintGoto("idle")
  /\ UNCHANGED <<handlerVars, rawVars, faults, lostLocks, recoveries>>

-----------------------------------------------------------------------------
(* The environment.                                                        *)

Expire ==
  /\ CanExpire
  /\ ~expired
  /\ expired' = TRUE
  /\ UNCHANGED <<handlerVars, rawLog, object, verdict, maintVars, boundVars>>

\* recoverAnalyzerEnqueue, called by an operator: the two reads ...
RecoverCheck ==
  /\ opc = "idle"
  /\ recoveries < MaxRecoveries
  /\ recoveries' = recoveries + 1
  /\ opc' = IF status = "uploaded" /\ observationSets = 0 THEN "requeue" ELSE "idle"
  /\ UNCHANGED <<analysisVars, resultVars, exec, rawVars, jobVars, pc, localVars, aiVars,
                 maintVars, faults, crashes, lostLocks>>

\* ... and what it does to the job.
RecoverEnqueue ==
  /\ opc = "requeue"
  /\ opc' = "idle"
  /\ job' = IF Finished(job) THEN Retried(job) ELSE Added(job)
  /\ UNCHANGED <<analysisVars, resultVars, exec, rawVars, holder, pc, localVars, aiVars,
                 maintVars, boundVars>>

\* An activation has read the row and is about to record a failure.
Failing == \E w \in Workers : At(w, "failWrite")

\* The API's AI Explanation retry and the AI worker, as far as this module
\* can see them.
Explanation ==
  INSTANCE ExplanationLifecycle WITH scheduled <- aiJob, failing <- Failing

AiSide ==
  /\ observationSets > 0
  /\ Explanation!AiStep
  /\ UNCHANGED <<resultVars, exec, rawVars, jobVars, pc, localVars, maintVars, opc, boundVars>>

-----------------------------------------------------------------------------

HandlerStep(w) ==
  \/ LookupObservationSet(w) \/ ReadStatus(w) \/ Claim(w) \/ MarkProcessing(w) \/ Reread(w)
  \/ CheckRawLog(w) \/ FindExecution(w) \/ CreateExecution(w) \/ RunExecution(w) \/ Analyze(w)
  \/ PersistRead(w) \/ PersistCommit(w) \/ EnqueueAi(w) \/ MarkAiQueued(w)
  \/ FindRawLog(w) \/ DeleteRawLog(w) \/ MarkDeleted(w) \/ MarkDeletionFailed(w) \/ EnqueueDelete(w)
  \/ ReconcileExecution(w) \/ FinishExecution(w)
  \/ ReadForFailure(w) \/ WriteFailure(w) \/ FailExecution(w)
  \/ EndActivation(w)

MaintStep ==
  \/ SweepFind \/ SweepDelete \/ SweepMark
  \/ StartDeleteJob \/ DeleteJobDelete \/ DeleteJobMark
  \/ MaintMarkFailed

Next ==
  \/ \E w \in Workers : Activate(w) \/ HandlerStep(w) \/ Fault(w) \/ Crash(w)
  \/ Stall \/ LoseLock
  \/ MaintStep \/ MaintFault \/ MaintCrash
  \/ Expire
  \/ RecoverCheck \/ RecoverEnqueue
  \/ AiSide

Spec == Init /\ [][Next]_vars

(***************************************************************************)
(* Fairness: a running handler is never suspended for ever (an await ends  *)
(* or fails), BullMQ delivers a waiting job to a live worker and detects a *)
(* dead one, and the maintenance worker runs and is given a sweep every    *)
(* hour.  Nothing makes a fault, a crash, a lost lock, the end of the      *)
(* retention period, an operator or the AI side happen.                    *)
(***************************************************************************)
Fairness ==
  /\ \A w \in Workers : WF_vars(HandlerStep(w))
  /\ WF_vars(\E w \in Workers : Activate(w))
  /\ WF_vars(Stall)
  /\ WF_vars(MaintStep)

FairSpec == Spec /\ Fairness

-----------------------------------------------------------------------------
(* Properties.                                                             *)

\* md/35 section 10, "ObservationSet = at most 1": however often the job is
\* delivered and whoever else still runs, one result is recorded, and it is
\* billed (UsageEvent) exactly when it is recorded.
AtMostOneResult == observationSets <= 1 /\ usageEvents = observationSets

\* md/35 section 10, "the raw log is not deleted before the persist": a raw
\* log whose retention period has not passed is gone only once the outcome,
\* a result or a failure, is durable (analyzer-job-handler.ts:64-81, 240-251).
RawLogKeptUntilOutcome ==
  ~object => observationSets > 0 \/ status = "failed" \/ expired

\* An UploadedAccessLog row that says deleted or expired, which no cleanup
\* looks at again (findExpiredCandidates, handleRawLogDeleteJob), or whose
\* deletion is recorded as successful, never hides an object still stored.
DeletedRowMeansNoObject ==
  rawLog.status \in {"deleted", "expired"} \/ rawLog.deletion = "success" => ~object

\* Once there is a result no activation takes the Analysis back into
\* "analyzing", and nothing about AI exists before there is one.
ResultIsNotReanalyzed ==
  /\ observationSets > 0 => status \notin {"created", "uploaded", "analyzing"}
  /\ observationSets = 0 => ~aiJob /\ aiStatus = "not_requested"

\* AnalysisExecution is observability only, but it never claims a success
\* that was not persisted.
ExecutionSuccessMeansResult == exec = "success" => observationSets > 0

\* The handler must never fall through to persistAnalyzerFailure once an
\* ObservationSet exists (analyzer-job-handler.ts:155-157).
NoFailureAfterResult ==
  [][status # "failed" /\ status' = "failed" => observationSets = 0]_vars

\* An Analysis whose job was enqueued reaches an outcome, provided that the raw
\* log is not swept away first and that the attempts outnumber what goes wrong:
\* a file the Analyzer can not cope with uses them all up by itself.
Decided == observationSets > 0 \/ status = "failed"
FewFaults ==
  /\ crashes <= MaxStalledCount
  /\ faults + crashes < IF verdict = "error" THEN 1 ELSE Attempts
EnqueuedIsDecided == [](~expired /\ FewFaults) => (job.state # "absent" ~> Decided)

\* The retention safety net: in the end the object is gone and the row
\* says so, whichever of the deleting processes failed on the way.
RetentionIsHonoured ==
  [](expired => <>(~object /\ rawLog.status \in {"deleted", "expired"}))

\* The worker implements the lifecycle the pipeline promises: no step writes an
\* outcome without a read that allowed it, and none but a decided write leaves
\* "failed" (prisma-analysis-repository.ts:112-128, status-transition.ts:21).
Promise ==
  INSTANCE AnalysisLifecycle
    WITH hasResult <- observationSets > 0, stored <- object, failing <- Failing
ImplementsLifecycle == Promise!Spec

\* Once there is a result, an activation does nothing to the row but what
\* ExplanationLifecycle allows the two sides, lost locks or not: AiExplanation
\* counts on it where it takes AnalyzerStep for all the Analyzer may do.
KeepsExplanationLifecycle ==
  [][observationSets > 0 => [Explanation!Next]_(Explanation!vars)]_vars

=============================================================================
