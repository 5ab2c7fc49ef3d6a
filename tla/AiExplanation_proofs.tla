------------------------ MODULE AiExplanation_proofs ------------------------
(***************************************************************************)
(* The safety of the AI Explanation for any number of activations, retry   *)
(* requests, attempts, faults, crashes and lost locks.                     *)
(***************************************************************************)
EXTENDS AiExplanation, JobQueue_proofs, TLAPS

\* Only an activation whose persist committed says so in its execution row.
FinishInv ==
  \A w \in Workers : pc[w] \in {"execDone", "execReconcile"} => records > 0

\* Only one transaction is open, and it was opened before there was a record.
PersistInv ==
  \A w \in Workers :
    /\ pc[w] = "persistCommit" => records = 0
    /\ \A v \in Workers : pc[w] = "persistCommit" /\ pc[v] = "persistCommit" => v = w

\* A request that goes on read a row the Analyzer had not failed.
AnchorInv == \A r \in Callers : rpc[r] \notin {"start", "end"} => anchor[r] # "failed"

\* A caller records "queued" only once there is a job, and the job that a
\* caller or an activation works on stays.
PresentInv ==
  /\ \A r \in Callers : rpc[r] = "markQueued" => job.state # "absent"
  /\ \A r \in Callers : rpc[r] \in {"readStatus", "finalizeRead", "finalizeWrite", "retryJob"}
                          => jobSeen[r] \in {"completed", "failed"} /\ job.state # "absent"
  /\ \A w \in Workers : pc[w] # "idle" => job.state # "absent"
  /\ holder # NoWorker => job.state # "absent"

IInv ==
  /\ FinishInv
  /\ PersistInv
  /\ AnchorInv
  /\ PresentInv
  /\ AtMostOneExplanation
  /\ ColumnsAgree
  /\ QueuedHasJob
  /\ ExecutionSuccessMeansRecord

\* While no lock is lost, the only activation that runs is the lock's holder,
\* and the job it runs is active.
OwnerInv ==
  \A w \in Workers : pc[w] # "idle" => holder = w /\ job.state = "active"

\* It has looked for a record and found none, until it persists one itself.
LookedUpPc == {"readStatus", "claim", "reread", "execFind", "execCreate", "execRun",
               "provider", "persistRead", "persistCommit"}

LookupInv == \A w \in Workers : pc[w] \in LookedUpPc => records = 0

ExclusiveInv == lostLocks = 0 => OwnerInv /\ LookupInv

-----------------------------------------------------------------------------
(* Type correctness.                                                       *)

USE WorkersAssumption, AttemptsAssumption

\* The initial states are well typed.
LEMMA InitTypeOK == Init => TypeOK
<1> SUFFICES ASSUME Init PROVE TypeOK  OBVIOUS
<1>1. rpc \in [Callers -> CallerPc]  BY DEF Init, CallerPc
<1>2. failing \in BOOLEAN  BY Zenon DEF Init
<1>3. QED
  BY <1>1, <1>2, NoJobIsJob
     DEF Init, TypeOK, Explainable, AIStatus, ExecutionStatus, HandlerPc, JobState

\* Every step keeps the types.
LEMMA NextTypeOK == TypeOK /\ [Next]_vars => TypeOK'
<1> SUFFICES ASSUME TypeOK, [Next]_vars PROVE TypeOK'  OBVIOUS
<1> USE DEF TypeOK, Explainable, AIStatus, ExecutionStatus, HandlerPc, CallerPc,
            workerVars, analyzerVars, callerVars, boundVars, outerVars, handlerVars,
            At, Goto, Because, CallerAt, Proceed
<1>1. ASSUME NEW w \in Workers, Activate(w) PROVE TypeOK'
  <2>1. job' \in Job  BY <1>1, JobClosed DEF Activate
  <2>2. attempt' \in [Workers -> Nat]
    <3>1. job.started + 1 \in Nat  BY DEF Job
    <3>2. QED  BY <1>1, <3>1 DEF Activate
  <2>3. QED  BY <1>1, <2>1, <2>2 DEF Activate
<1>2. ASSUME NEW w \in Workers, LookupRecord(w) PROVE TypeOK'
  BY <1>2 DEF LookupRecord
<1>3. ASSUME NEW w \in Workers, ReadStatus(w) PROVE TypeOK'
  BY <1>3 DEF ReadStatus, MayTakeOver
<1>4. ASSUME NEW w \in Workers, Claim(w) PROVE TypeOK'
  BY <1>4 DEF Claim
<1>5. ASSUME NEW w \in Workers, Reread(w) PROVE TypeOK'
  BY <1>5 DEF Reread
<1>6. ASSUME NEW w \in Workers, FindExecution(w) PROVE TypeOK'
  BY <1>6 DEF FindExecution
<1>7. ASSUME NEW w \in Workers, CreateExecution(w) PROVE TypeOK'
  BY <1>7 DEF CreateExecution, ThrowRetryable
<1>8. ASSUME NEW w \in Workers, RunExecution(w) PROVE TypeOK'
  BY <1>8 DEF RunExecution
<1>9. ASSUME NEW w \in Workers, CallProvider(w) PROVE TypeOK'
  BY <1>9 DEF CallProvider, ThrowRetryable, ThrowFatal
<1>10. ASSUME NEW w \in Workers, PersistRead(w) PROVE TypeOK'
  BY <1>10 DEF PersistRead, RecordConflict, ThrowRetryable, ThrowFatal
<1>11. ASSUME NEW w \in Workers, ReconcileExecution(w) PROVE TypeOK'
  BY <1>11 DEF ReconcileExecution
<1>12. ASSUME NEW w \in Workers, FinishExecution(w) PROVE TypeOK'
  BY <1>12 DEF FinishExecution
<1>13. ASSUME NEW w \in Workers, ReadForFailure(w) PROVE TypeOK'
  BY <1>13 DEF ReadForFailure, FailureNotPersisted, ThrowRetryable
<1>14. ASSUME NEW w \in Workers, FailExecution(w) PROVE TypeOK'
  BY <1>14 DEF FailExecution, AfterFailurePersisted
<1>15. ASSUME NEW w \in Workers, EndActivation(w) PROVE TypeOK'
  <2>1. Completed(job) \in Job  BY JobClosed, TRUE \in BOOLEAN
  <2>2. FailedAttempt(job, Attempts, At(w, "throwFatal")) \in Job
    <3>1. At(w, "throwFatal") \in BOOLEAN  BY Zenon DEF At
    <3>2. QED  BY <3>1, JobClosed
  <2>3. job' \in Job  BY <1>15, <2>1, <2>2 DEF EndActivation, Forget
  <2>4. QED  BY <1>15, <2>3 DEF EndActivation, Forget
<1>16. ASSUME NEW w \in Workers, Fault(w) PROVE TypeOK'
  BY <1>16 DEF Fault, ThrowRetryable, ThrowFatal, FailureNotPersisted, AfterFailurePersisted,
     InTryBlock
<1>17. ASSUME NEW w \in Workers, Crash(w) PROVE TypeOK'
  BY <1>17 DEF Crash, Forget
<1>18. ASSUME Stall PROVE TypeOK'
  BY <1>18, JobClosed DEF Stall
<1>19. ASSUME LoseLock PROVE TypeOK'
  <2>1. job' \in Job  BY <1>19, JobClosed DEF LoseLock
  <2>2. QED  BY <1>19, <2>1 DEF LoseLock
<1>20. ASSUME NEW r \in Callers, StartRequest(r) PROVE TypeOK'
  BY <1>20 DEF StartRequest
<1>21. ASSUME NEW r \in Callers, CheckRecord(r) PROVE TypeOK'
  BY <1>21 DEF CheckRecord
<1>22. ASSUME NEW r \in Callers, FindJob(r) PROVE TypeOK'
  <2>1. job.state \in JobState  BY DEF Job
  <2>2. jobSeen' \in [Callers -> JobState]  BY <1>22, <2>1 DEF FindJob
  <2>3. rpc' \in [Callers -> CallerPc]  BY <1>22, <2>1 DEF FindJob, IsOver, Finished, JobState
  <2>4. QED  BY <1>22, <2>2, <2>3 DEF FindJob
<1>23. ASSUME NEW r \in Callers, CheckRunning(r) PROVE TypeOK'
  BY <1>23 DEF CheckRunning
<1>24. ASSUME NEW r \in Callers, FinalizeRead(r) PROVE TypeOK'
  BY <1>24 DEF FinalizeRead
<1>25. ASSUME NEW r \in Callers, RetryJob(r) PROVE TypeOK'
  BY <1>25, JobClosed DEF RetryJob
<1>26. ASSUME NEW r \in Callers, Enqueue(r) PROVE TypeOK'
  BY <1>26, JobClosed DEF Enqueue
<1>27. ASSUME NEW r \in Callers, MarkQueued(r) PROVE TypeOK'
  BY <1>27 DEF MarkQueued
<1>28. ASSUME NEW r \in Callers, CallerFault(r) PROVE TypeOK'
  BY <1>28 DEF CallerFault, AfterCallerFault
<1>29. CASE UNCHANGED vars
  BY <1>29 DEF vars
<1>30. ASSUME NEW w \in Workers, PersistCommit(w) PROVE TypeOK'
  BY <1>30 DEF PersistCommit
<1>31. ASSUME NEW w \in Workers, WriteFailure(w) PROVE TypeOK'
  BY <1>31 DEF WriteFailure, RecordAiFailure
<1>32. ASSUME NEW r \in Callers, FinalizeWrite(r) PROVE TypeOK'
  BY <1>32 DEF FinalizeWrite, RecordAiFailure
<1>33. ASSUME AnalyzerSide PROVE TypeOK'
  BY <1>33 DEF AnalyzerSide, Explanation!AnalyzerStep, Explanation!DecideFailure,
     Explanation!Fail, Explanation!GiveUpFailure
<1>34. QED
  BY <1>1, <1>2, <1>3, <1>4, <1>5, <1>6, <1>7, <1>8, <1>9, <1>10, <1>11, <1>12, <1>13, <1>14,
     <1>15, <1>16, <1>17, <1>18, <1>19, <1>20, <1>21, <1>22, <1>23, <1>24, <1>25, <1>26, <1>27,
     <1>28, <1>29, <1>30, <1>31, <1>32, <1>33 DEF Next, HandlerStep, CallerStep

\* Every variable keeps its type.
THEOREM TypeCorrect == Spec => []TypeOK
  BY InitTypeOK, NextTypeOK, PTL DEF Spec

-----------------------------------------------------------------------------
(* The inductive invariant.                                                *)

\* The initial states satisfy the inductive invariant.
LEMMA InitIInv == Init => IInv
  BY DEF Init, IInv, FinishInv, PersistInv, AnchorInv, PresentInv, AtMostOneExplanation, ColumnsAgree,
         QueuedHasJob, ExecutionSuccessMeansRecord, NoJob

\* Every step keeps the inductive invariant.
LEMMA NextIInv == TypeOK /\ IInv /\ [Next]_vars => IInv'
<1> SUFFICES ASSUME TypeOK, IInv, [Next]_vars PROVE IInv'  OBVIOUS
<1> USE DEF TypeOK, Explainable, AIStatus, ExecutionStatus, HandlerPc, CallerPc,
            workerVars, analyzerVars, callerVars, boundVars, outerVars, handlerVars,
            At, Goto, Because, CallerAt, Proceed,
            IInv, FinishInv, PersistInv, AnchorInv, PresentInv, AtMostOneExplanation, ColumnsAgree,
            QueuedHasJob, ExecutionSuccessMeansRecord
<1>1. ASSUME NEW w \in Workers, Activate(w) PROVE IInv'
  <2>1. job'.state = "active"  BY <1>1, JobStaysPresent, TRUE \in BOOLEAN DEF Activate
  <2>2. QED  BY <1>1, <2>1 DEF Activate
<1>2. ASSUME NEW w \in Workers, LookupRecord(w) PROVE IInv'
  BY <1>2 DEF LookupRecord
<1>3. ASSUME NEW w \in Workers, ReadStatus(w) PROVE IInv'
  BY <1>3 DEF ReadStatus, MayTakeOver
<1>4. ASSUME NEW w \in Workers, Claim(w) PROVE IInv'
  BY <1>4 DEF Claim
<1>5. ASSUME NEW w \in Workers, Reread(w) PROVE IInv'
  BY <1>5 DEF Reread
<1>6. ASSUME NEW w \in Workers, FindExecution(w) PROVE IInv'
  BY <1>6 DEF FindExecution
<1>7. ASSUME NEW w \in Workers, CreateExecution(w) PROVE IInv'
  BY <1>7 DEF CreateExecution, ThrowRetryable
<1>8. ASSUME NEW w \in Workers, RunExecution(w) PROVE IInv'
  BY <1>8 DEF RunExecution
<1>9. ASSUME NEW w \in Workers, CallProvider(w) PROVE IInv'
  BY <1>9 DEF CallProvider, ThrowRetryable, ThrowFatal
<1>10. ASSUME NEW w \in Workers, PersistRead(w) PROVE IInv'
  BY <1>10 DEF PersistRead, RecordConflict, ThrowRetryable, ThrowFatal
<1>11. ASSUME NEW w \in Workers, ReconcileExecution(w) PROVE IInv'
  BY <1>11 DEF ReconcileExecution
<1>12. ASSUME NEW w \in Workers, FinishExecution(w) PROVE IInv'
  BY <1>12 DEF FinishExecution
<1>13. ASSUME NEW w \in Workers, ReadForFailure(w) PROVE IInv'
  BY <1>13 DEF ReadForFailure, FailureNotPersisted, ThrowRetryable
<1>14. ASSUME NEW w \in Workers, FailExecution(w) PROVE IInv'
  BY <1>14 DEF FailExecution, AfterFailurePersisted
<1>15. ASSUME NEW w \in Workers, EndActivation(w) PROVE IInv'
  <2>1. Completed(job).state # "absent"  BY JobStaysPresent, TRUE \in BOOLEAN
  <2>2. FailedAttempt(job, Attempts, At(w, "throwFatal")).state # "absent"
    <3>1. At(w, "throwFatal") \in BOOLEAN  BY Zenon DEF At
    <3>2. QED  BY <3>1, JobStaysPresent
  <2>3. job'.state = job.state \/ job'.state # "absent"
    BY <1>15, <2>1, <2>2 DEF EndActivation, Forget
  <2>4. QED  BY <1>15, <2>3 DEF EndActivation, Forget
<1>16. ASSUME NEW w \in Workers, Fault(w) PROVE IInv'
  BY <1>16 DEF Fault, ThrowRetryable, ThrowFatal, FailureNotPersisted, AfterFailurePersisted,
     InTryBlock
<1>17. ASSUME NEW w \in Workers, Crash(w) PROVE IInv'
  BY <1>17 DEF Crash, Forget
<1>18. ASSUME Stall PROVE IInv'
  BY <1>18, JobStaysPresent DEF Stall
<1>19. ASSUME LoseLock PROVE IInv'
  BY <1>19, JobStaysPresent DEF LoseLock
<1>20. ASSUME NEW r \in Callers, StartRequest(r) PROVE IInv'
  BY <1>20 DEF StartRequest
<1>21. ASSUME NEW r \in Callers, CheckRecord(r) PROVE IInv'
  BY <1>21 DEF CheckRecord
<1>22. ASSUME NEW r \in Callers, FindJob(r) PROVE IInv'
  <2>1. job.state \in JobState  BY DEF Job
  <2>2. rpc'[r] \in {"markQueued", "readStatus"} => job.state # "absent"
    BY <1>22, <2>1 DEF FindJob, IsOver, Finished, JobState
  <2>3. rpc'[r] = "readStatus" => jobSeen'[r] \in {"completed", "failed"}
    BY <1>22, <2>1 DEF FindJob, IsOver, Finished, JobState
  <2>4. rpc'[r] \in {"enqueue", "readStatus", "markQueued", "end"}
    BY <1>22, <2>1 DEF FindJob, IsOver, Finished, JobState
  <2>5. \A q \in Callers : q # r => rpc'[q] = rpc[q] /\ jobSeen'[q] = jobSeen[q]
    BY <1>22 DEF FindJob
  <2>6. rpc[r] = "findJob" /\ UNCHANGED <<status, aiStatus, records, job, anchor, handlerVars>>
    BY <1>22 DEF FindJob
  <2>7. QED  BY <2>2, <2>3, <2>4, <2>5, <2>6
<1>23. ASSUME NEW r \in Callers, CheckRunning(r) PROVE IInv'
  BY <1>23 DEF CheckRunning
<1>24. ASSUME NEW r \in Callers, FinalizeRead(r) PROVE IInv'
  BY <1>24 DEF FinalizeRead
<1>25. ASSUME NEW r \in Callers, RetryJob(r) PROVE IInv'
  <2>1. job'.state # "absent"
    <3>1. Retried(job).state = "waiting"  BY JobStaysPresent, TRUE \in BOOLEAN
    <3>2. QED  BY <1>25, <3>1 DEF RetryJob
  <2>2. QED  BY <1>25, <2>1 DEF RetryJob
<1>26. ASSUME NEW r \in Callers, Enqueue(r) PROVE IInv'
  <2>1. job'.state # "absent" /\ (job.state # "absent" => job' = job)
    BY <1>26, TRUE \in BOOLEAN DEF Enqueue, Added, Job
  <2>2. QED  BY <1>26, <2>1 DEF Enqueue
<1>27. ASSUME NEW r \in Callers, MarkQueued(r) PROVE IInv'
  BY <1>27 DEF MarkQueued
<1>28. ASSUME NEW r \in Callers, CallerFault(r) PROVE IInv'
  BY <1>28 DEF CallerFault, AfterCallerFault
<1>29. CASE UNCHANGED vars
  BY <1>29 DEF vars
<1>30. ASSUME NEW w \in Workers, PersistCommit(w) PROVE IInv'
  BY <1>30 DEF PersistCommit
<1>31. ASSUME NEW w \in Workers, WriteFailure(w) PROVE IInv'
  BY <1>31 DEF WriteFailure, RecordAiFailure
<1>32. ASSUME NEW r \in Callers, FinalizeWrite(r) PROVE IInv'
  BY <1>32 DEF FinalizeWrite, RecordAiFailure
<1>33. ASSUME AnalyzerSide PROVE IInv'
  BY <1>33 DEF AnalyzerSide, Explanation!AnalyzerStep, Explanation!DecideFailure,
     Explanation!Fail, Explanation!GiveUpFailure
<1>34. QED
  BY <1>1, <1>2, <1>3, <1>4, <1>5, <1>6, <1>7, <1>8, <1>9, <1>10, <1>11, <1>12, <1>13, <1>14,
     <1>15, <1>16, <1>17, <1>18, <1>19, <1>20, <1>21, <1>22, <1>23, <1>24, <1>25, <1>26, <1>27,
     <1>28, <1>29, <1>30, <1>31, <1>32, <1>33 DEF Next, HandlerStep, CallerStep

\* IInv holds in every state, for every value of the constants.
THEOREM Safety == Spec => []IInv
  BY InitTypeOK, NextTypeOK, InitIInv, NextIInv, PTL DEF Spec

\* One explanation at most, and "success" is never shown without it.
THEOREM ExplainedOnce == Spec => []AtMostOneExplanation
<1>1. IInv => AtMostOneExplanation  BY DEF IInv
<1>2. QED  BY <1>1, Safety, PTL

\* aiStatus and status agree, whoever wrote them last.
THEOREM StatusesAgree == Spec => []ColumnsAgree
<1>1. IInv => ColumnsAgree  BY DEF IInv
<1>2. QED  BY <1>1, Safety, PTL

\* "queued" is shown only for a job that exists.
THEOREM QueuedIsReal == Spec => []QueuedHasJob
<1>1. IInv => QueuedHasJob  BY DEF IInv
<1>2. QED  BY <1>1, Safety, PTL

\* The execution row claims no success that was not persisted.
THEOREM ExecutionTruthful == Spec => []ExecutionSuccessMeansRecord
<1>1. IInv => ExecutionSuccessMeansRecord  BY DEF IInv
<1>2. QED  BY <1>1, Safety, PTL

-----------------------------------------------------------------------------
(* No call to the provider after a record, as long as no lock is lost.     *)

\* The initial states satisfy the second invariant.
LEMMA InitExclusiveInv == Init => ExclusiveInv
  BY DEF Init, ExclusiveInv, OwnerInv, LookupInv, LookedUpPc

\* Every step keeps it: once a lock is lost it claims nothing.
LEMMA NextExclusiveInv == TypeOK /\ IInv /\ ExclusiveInv /\ [Next]_vars => ExclusiveInv'
<1> SUFFICES ASSUME TypeOK, IInv, ExclusiveInv, [Next]_vars PROVE ExclusiveInv'  OBVIOUS
<1> USE DEF TypeOK, Explainable, AIStatus, ExecutionStatus, HandlerPc, CallerPc,
            workerVars, analyzerVars, callerVars, boundVars, outerVars, handlerVars,
            At, Goto, Because, CallerAt, Proceed,
            ExclusiveInv, OwnerInv, LookupInv, LookedUpPc
<1>1. ASSUME NEW w \in Workers, Activate(w) PROVE ExclusiveInv'
  <2>1. job'.state = "active"  BY <1>1, JobStaysPresent, TRUE \in BOOLEAN DEF Activate
  <2>2. lostLocks = 0 => \A v \in Workers : pc[v] = "idle"  BY <1>1 DEF Activate
  <2>3. QED  BY <1>1, <2>1, <2>2 DEF Activate
<1>2. ASSUME NEW w \in Workers, LookupRecord(w) PROVE ExclusiveInv'
  BY <1>2 DEF LookupRecord
<1>3. ASSUME NEW w \in Workers, ReadStatus(w) PROVE ExclusiveInv'
  BY <1>3 DEF ReadStatus, MayTakeOver
<1>4. ASSUME NEW w \in Workers, Claim(w) PROVE ExclusiveInv'
  BY <1>4 DEF Claim
<1>5. ASSUME NEW w \in Workers, Reread(w) PROVE ExclusiveInv'
  BY <1>5 DEF Reread
<1>6. ASSUME NEW w \in Workers, FindExecution(w) PROVE ExclusiveInv'
  BY <1>6 DEF FindExecution
<1>7. ASSUME NEW w \in Workers, CreateExecution(w) PROVE ExclusiveInv'
  BY <1>7 DEF CreateExecution, ThrowRetryable
<1>8. ASSUME NEW w \in Workers, RunExecution(w) PROVE ExclusiveInv'
  BY <1>8 DEF RunExecution
<1>9. ASSUME NEW w \in Workers, CallProvider(w) PROVE ExclusiveInv'
  BY <1>9 DEF CallProvider, ThrowRetryable, ThrowFatal
<1>10. ASSUME NEW w \in Workers, PersistRead(w) PROVE ExclusiveInv'
  BY <1>10 DEF PersistRead, RecordConflict, ThrowRetryable, ThrowFatal
<1>11. ASSUME NEW w \in Workers, ReconcileExecution(w) PROVE ExclusiveInv'
  BY <1>11 DEF ReconcileExecution
<1>12. ASSUME NEW w \in Workers, FinishExecution(w) PROVE ExclusiveInv'
  BY <1>12 DEF FinishExecution
<1>13. ASSUME NEW w \in Workers, ReadForFailure(w) PROVE ExclusiveInv'
  BY <1>13 DEF ReadForFailure, FailureNotPersisted, ThrowRetryable
<1>14. ASSUME NEW w \in Workers, FailExecution(w) PROVE ExclusiveInv'
  BY <1>14 DEF FailExecution, AfterFailurePersisted
<1>15. ASSUME NEW w \in Workers, EndActivation(w) PROVE ExclusiveInv'
  BY <1>15, JobStaysPresent DEF EndActivation, Forget
<1>16. ASSUME NEW w \in Workers, Fault(w) PROVE ExclusiveInv'
  BY <1>16 DEF Fault, ThrowRetryable, ThrowFatal, FailureNotPersisted, AfterFailurePersisted,
     InTryBlock
<1>17. ASSUME NEW w \in Workers, Crash(w) PROVE ExclusiveInv'
  BY <1>17 DEF Crash, Forget
<1>18. ASSUME Stall PROVE ExclusiveInv'
  BY <1>18, JobStaysPresent DEF Stall
<1>19. ASSUME LoseLock PROVE ExclusiveInv'
  BY <1>19 DEF LoseLock
<1>20. ASSUME NEW r \in Callers, StartRequest(r) PROVE ExclusiveInv'
  BY <1>20 DEF StartRequest
<1>21. ASSUME NEW r \in Callers, CheckRecord(r) PROVE ExclusiveInv'
  BY <1>21 DEF CheckRecord
<1>22. ASSUME NEW r \in Callers, FindJob(r) PROVE ExclusiveInv'
  BY <1>22 DEF FindJob, IsOver, Finished
<1>23. ASSUME NEW r \in Callers, CheckRunning(r) PROVE ExclusiveInv'
  BY <1>23 DEF CheckRunning
<1>24. ASSUME NEW r \in Callers, FinalizeRead(r) PROVE ExclusiveInv'
  BY <1>24 DEF FinalizeRead
<1>25. ASSUME NEW r \in Callers, RetryJob(r) PROVE ExclusiveInv'
  BY <1>25 DEF RetryJob, IInv, PresentInv
<1>26. ASSUME NEW r \in Callers, Enqueue(r) PROVE ExclusiveInv'
  <2>1. job.state # "absent" => job' = job
    BY <1>26, TRUE \in BOOLEAN DEF Enqueue, Added, Job
  <2>2. QED  BY <1>26, <2>1 DEF Enqueue
<1>27. ASSUME NEW r \in Callers, MarkQueued(r) PROVE ExclusiveInv'
  BY <1>27 DEF MarkQueued
<1>28. ASSUME NEW r \in Callers, CallerFault(r) PROVE ExclusiveInv'
  BY <1>28 DEF CallerFault, AfterCallerFault
<1>29. CASE UNCHANGED vars
  BY <1>29 DEF vars
<1>30. ASSUME NEW w \in Workers, PersistCommit(w) PROVE ExclusiveInv'
  BY <1>30 DEF PersistCommit
<1>31. ASSUME NEW w \in Workers, WriteFailure(w) PROVE ExclusiveInv'
  BY <1>31 DEF WriteFailure, RecordAiFailure
<1>32. ASSUME NEW r \in Callers, FinalizeWrite(r) PROVE ExclusiveInv'
  BY <1>32 DEF FinalizeWrite, RecordAiFailure
<1>33. ASSUME AnalyzerSide PROVE ExclusiveInv'
  BY <1>33 DEF AnalyzerSide
<1>34. QED
  BY <1>1, <1>2, <1>3, <1>4, <1>5, <1>6, <1>7, <1>8, <1>9, <1>10, <1>11, <1>12, <1>13, <1>14,
     <1>15, <1>16, <1>17, <1>18, <1>19, <1>20, <1>21, <1>22, <1>23, <1>24, <1>25, <1>26, <1>27,
     <1>28, <1>29, <1>30, <1>31, <1>32, <1>33 DEF Next, HandlerStep, CallerStep

\* Until a lock is lost nobody pays for a second explanation, whatever crashes,
\* faults, redeliveries and retry requests there are.
THEOREM NoSecondCall == Spec => []NoCallAfterRecord
<1>1. ExclusiveInv => NoCallAfterRecord
  BY DEF ExclusiveInv, LookupInv, LookedUpPc, NoCallAfterRecord, At
<1>2. Spec => []ExclusiveInv
  BY InitTypeOK, NextTypeOK, InitIInv, NextIInv, InitExclusiveInv, NextExclusiveInv, PTL DEF Spec
<1>3. QED  BY <1>1, <1>2, PTL

-----------------------------------------------------------------------------
(* The row as the rest of the system sees it.                              *)

\* What an activation is about to claim is not being explained yet.
ClaimInv ==
  \A w \in Workers : pc[w] = "claim" => read[w] \in {"analyzer_result_ready", "completed"}

\* Initially nobody claims.
LEMMA InitClaimInv == Init => ClaimInv
  BY DEF Init, ClaimInv

\* Only ReadStatus leads to a claim, and the claim is of what it read.
LEMMA NextClaimInv == TypeOK /\ ClaimInv /\ [Next]_vars => ClaimInv'
<1> SUFFICES ASSUME TypeOK, ClaimInv, [Next]_vars PROVE ClaimInv'  OBVIOUS
<1> USE DEF TypeOK, ClaimInv, workerVars, analyzerVars, callerVars, boundVars, outerVars, handlerVars,
            At, Goto, Because
<1>1. ASSUME NEW w \in Workers, Activate(w) PROVE ClaimInv'
  BY <1>1 DEF Activate
<1>2. ASSUME NEW w \in Workers, LookupRecord(w) PROVE ClaimInv'
  BY <1>2 DEF LookupRecord
<1>3. ASSUME NEW w \in Workers, ReadStatus(w) PROVE ClaimInv'
  BY <1>3 DEF ReadStatus, MayTakeOver
<1>4. ASSUME NEW w \in Workers, Claim(w) PROVE ClaimInv'
  BY <1>4 DEF Claim
<1>5. ASSUME NEW w \in Workers, Reread(w) PROVE ClaimInv'
  BY <1>5 DEF Reread
<1>6. ASSUME NEW w \in Workers, FindExecution(w) PROVE ClaimInv'
  BY <1>6 DEF FindExecution
<1>7. ASSUME NEW w \in Workers, CreateExecution(w) PROVE ClaimInv'
  BY <1>7 DEF CreateExecution, ThrowRetryable
<1>8. ASSUME NEW w \in Workers, RunExecution(w) PROVE ClaimInv'
  BY <1>8 DEF RunExecution
<1>9. ASSUME NEW w \in Workers, CallProvider(w) PROVE ClaimInv'
  BY <1>9 DEF CallProvider, ThrowRetryable, ThrowFatal
<1>10. ASSUME NEW w \in Workers, PersistRead(w) PROVE ClaimInv'
  BY <1>10 DEF PersistRead, RecordConflict, ThrowRetryable, ThrowFatal
<1>11. ASSUME NEW w \in Workers, ReconcileExecution(w) PROVE ClaimInv'
  BY <1>11 DEF ReconcileExecution
<1>12. ASSUME NEW w \in Workers, FinishExecution(w) PROVE ClaimInv'
  BY <1>12 DEF FinishExecution
<1>13. ASSUME NEW w \in Workers, ReadForFailure(w) PROVE ClaimInv'
  BY <1>13 DEF ReadForFailure, FailureNotPersisted, ThrowRetryable
<1>14. ASSUME NEW w \in Workers, FailExecution(w) PROVE ClaimInv'
  BY <1>14 DEF FailExecution, AfterFailurePersisted
<1>15. ASSUME NEW w \in Workers, EndActivation(w) PROVE ClaimInv'
  BY <1>15 DEF EndActivation, Forget
<1>16. ASSUME NEW w \in Workers, Fault(w) PROVE ClaimInv'
  BY <1>16 DEF Fault, ThrowRetryable, ThrowFatal, FailureNotPersisted, AfterFailurePersisted,
     InTryBlock
<1>17. ASSUME NEW w \in Workers, Crash(w) PROVE ClaimInv'
  BY <1>17 DEF Crash, Forget
<1>18. ASSUME Stall PROVE ClaimInv'
  BY <1>18 DEF Stall
<1>19. ASSUME LoseLock PROVE ClaimInv'
  BY <1>19 DEF LoseLock
<1>20. ASSUME NEW r \in Callers, StartRequest(r) PROVE ClaimInv'
  BY <1>20 DEF StartRequest
<1>21. ASSUME NEW r \in Callers, CheckRecord(r) PROVE ClaimInv'
  BY <1>21 DEF CheckRecord
<1>22. ASSUME NEW r \in Callers, FindJob(r) PROVE ClaimInv'
  BY <1>22 DEF FindJob
<1>23. ASSUME NEW r \in Callers, CheckRunning(r) PROVE ClaimInv'
  BY <1>23 DEF CheckRunning
<1>24. ASSUME NEW r \in Callers, FinalizeRead(r) PROVE ClaimInv'
  BY <1>24 DEF FinalizeRead
<1>25. ASSUME NEW r \in Callers, RetryJob(r) PROVE ClaimInv'
  BY <1>25 DEF RetryJob
<1>26. ASSUME NEW r \in Callers, Enqueue(r) PROVE ClaimInv'
  BY <1>26 DEF Enqueue
<1>27. ASSUME NEW r \in Callers, MarkQueued(r) PROVE ClaimInv'
  BY <1>27 DEF MarkQueued
<1>28. ASSUME NEW r \in Callers, CallerFault(r) PROVE ClaimInv'
  BY <1>28 DEF CallerFault
<1>29. CASE UNCHANGED vars
  BY <1>29 DEF vars
<1>30. ASSUME NEW w \in Workers, PersistCommit(w) PROVE ClaimInv'
  BY <1>30 DEF PersistCommit
<1>31. ASSUME NEW w \in Workers, WriteFailure(w) PROVE ClaimInv'
  BY <1>31 DEF WriteFailure
<1>32. ASSUME NEW r \in Callers, FinalizeWrite(r) PROVE ClaimInv'
  BY <1>32 DEF FinalizeWrite
<1>33. ASSUME AnalyzerSide PROVE ClaimInv'
  BY <1>33 DEF AnalyzerSide
<1>34. QED
  BY <1>1, <1>2, <1>3, <1>4, <1>5, <1>6, <1>7, <1>8, <1>9, <1>10, <1>11, <1>12, <1>13,
     <1>14, <1>15, <1>16, <1>17, <1>18, <1>19, <1>20, <1>21, <1>22, <1>23, <1>24,
     <1>25, <1>26, <1>27, <1>28, <1>29, <1>30, <1>31, <1>32, <1>33 DEF Next, HandlerStep, CallerStep

EndPc == {"persistCommit", "failWrite"}

\* An activation that is not about to write an outcome before or after its step
\* changes nothing about whether one is under way.
LEMMA EndingKeptByWorker ==
  ASSUME TypeOK, NEW w \in Workers, NEW label \in HandlerPc \ EndPc,
         pc' = [pc EXCEPT ![w] = label], pc[w] \notin EndPc, UNCHANGED rpc
  PROVE  Ending' = Ending
  BY DEF Ending, EndPc, CallerAt, TypeOK

\* Nor does such a caller.
LEMMA EndingKeptByCaller ==
  ASSUME TypeOK, NEW r \in Callers, NEW label \in CallerPc \ {"finalizeWrite"},
         rpc' = [rpc EXCEPT ![r] = label], rpc[r] # "finalizeWrite", UNCHANGED pc
  PROVE  Ending' = Ending
  BY DEF Ending, CallerAt, TypeOK

\* A step of an activation that does not lead there starts nothing.
LEMMA EndingFallsByWorker ==
  ASSUME TypeOK, NEW w \in Workers, NEW label \in HandlerPc \ EndPc,
         pc' = [pc EXCEPT ![w] = label], UNCHANGED rpc
  PROVE  Ending' = Ending \/ Ending' = FALSE
  <1>1. Ending' => Ending  BY DEF Ending, EndPc, CallerAt, TypeOK
  <1>2. Ending \in BOOLEAN /\ Ending' \in BOOLEAN  BY DEF Ending
  <1>3. QED  BY <1>1, <1>2

\* The same for a caller.
LEMMA EndingFallsByCaller ==
  ASSUME TypeOK, NEW r \in Callers, NEW label \in CallerPc \ {"finalizeWrite"},
         rpc' = [rpc EXCEPT ![r] = label], UNCHANGED pc
  PROVE  Ending' = Ending \/ Ending' = FALSE
  <1>1. Ending' => Ending  BY DEF Ending, CallerAt, TypeOK
  <1>2. Ending \in BOOLEAN /\ Ending' \in BOOLEAN  BY DEF Ending
  <1>3. QED  BY <1>1, <1>2

\* Every step is one the row may take, or leaves it alone.
LEMMA NextExplanation ==
  TypeOK /\ IInv /\ ClaimInv /\ [Next]_vars => [Explanation!Next]_(Explanation!vars)
<1> SUFFICES ASSUME TypeOK, IInv, ClaimInv, [Next]_vars PROVE [Explanation!Next]_(Explanation!vars)
  OBVIOUS
<1> USE DEF workerVars, analyzerVars, callerVars, boundVars, outerVars, handlerVars,
            At, Goto, Because, CallerAt, Proceed, Ending, HandlerPc, CallerPc, TypeOK,
            Explainable, Explanation!Explainable, Explanation!vars
<1>0. job \in Job /\ job.state \in JobState
  BY DEF TypeOK, Job
<1>1. ASSUME NEW w \in Workers, Activate(w) PROVE [Explanation!Next]_(Explanation!vars)
  <2>1. Activated(job).state = "active"  BY <1>0, JobStaysPresent, TRUE \in BOOLEAN
  <2>2. QED  BY <1>1, <2>1 DEF Activate
<1>2. ASSUME NEW w \in Workers, LookupRecord(w) PROVE [Explanation!Next]_(Explanation!vars)
  BY <1>2 DEF LookupRecord
<1>3. ASSUME NEW w \in Workers, ReadStatus(w) PROVE [Explanation!Next]_(Explanation!vars)
  BY <1>3 DEF ReadStatus, MayTakeOver
<1>4. ASSUME NEW w \in Workers, Claim(w) PROVE [Explanation!Next]_(Explanation!vars)
  <2>1. job.state # "absent" /\ read[w] \in {"analyzer_result_ready", "completed"}
    BY <1>4 DEF Claim, IInv, PresentInv, ClaimInv
  <2>2. CASE status = read[w]
    BY <1>4, <2>1, <2>2 DEF Claim, Explanation!Next, Explanation!AiStep, Explanation!Claim
  <2>3. CASE status # read[w]
    BY <1>4, <2>3 DEF Claim
  <2>4. QED  BY <2>2, <2>3
<1>5. ASSUME NEW w \in Workers, Reread(w) PROVE [Explanation!Next]_(Explanation!vars)
  BY <1>5 DEF Reread
<1>6. ASSUME NEW w \in Workers, FindExecution(w) PROVE [Explanation!Next]_(Explanation!vars)
  BY <1>6 DEF FindExecution
<1>7. ASSUME NEW w \in Workers, CreateExecution(w) PROVE [Explanation!Next]_(Explanation!vars)
  BY <1>7 DEF CreateExecution, ThrowRetryable
<1>8. ASSUME NEW w \in Workers, RunExecution(w) PROVE [Explanation!Next]_(Explanation!vars)
  BY <1>8 DEF RunExecution
<1>9. ASSUME NEW w \in Workers, CallProvider(w) PROVE [Explanation!Next]_(Explanation!vars)
  BY <1>9 DEF CallProvider, ThrowRetryable, ThrowFatal
<1>10. ASSUME NEW w \in Workers, PersistRead(w) PROVE [Explanation!Next]_(Explanation!vars)
  <2>1. UNCHANGED <<status, aiStatus, analyzerStatus, failing, job, rpc>> /\ job.state # "absent"
    BY <1>10 DEF PersistRead, IInv, PresentInv
  <2>2. CASE CanTransition(status, "completed") /\ pc' = [pc EXCEPT ![w] = "persistCommit"]
    <3>1. Ending' = TRUE  BY <2>2
    <3>2. QED
      BY <2>1, <2>2, <3>1 DEF Explanation!Next, Explanation!AiStep, Explanation!DecideEnd,
         CanTransition, AllowedTransitions,
         Explanation!CanTransition, Explanation!AllowedTransitions
  <2>3. ASSUME NEW label \in {"failRead", "throwRetry"}, pc' = [pc EXCEPT ![w] = label]
        PROVE  Ending' = Ending
    BY <1>10, <2>1, <2>3, EndingKeptByWorker DEF PersistRead, EndPc
  <2>4. QED
    BY <1>10, <2>1, <2>2, <2>3 DEF PersistRead, RecordConflict, ThrowRetryable, ThrowFatal
<1>11. ASSUME NEW w \in Workers, ReconcileExecution(w) PROVE [Explanation!Next]_(Explanation!vars)
  BY <1>11 DEF ReconcileExecution
<1>12. ASSUME NEW w \in Workers, FinishExecution(w) PROVE [Explanation!Next]_(Explanation!vars)
  BY <1>12 DEF FinishExecution
<1>13. ASSUME NEW w \in Workers, ReadForFailure(w) PROVE [Explanation!Next]_(Explanation!vars)
  <2>1. UNCHANGED <<status, aiStatus, analyzerStatus, failing, job, rpc>> /\ job.state # "absent"
    BY <1>13 DEF ReadForFailure, IInv, PresentInv
  <2>2. CASE CanTransition(status, "completed") /\ pc' = [pc EXCEPT ![w] = "failWrite"]
    <3>1. Ending' = TRUE  BY <2>2
    <3>2. QED
      BY <2>1, <2>2, <3>1 DEF Explanation!Next, Explanation!AiStep, Explanation!DecideEnd,
         CanTransition, AllowedTransitions,
         Explanation!CanTransition, Explanation!AllowedTransitions
  <2>3. ASSUME NEW label \in {"failRead", "throwRetry"}, pc' = [pc EXCEPT ![w] = label]
        PROVE  Ending' = Ending
    BY <1>13, <2>1, <2>3, EndingKeptByWorker DEF ReadForFailure, EndPc
  <2>4. QED
    BY <1>13, <2>1, <2>2, <2>3 DEF ReadForFailure, FailureNotPersisted, ThrowRetryable
<1>14. ASSUME NEW w \in Workers, FailExecution(w) PROVE [Explanation!Next]_(Explanation!vars)
  BY <1>14 DEF FailExecution, AfterFailurePersisted
<1>15. ASSUME NEW w \in Workers, EndActivation(w) PROVE [Explanation!Next]_(Explanation!vars)
  <2>1. Completed(job).state # "absent"  BY <1>0, JobStaysPresent, TRUE \in BOOLEAN
  <2>2. FailedAttempt(job, Attempts, At(w, "throwFatal")).state # "absent"
    <3>1. At(w, "throwFatal") \in BOOLEAN  BY Zenon DEF At
    <3>2. QED  BY <1>0, <3>1, JobStaysPresent
  <2>3. job.state # "absent"
    BY <1>15 DEF EndActivation, IInv, PresentInv
  <2>4. QED  BY <1>15, <2>1, <2>2, <2>3 DEF EndActivation, Forget
<1>16. ASSUME NEW w \in Workers, Fault(w) PROVE [Explanation!Next]_(Explanation!vars)
  <2>1. UNCHANGED <<status, aiStatus, analyzerStatus, failing, job, rpc>>  BY <1>16 DEF Fault
  <2>2. PICK label \in HandlerPc \ EndPc : pc' = [pc EXCEPT ![w] = label]
    BY <1>16 DEF Fault, ThrowRetryable, ThrowFatal, FailureNotPersisted, AfterFailurePersisted, EndPc
  <2>3. Ending' = Ending \/ Ending' = FALSE  BY <2>1, <2>2, EndingFallsByWorker
  <2>4. QED  BY <2>1, <2>3 DEF Explanation!Next, Explanation!AiStep, Explanation!GiveUpEnd
<1>17. ASSUME NEW w \in Workers, Crash(w) PROVE [Explanation!Next]_(Explanation!vars)
  <2>1. UNCHANGED <<status, aiStatus, analyzerStatus, failing, job, rpc>>  BY <1>17 DEF Crash
  <2>2. pc' = [pc EXCEPT ![w] = "idle"]  BY <1>17 DEF Crash
  <2>3. Ending' = Ending \/ Ending' = FALSE  BY <2>1, <2>2, EndingFallsByWorker DEF EndPc
  <2>4. QED  BY <2>1, <2>3 DEF Explanation!Next, Explanation!AiStep, Explanation!GiveUpEnd
<1>18. ASSUME Stall PROVE [Explanation!Next]_(Explanation!vars)
  BY <1>18, <1>0, JobStaysPresent DEF Stall
<1>19. ASSUME LoseLock PROVE [Explanation!Next]_(Explanation!vars)
  BY <1>19, <1>0, JobStaysPresent DEF LoseLock
<1>20. ASSUME NEW r \in Callers, StartRequest(r) PROVE [Explanation!Next]_(Explanation!vars)
  BY <1>20 DEF StartRequest
<1>21. ASSUME NEW r \in Callers, CheckRecord(r) PROVE [Explanation!Next]_(Explanation!vars)
  BY <1>21 DEF CheckRecord
<1>22. ASSUME NEW r \in Callers, FindJob(r) PROVE [Explanation!Next]_(Explanation!vars)
  BY <1>22 DEF FindJob
<1>23. ASSUME NEW r \in Callers, CheckRunning(r) PROVE [Explanation!Next]_(Explanation!vars)
  BY <1>23 DEF CheckRunning
<1>24. ASSUME NEW r \in Callers, FinalizeRead(r) PROVE [Explanation!Next]_(Explanation!vars)
  <2>1. UNCHANGED <<status, aiStatus, analyzerStatus, failing, job, pc>> /\ job.state # "absent"
    BY <1>24 DEF FinalizeRead, IInv, PresentInv
  <2>2. CASE CanTransition(status, "completed")
    <3>1. Ending' = TRUE  BY <1>24, <2>2 DEF FinalizeRead
    <3>2. QED
      BY <2>1, <2>2, <3>1 DEF Explanation!Next, Explanation!AiStep, Explanation!DecideEnd,
         CanTransition, AllowedTransitions,
         Explanation!CanTransition, Explanation!AllowedTransitions
  <2>3. CASE ~CanTransition(status, "completed")
    <3>1. Ending' = Ending  BY <1>24, <2>1, <2>3, EndingKeptByCaller DEF FinalizeRead
    <3>2. QED  BY <2>1, <3>1
  <2>4. QED  BY <2>2, <2>3
<1>25. ASSUME NEW r \in Callers, RetryJob(r) PROVE [Explanation!Next]_(Explanation!vars)
  <2>1. job.state # "absent"
    BY <1>25 DEF RetryJob, IInv, PresentInv
  <2>2. Retried(job).state = "waiting"  BY <1>0, JobStaysPresent, TRUE \in BOOLEAN
  <2>3. QED  BY <1>25, <2>1, <2>2 DEF RetryJob
<1>26. ASSUME NEW r \in Callers, Enqueue(r) PROVE [Explanation!Next]_(Explanation!vars)
  <2>1. /\ job.state = "absent" => job'.state = "waiting"
        /\ job.state # "absent" => job' = job
    BY <1>26, <1>0 DEF Enqueue, Added, Job
  <2>2. Ending' = Ending  BY <1>26, EndingKeptByCaller DEF Enqueue
  <2>3. UNCHANGED <<status, aiStatus, analyzerStatus, failing>>  BY <1>26 DEF Enqueue
  <2>4. QED
    BY <2>1, <2>2, <2>3 DEF Explanation!Next, Explanation!AiStep, Explanation!Schedule
<1>27. ASSUME NEW r \in Callers, MarkQueued(r) PROVE [Explanation!Next]_(Explanation!vars)
  <2>1. job.state # "absent" /\ (status = anchor[r] => status \in Explainable)
    BY <1>27 DEF MarkQueued, IInv, PresentInv, AnchorInv
  <2>2. Ending' = Ending  BY <1>27, EndingKeptByCaller DEF MarkQueued
  <2>3. QED
    BY <1>27, <2>1, <2>2 DEF MarkQueued, Explanation!Next, Explanation!AiStep, Explanation!Queue
<1>28. ASSUME NEW r \in Callers, CallerFault(r) PROVE [Explanation!Next]_(Explanation!vars)
  <2>1. UNCHANGED <<status, aiStatus, analyzerStatus, failing, job, pc>>  BY <1>28 DEF CallerFault
  <2>2. rpc' = [rpc EXCEPT ![r] = "end"]  BY <1>28 DEF CallerFault, AfterCallerFault
  <2>3. Ending' = Ending \/ Ending' = FALSE  BY <2>1, <2>2, EndingFallsByCaller
  <2>4. QED  BY <2>1, <2>3 DEF Explanation!Next, Explanation!AiStep, Explanation!GiveUpEnd
<1>29. CASE UNCHANGED vars
  BY <1>29 DEF vars
<1>30. ASSUME NEW w \in Workers, PersistCommit(w) PROVE [Explanation!Next]_(Explanation!vars)
  <2>1. Ending /\ Ending' \in BOOLEAN  BY <1>30 DEF PersistCommit
  <2>2. QED  BY <1>30, <2>1 DEF PersistCommit, Explanation!Next, Explanation!AiStep, Explanation!End
<1>31. ASSUME NEW w \in Workers, WriteFailure(w) PROVE [Explanation!Next]_(Explanation!vars)
  <2>1. Ending /\ Ending' \in BOOLEAN  BY <1>31 DEF WriteFailure
  <2>2. QED
    BY <1>31, <2>1 DEF WriteFailure, RecordAiFailure, Explanation!Next, Explanation!AiStep, Explanation!End
<1>32. ASSUME NEW r \in Callers, FinalizeWrite(r) PROVE [Explanation!Next]_(Explanation!vars)
  <2>1. Ending /\ Ending' \in BOOLEAN  BY <1>32 DEF FinalizeWrite
  <2>2. QED
    BY <1>32, <2>1 DEF FinalizeWrite, RecordAiFailure, Explanation!Next, Explanation!AiStep, Explanation!End
<1>33. ASSUME AnalyzerSide PROVE [Explanation!Next]_(Explanation!vars)
  BY <1>33 DEF AnalyzerSide, Explanation!Next
<1>34. QED
  BY <1>1, <1>2, <1>3, <1>4, <1>5, <1>6, <1>7, <1>8, <1>9, <1>10, <1>11, <1>12, <1>13,
     <1>14, <1>15, <1>16, <1>17, <1>18, <1>19, <1>20, <1>21, <1>22, <1>23, <1>24,
     <1>25, <1>26, <1>27, <1>28, <1>29, <1>30, <1>31, <1>32, <1>33 DEF Next, HandlerStep, CallerStep

\* However many activations, retry requests, lost locks, faults and crashes there
\* are, the row takes the steps AnalyzerWorker counts on, and no other.
THEOREM Implements == Spec => ImplementsExplanationLifecycle
<1>1. Init => Explanation!Init
  <2>1. Init => Ending = FALSE  BY DEF Init, Ending, CallerAt
  <2>2. QED  BY <2>1 DEF Init, NoJob, Explanation!Init
<1>2. QED
  BY <1>1, InitTypeOK, NextTypeOK, InitIInv, NextIInv, InitClaimInv, NextClaimInv, NextExplanation,
     PTL DEF Spec, ImplementsExplanationLifecycle, Explanation!Spec

=============================================================================
