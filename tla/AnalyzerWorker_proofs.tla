----------------------- MODULE AnalyzerWorker_proofs -----------------------
(***************************************************************************)
(* The safety of the Analyzer worker for any number of activations,        *)
(* attempts, faults, crashes, lost locks and recoveries.                   *)
(*                                                                         *)
(* The invariants of AnalyzerWorker are not inductive: they say nothing of *)
(* an activation that is between two awaits.  IInv adds what each place in *)
(* the handler, and each reason for being there, says about the rows.      *)
(***************************************************************************)
EXTENDS AnalyzerWorker, JobQueue_proofs, TLAPS

\* The outcome of the Analysis is durable.
Outcome == observationSets > 0 \/ status = "failed"

RawPc == {"rawFind", "rawDelete", "rawMark", "rawMarkFailed", "rawEnqueue"}

\* Only a result that can be persisted gets to the transaction.
VerdictInv ==
  \A w \in Workers :
    pc[w] \in {"persistRead", "persistCommit"} => verdict \in {"success", "partial"}

\* Only one transaction is open, and it was opened before there was a result.
PersistInv ==
  \A w \in Workers :
    /\ pc[w] = "persistCommit" => observationSets = 0
    /\ \A v \in Workers : pc[w] = "persistCommit" /\ pc[v] = "persistCommit" => v = w

\* An activation that cleans up after a result, or on account of one, is right
\* that there is one; the raw log is touched only after the outcome, and an
\* explanation is marked only after it was enqueued.
CleanupInv ==
  \A w \in Workers :
    /\ why[w] \in {"done", "recovered"} => observationSets > 0
    /\ pc[w] \in {"aiEnqueue", "aiMark", "execDone", "execReconcile"} => observationSets > 0
    /\ pc[w] \in RawPc \cup {"execFailed"} => Outcome
    /\ pc[w] = "rawMark" => ~object
    /\ pc[w] = "aiMark" => aiJob

\* The same for the maintenance worker, whose sweep needs no outcome.
MaintInv ==
  /\ deleteJob.state # "absent" => Outcome
  /\ mpc \in {"jobDelete", "jobMark", "jobFailed"} => Outcome
  /\ mpc \in {"sweepDelete", "sweepMark", "sweepFailed"} => expired
  /\ mpc \in {"sweepMark", "jobMark"} => ~object

\* An analyzer status that is good comes from a result.
StatusInv == analyzerStatus \in {"success", "partial"} => observationSets > 0

IInv ==
  /\ PersistInv
  /\ CleanupInv
  /\ MaintInv
  /\ StatusInv
  /\ AtMostOneResult
  /\ RawLogKeptUntilOutcome
  /\ DeletedRowMeansNoObject
  /\ ResultIsNotReanalyzed
  /\ ExecutionSuccessMeansResult

-----------------------------------------------------------------------------
(* Type correctness.                                                       *)

TypeInv == TypeOK /\ VerdictInv

USE WorkersAssumption, AttemptsAssumption, VerdictsAssumption

\* The initial states are well typed.
LEMMA InitTypeInv == Init => TypeInv
<1> SUFFICES ASSUME Init PROVE TypeInv  OBVIOUS
<1>1. job \in Job /\ deleteJob \in Job
  BY NoJobIsJob, JobClosed, 0 \in Nat, TRUE \in BOOLEAN DEF Init
<1>2. QED
  BY <1>1 DEF Init, TypeInv, TypeOK, VerdictInv, AnalysisStatus, AnalyzerStatus, AIStatus,
              ExecutionStatus, RawLogRow, HandlerPc, Why, MaintPc

\* Every step keeps the types, and lets only a persistable result through.
LEMMA NextTypeInv == TypeInv /\ [Next]_vars => TypeInv'
<1> SUFFICES ASSUME TypeInv, [Next]_vars PROVE TypeInv'  OBVIOUS
<1> USE DEF TypeInv, TypeOK, VerdictInv, AnalysisStatus, AnalyzerStatus, AIStatus,
            ExecutionStatus, RawLogRow, HandlerPc, Why, MaintPc,
            analysisVars, resultVars, rawVars, jobVars, localVars, aiVars, maintVars, boundVars,
            outerVars, handlerVars, At, Goto, Because, MaintGoto
<1>1. ASSUME NEW w \in Workers, Activate(w) PROVE TypeInv'
  <2>1. job' \in Job  BY <1>1, JobClosed DEF Activate
  <2>2. attempt' \in [Workers -> Nat]
    <3>1. job.started + 1 \in Nat  BY DEF Job
    <3>2. QED  BY <1>1, <3>1 DEF Activate
  <2>3. QED  BY <1>1, <2>1, <2>2 DEF Activate
<1>2. ASSUME NEW w \in Workers, LookupObservationSet(w) PROVE TypeInv'
  BY <1>2 DEF LookupObservationSet
<1>3. ASSUME NEW w \in Workers, ReadStatus(w) PROVE TypeInv'
  BY <1>3 DEF ReadStatus
<1>4. ASSUME NEW w \in Workers, Claim(w) PROVE TypeInv'
  BY <1>4 DEF Claim, ClaimWins
<1>5. ASSUME NEW w \in Workers, MarkProcessing(w) PROVE TypeInv'
  BY <1>5 DEF MarkProcessing
<1>6. ASSUME NEW w \in Workers, Reread(w) PROVE TypeInv'
  BY <1>6 DEF Reread
<1>7. ASSUME NEW w \in Workers, CheckRawLog(w) PROVE TypeInv'
  BY <1>7 DEF CheckRawLog
<1>8. ASSUME NEW w \in Workers, FindExecution(w) PROVE TypeInv'
  BY <1>8 DEF FindExecution
<1>9. ASSUME NEW w \in Workers, CreateExecution(w) PROVE TypeInv'
  BY <1>9 DEF CreateExecution, ThrowRetryable
<1>10. ASSUME NEW w \in Workers, RunExecution(w) PROVE TypeInv'
  BY <1>10 DEF RunExecution
<1>11. ASSUME NEW w \in Workers, Analyze(w) PROVE TypeInv'
  BY <1>11 DEF Analyze, FatalResult, ThrowRetryable, ThrowFatal
<1>12. ASSUME NEW w \in Workers, PersistRead(w) PROVE TypeInv'
  BY <1>12 DEF PersistRead, ResultConflict, ThrowRetryable, ThrowFatal
<1>13. ASSUME NEW w \in Workers, PersistCommit(w) PROVE TypeInv'
  BY <1>13 DEF PersistCommit
<1>14. ASSUME NEW w \in Workers, EnqueueAi(w) PROVE TypeInv'
  BY <1>14 DEF EnqueueAi
<1>15. ASSUME NEW w \in Workers, MarkAiQueued(w) PROVE TypeInv'
  BY <1>15 DEF MarkAiQueued
<1>16. ASSUME NEW w \in Workers, FindRawLog(w) PROVE TypeInv'
  BY <1>16 DEF FindRawLog, AfterReconcile
<1>17. ASSUME NEW w \in Workers, DeleteRawLog(w) PROVE TypeInv'
  <2>1. object' \in BOOLEAN  BY <1>17, Zenon DEF DeleteRawLog
  <2>2. QED  BY <1>17, <2>1 DEF DeleteRawLog
<1>18. ASSUME NEW w \in Workers, MarkDeleted(w) PROVE TypeInv'
  BY <1>18 DEF MarkDeleted, AfterReconcile
<1>19. ASSUME NEW w \in Workers, MarkDeletionFailed(w) PROVE TypeInv'
  BY <1>19 DEF MarkDeletionFailed
<1>20. ASSUME NEW w \in Workers, EnqueueDelete(w) PROVE TypeInv'
  BY <1>20, JobClosed DEF EnqueueDelete, AfterReconcile
<1>21. ASSUME NEW w \in Workers, ReconcileExecution(w) PROVE TypeInv'
  BY <1>21 DEF ReconcileExecution
<1>22. ASSUME NEW w \in Workers, FinishExecution(w) PROVE TypeInv'
  BY <1>22 DEF FinishExecution
<1>23. ASSUME NEW w \in Workers, ReadForFailure(w) PROVE TypeInv'
  BY <1>23 DEF ReadForFailure, FailureNotPersisted, ThrowRetryable
<1>24. ASSUME NEW w \in Workers, WriteFailure(w) PROVE TypeInv'
  BY <1>24 DEF WriteFailure
<1>25. ASSUME NEW w \in Workers, FailExecution(w) PROVE TypeInv'
  BY <1>25 DEF FailExecution, AfterFailurePersisted
<1>26. ASSUME NEW w \in Workers, EndActivation(w) PROVE TypeInv'
  <2>1. job' \in Job
    <3>1. Completed(job) \in Job  BY JobClosed, TRUE \in BOOLEAN
    <3>2. FailedAttempt(job, Attempts, At(w, "throwFatal")) \in Job
      <4>1. At(w, "throwFatal") \in BOOLEAN  BY Zenon DEF At
      <4>2. QED  BY <4>1, JobClosed
    <3>3. QED  BY <1>26, <3>1, <3>2 DEF EndActivation, Forget
  <2>2. QED  BY <1>26, <2>1 DEF EndActivation, Forget
<1>27. ASSUME NEW w \in Workers, Fault(w) PROVE TypeInv'
  BY <1>27 DEF Fault, ThrowRetryable, ThrowFatal, FailureNotPersisted, AfterReconcile,
     AfterFailurePersisted, InTryBlock, StorageReads
<1>28. ASSUME NEW w \in Workers, Crash(w) PROVE TypeInv'
  BY <1>28 DEF Crash, Forget
<1>29. ASSUME Stall PROVE TypeInv'
  BY <1>29, JobClosed DEF Stall
<1>30. ASSUME LoseLock PROVE TypeInv'
  BY <1>30, JobClosed DEF LoseLock
<1>31. ASSUME SweepFind PROVE TypeInv'
  BY <1>31 DEF SweepFind
<1>32. ASSUME SweepDelete PROVE TypeInv'
  <2>1. object' \in BOOLEAN  BY <1>32, Zenon DEF SweepDelete
  <2>2. QED  BY <1>32, <2>1 DEF SweepDelete
<1>33. ASSUME SweepMark PROVE TypeInv'
  BY <1>33 DEF SweepMark
<1>34. ASSUME StartDeleteJob PROVE TypeInv'
  BY <1>34, JobClosed DEF StartDeleteJob
<1>35. ASSUME DeleteJobDelete PROVE TypeInv'
  <2>1. object' \in BOOLEAN  BY <1>35, Zenon DEF DeleteJobDelete
  <2>2. QED  BY <1>35, <2>1 DEF DeleteJobDelete
<1>36. ASSUME DeleteJobMark PROVE TypeInv'
  BY <1>36, JobClosed DEF DeleteJobMark
<1>37. ASSUME MaintMarkFailed PROVE TypeInv'
  <2>1. deleteJob' \in Job  BY <1>37, JobClosed, FALSE \in BOOLEAN DEF MaintMarkFailed
  <2>2. rawLog' \in RawLogRow  BY <1>37 DEF MaintMarkFailed
  <2>3. mpc' \in MaintPc  BY <1>37 DEF MaintMarkFailed
  <2>4. UNCHANGED <<handlerVars, object, expired, verdict, boundVars>>
    BY <1>37 DEF MaintMarkFailed
  <2>5. QED  BY <2>1, <2>2, <2>3, <2>4
<1>38. ASSUME MaintFault PROVE TypeInv'
  <2>1. FailedAttempt(deleteJob, DeleteAttempts, FALSE) \in Job
    BY JobClosed, FALSE \in BOOLEAN
  <2>2. deleteJob' \in Job /\ mpc' \in MaintPc  BY <1>38, <2>1 DEF MaintFault
  <2>3. faults' \in Nat  BY <1>38 DEF MaintFault
  <2>4. UNCHANGED <<handlerVars, rawVars, crashes, lostLocks, recoveries>>
    BY <1>38 DEF MaintFault
  <2>5. QED  BY <2>2, <2>3, <2>4
<1>39. ASSUME MaintCrash PROVE TypeInv'
  BY <1>39, JobClosed DEF MaintCrash
<1>40. ASSUME Expire PROVE TypeInv'
  BY <1>40 DEF Expire
<1>41. ASSUME RecoverCheck PROVE TypeInv'
  BY <1>41 DEF RecoverCheck
<1>42. ASSUME RecoverEnqueue PROVE TypeInv'
  BY <1>42, JobClosed DEF RecoverEnqueue
<1>43. ASSUME AiSide PROVE TypeInv'
  <2>1. /\ status' \in AnalysisStatus /\ aiStatus' \in AIStatus
        /\ aiJob' \in BOOLEAN /\ ending' \in BOOLEAN /\ UNCHANGED analyzerStatus
    BY <1>43 DEF AiSide, Explanation!AiStep, Explanation!Schedule, Explanation!Claim,
         Explanation!DecideEnd, Explanation!End, Explanation!GiveUpEnd, Explanation!Queue
  <2>2. QED  BY <1>43, <2>1 DEF AiSide
<1>44. QED
  BY <1>1, <1>2, <1>3, <1>4, <1>5, <1>6, <1>7, <1>8, <1>9, <1>10, <1>11, <1>12, <1>13, <1>14,
     <1>15, <1>16, <1>17, <1>18, <1>19, <1>20, <1>21, <1>22, <1>23, <1>24, <1>25, <1>26, <1>27,
     <1>28, <1>29, <1>30, <1>31, <1>32, <1>33, <1>34, <1>35, <1>36, <1>37, <1>38, <1>39, <1>40,
     <1>41, <1>42, <1>43 DEF Next, HandlerStep, MaintStep, vars

\* Every variable keeps its type.
THEOREM TypeCorrect == Spec => []TypeOK
<1>1. Spec => []TypeInv  BY InitTypeInv, NextTypeInv, PTL DEF Spec
<1>2. TypeInv => TypeOK  BY DEF TypeInv
<1>3. QED  BY <1>1, <1>2, PTL

-----------------------------------------------------------------------------
(* The inductive invariant.                                                *)

\* The initial states satisfy the inductive invariant.
LEMMA InitIInv == Init => IInv
  BY DEF Init, IInv, PersistInv, CleanupInv, MaintInv, StatusInv, AtMostOneResult,
         RawLogKeptUntilOutcome, DeletedRowMeansNoObject, ResultIsNotReanalyzed,
         ExecutionSuccessMeansResult, Outcome, RawPc, NoJob

\* Every step keeps the inductive invariant.
LEMMA NextIInv == TypeInv /\ TypeInv' /\ IInv /\ [Next]_vars => IInv'
<1> SUFFICES ASSUME TypeInv, TypeInv', IInv, [Next]_vars PROVE IInv'  OBVIOUS
<1> USE DEF TypeInv, TypeOK, VerdictInv, HandlerPc, Why, MaintPc, RawLogRow,
            analysisVars, resultVars, rawVars, jobVars, localVars, aiVars, maintVars, boundVars,
            outerVars, handlerVars, At, Goto, Because, MaintGoto,
            IInv, PersistInv, CleanupInv, MaintInv, StatusInv, AtMostOneResult,
            RawLogKeptUntilOutcome, DeletedRowMeansNoObject, ResultIsNotReanalyzed,
            ExecutionSuccessMeansResult, Outcome, RawPc
<1>1. ASSUME NEW w \in Workers, Activate(w) PROVE IInv'
  BY <1>1 DEF Activate
<1>2. ASSUME NEW w \in Workers, LookupObservationSet(w) PROVE IInv'
  BY <1>2 DEF LookupObservationSet
<1>3. ASSUME NEW w \in Workers, ReadStatus(w) PROVE IInv'
  BY <1>3 DEF ReadStatus
<1>4. ASSUME NEW w \in Workers, Claim(w) PROVE IInv'
  BY <1>4 DEF Claim, ClaimWins
<1>5. ASSUME NEW w \in Workers, MarkProcessing(w) PROVE IInv'
  BY <1>5 DEF MarkProcessing
<1>6. ASSUME NEW w \in Workers, Reread(w) PROVE IInv'
  BY <1>6 DEF Reread
<1>7. ASSUME NEW w \in Workers, CheckRawLog(w) PROVE IInv'
  BY <1>7 DEF CheckRawLog
<1>8. ASSUME NEW w \in Workers, FindExecution(w) PROVE IInv'
  BY <1>8 DEF FindExecution
<1>9. ASSUME NEW w \in Workers, CreateExecution(w) PROVE IInv'
  BY <1>9 DEF CreateExecution, ThrowRetryable
<1>10. ASSUME NEW w \in Workers, RunExecution(w) PROVE IInv'
  BY <1>10 DEF RunExecution
<1>11. ASSUME NEW w \in Workers, Analyze(w) PROVE IInv'
  <2>1. CASE pc' = [pc EXCEPT ![w] = "persistRead"] /\ UNCHANGED why
    BY <1>11, <2>1 DEF Analyze, FatalResult, FatalResult
  <2>2. CASE ThrowFatal(w)
    BY <1>11, <2>2 DEF Analyze, FatalResult, ThrowFatal
  <2>3. CASE ThrowRetryable(w)
    BY <1>11, <2>3 DEF Analyze, FatalResult, ThrowRetryable
  <2>4. QED  BY <1>11, <2>1, <2>2, <2>3 DEF Analyze, FatalResult, FatalResult
<1>12. ASSUME NEW w \in Workers, PersistRead(w) PROVE IInv'
  BY <1>12 DEF PersistRead, ResultConflict, ThrowRetryable, ThrowFatal, CanTransition, AllowedTransitions
<1>13. ASSUME NEW w \in Workers, PersistCommit(w) PROVE IInv'
  BY <1>13 DEF PersistCommit
<1>14. ASSUME NEW w \in Workers, EnqueueAi(w) PROVE IInv'
  BY <1>14 DEF EnqueueAi
<1>15. ASSUME NEW w \in Workers, MarkAiQueued(w) PROVE IInv'
  BY <1>15 DEF MarkAiQueued
<1>16. ASSUME NEW w \in Workers, FindRawLog(w) PROVE IInv'
  BY <1>16 DEF FindRawLog, AfterReconcile
<1>17. ASSUME NEW w \in Workers, DeleteRawLog(w) PROVE IInv'
  BY <1>17 DEF DeleteRawLog
<1>18. ASSUME NEW w \in Workers, MarkDeleted(w) PROVE IInv'
  BY <1>18 DEF MarkDeleted, AfterReconcile
<1>19. ASSUME NEW w \in Workers, MarkDeletionFailed(w) PROVE IInv'
  BY <1>19 DEF MarkDeletionFailed
<1>20. ASSUME NEW w \in Workers, EnqueueDelete(w) PROVE IInv'
  BY <1>20, JobStaysPresent DEF EnqueueDelete, AfterReconcile
<1>21. ASSUME NEW w \in Workers, ReconcileExecution(w) PROVE IInv'
  BY <1>21 DEF ReconcileExecution
<1>22. ASSUME NEW w \in Workers, FinishExecution(w) PROVE IInv'
  BY <1>22 DEF FinishExecution
<1>23. ASSUME NEW w \in Workers, ReadForFailure(w) PROVE IInv'
  BY <1>23 DEF ReadForFailure, FailureNotPersisted, ThrowRetryable
<1>24. ASSUME NEW w \in Workers, WriteFailure(w) PROVE IInv'
  BY <1>24 DEF WriteFailure
<1>25. ASSUME NEW w \in Workers, FailExecution(w) PROVE IInv'
  BY <1>25 DEF FailExecution, AfterFailurePersisted
<1>26. ASSUME NEW w \in Workers, EndActivation(w) PROVE IInv'
  BY <1>26 DEF EndActivation, Forget
<1>27. ASSUME NEW w \in Workers, Fault(w) PROVE IInv'
  BY <1>27 DEF Fault, ThrowRetryable, ThrowFatal, FailureNotPersisted, AfterReconcile,
     AfterFailurePersisted, InTryBlock, StorageReads
<1>28. ASSUME NEW w \in Workers, Crash(w) PROVE IInv'
  BY <1>28 DEF Crash, Forget
<1>29. ASSUME Stall PROVE IInv'
  BY <1>29 DEF Stall
<1>30. ASSUME LoseLock PROVE IInv'
  BY <1>30 DEF LoseLock
<1>31. ASSUME SweepFind PROVE IInv'
  BY <1>31 DEF SweepFind
<1>32. ASSUME SweepDelete PROVE IInv'
  BY <1>32 DEF SweepDelete
<1>33. ASSUME SweepMark PROVE IInv'
  BY <1>33 DEF SweepMark
<1>34. ASSUME StartDeleteJob PROVE IInv'
  BY <1>34, JobStaysPresent DEF StartDeleteJob
<1>35. ASSUME DeleteJobDelete PROVE IInv'
  BY <1>35 DEF DeleteJobDelete
<1>36. ASSUME DeleteJobMark PROVE IInv'
  BY <1>36, JobStaysPresent DEF DeleteJobMark
<1>37. ASSUME MaintMarkFailed PROVE IInv'
  <2>1. FailedAttempt(deleteJob, DeleteAttempts, FALSE).state # "absent"
    BY JobStaysPresent, FALSE \in BOOLEAN
  <2>2. deleteJob'.state # "absent" => Outcome  BY <1>37, <2>1 DEF MaintMarkFailed
  <2>3. rawLog'.status = rawLog.status /\ rawLog'.deletion = "failed"
    BY <1>37 DEF MaintMarkFailed
  <2>4. mpc' = "idle"  BY <1>37 DEF MaintMarkFailed
  <2>5. UNCHANGED <<handlerVars, object, expired, verdict>>  BY <1>37 DEF MaintMarkFailed
  <2>6. QED  BY <2>2, <2>3, <2>4, <2>5
<1>38. ASSUME MaintFault PROVE IInv'
  <2>1. FailedAttempt(deleteJob, DeleteAttempts, FALSE).state # "absent"
    BY JobStaysPresent, FALSE \in BOOLEAN
  <2>2. deleteJob'.state # "absent" => Outcome  BY <1>38, <2>1 DEF MaintFault
  <2>3. mpc' \in {"sweepFailed"} => expired  BY <1>38 DEF MaintFault
  <2>4. mpc' \in {"jobFailed"} => Outcome  BY <1>38 DEF MaintFault
  <2>5. mpc' \in {"idle", "sweepFailed", "jobFailed"}  BY <1>38 DEF MaintFault
  <2>6. UNCHANGED <<handlerVars, rawVars>>  BY <1>38 DEF MaintFault
  <2>7. QED  BY <2>2, <2>3, <2>4, <2>5, <2>6
<1>39. ASSUME MaintCrash PROVE IInv'
  BY <1>39, JobStaysPresent DEF MaintCrash
<1>40. ASSUME Expire PROVE IInv'
  BY <1>40 DEF Expire
<1>41. ASSUME RecoverCheck PROVE IInv'
  BY <1>41 DEF RecoverCheck
<1>42. ASSUME RecoverEnqueue PROVE IInv'
  BY <1>42 DEF RecoverEnqueue
<1>43. ASSUME AiSide PROVE IInv'
  BY <1>43 DEF AiSide, Explanation!AiStep, Explanation!Schedule, Explanation!Claim,
         Explanation!DecideEnd, Explanation!End, Explanation!GiveUpEnd, Explanation!Queue,
         Explanation!Explainable
<1>44. CASE UNCHANGED vars
  BY <1>44 DEF vars
<1>45. QED
  BY <1>1, <1>2, <1>3, <1>4, <1>5, <1>6, <1>7, <1>8, <1>9, <1>10, <1>11, <1>12, <1>13, <1>14,
     <1>15, <1>16, <1>17, <1>18, <1>19, <1>20, <1>21, <1>22, <1>23, <1>24, <1>25, <1>26, <1>27,
     <1>28, <1>29, <1>30, <1>31, <1>32, <1>33, <1>34, <1>35, <1>36, <1>37, <1>38, <1>39, <1>40,
     <1>41, <1>42, <1>43, <1>44 DEF Next, HandlerStep, MaintStep

\* IInv holds in every state, for every value of the constants.
THEOREM Safety == Spec => []IInv
<1>1. Spec => []TypeInv  BY InitTypeInv, NextTypeInv, PTL DEF Spec
<1>2. QED  BY <1>1, InitIInv, NextIInv, PTL DEF Spec

\* At most one ObservationSet, and one UsageEvent for it, however many
\* activations run at once: what the unique key and the open transaction do.
THEOREM ResultRecordedOnce == Spec => []AtMostOneResult
<1>1. IInv => AtMostOneResult  BY DEF IInv
<1>2. QED  BY <1>1, Safety, PTL

\* No process deletes the raw log before the outcome is durable, unless its
\* retention period has passed.
THEOREM RawLogSafe == Spec => []RawLogKeptUntilOutcome
<1>1. IInv => RawLogKeptUntilOutcome  BY DEF IInv
<1>2. QED  BY <1>1, Safety, PTL

\* No object outlives the row that says it was deleted.
THEOREM NoHiddenObject == Spec => []DeletedRowMeansNoObject
<1>1. IInv => DeletedRowMeansNoObject  BY DEF IInv
<1>2. QED  BY <1>1, Safety, PTL

\* An Analysis with a result is never claimed again.
THEOREM ResultKept == Spec => []ResultIsNotReanalyzed
<1>1. IInv => ResultIsNotReanalyzed  BY DEF IInv
<1>2. QED  BY <1>1, Safety, PTL

\* The execution row claims no success that was not persisted.
THEOREM ExecutionTruthful == Spec => []ExecutionSuccessMeansResult
<1>1. IInv => ExecutionSuccessMeansResult  BY DEF IInv
<1>2. QED  BY <1>1, Safety, PTL

-----------------------------------------------------------------------------
(* While no lock is lost the worker implements the abstract lifecycle.  An  *)
(* activation that goes on without its lock breaks it (NoFailureAfterResult). *)

\* The only activation that runs is the lock's holder, so that nothing comes
\* between what a transaction has read and what it writes.
LockedInv ==
  /\ lostLocks = 0
  /\ \A w \in Workers : pc[w] # "idle" => holder = w /\ job.state = "active"
  /\ \A w \in Workers : pc[w] = "persistCommit" => status = "analyzing"
  /\ status \in {"analyzer_result_ready", "explaining", "completed"} => observationSets > 0

\* The initial states satisfy it.
LEMMA InitLockedInv == Init => LockedInv
  BY DEF Init, LockedInv

\* Every step keeps it.
LEMMA NextLockedInv == MaxLostLocks = 0 /\ TypeInv /\ IInv /\ LockedInv /\ [Next]_vars => LockedInv'
<1> SUFFICES ASSUME MaxLostLocks = 0, TypeInv, IInv, LockedInv, [Next]_vars PROVE LockedInv'  OBVIOUS
<1> USE DEF TypeInv, TypeOK, VerdictInv, HandlerPc, Why, MaintPc,
            analysisVars, resultVars, rawVars, jobVars, localVars, aiVars, maintVars, boundVars,
            outerVars, handlerVars, At, Goto, Because, MaintGoto, LockedInv
<1>1. ASSUME NEW w \in Workers, Activate(w) PROVE LockedInv'
  <2>1. job'.state = "active"  BY <1>1, JobStaysPresent DEF Activate
  <2>2. \A v \in Workers : pc[v] = "idle"  BY <1>1 DEF Activate
  <2>3. QED  BY <1>1, <2>1, <2>2 DEF Activate
<1>2. ASSUME NEW w \in Workers, LookupObservationSet(w) PROVE LockedInv'
  BY <1>2 DEF LookupObservationSet
<1>3. ASSUME NEW w \in Workers, ReadStatus(w) PROVE LockedInv'
  BY <1>3 DEF ReadStatus
<1>4. ASSUME NEW w \in Workers, Claim(w) PROVE LockedInv'
  BY <1>4 DEF Claim, ClaimWins
<1>5. ASSUME NEW w \in Workers, MarkProcessing(w) PROVE LockedInv'
  BY <1>5 DEF MarkProcessing
<1>6. ASSUME NEW w \in Workers, Reread(w) PROVE LockedInv'
  BY <1>6 DEF Reread
<1>7. ASSUME NEW w \in Workers, CheckRawLog(w) PROVE LockedInv'
  BY <1>7 DEF CheckRawLog
<1>8. ASSUME NEW w \in Workers, FindExecution(w) PROVE LockedInv'
  BY <1>8 DEF FindExecution
<1>9. ASSUME NEW w \in Workers, CreateExecution(w) PROVE LockedInv'
  BY <1>9 DEF CreateExecution, ThrowRetryable
<1>10. ASSUME NEW w \in Workers, RunExecution(w) PROVE LockedInv'
  BY <1>10 DEF RunExecution
<1>11. ASSUME NEW w \in Workers, Analyze(w) PROVE LockedInv'
  BY <1>11 DEF Analyze, FatalResult, ThrowRetryable, ThrowFatal
<1>12. ASSUME NEW w \in Workers, PersistRead(w) PROVE LockedInv'
  BY <1>12 DEF PersistRead, ResultConflict, ThrowRetryable, ThrowFatal, CanTransition, AllowedTransitions
<1>13. ASSUME NEW w \in Workers, PersistCommit(w) PROVE LockedInv'
  BY <1>13 DEF PersistCommit
<1>14. ASSUME NEW w \in Workers, EnqueueAi(w) PROVE LockedInv'
  BY <1>14 DEF EnqueueAi
<1>15. ASSUME NEW w \in Workers, MarkAiQueued(w) PROVE LockedInv'
  BY <1>15 DEF MarkAiQueued
<1>16. ASSUME NEW w \in Workers, FindRawLog(w) PROVE LockedInv'
  BY <1>16 DEF FindRawLog, AfterReconcile
<1>17. ASSUME NEW w \in Workers, DeleteRawLog(w) PROVE LockedInv'
  BY <1>17 DEF DeleteRawLog
<1>18. ASSUME NEW w \in Workers, MarkDeleted(w) PROVE LockedInv'
  BY <1>18 DEF MarkDeleted, AfterReconcile
<1>19. ASSUME NEW w \in Workers, MarkDeletionFailed(w) PROVE LockedInv'
  BY <1>19 DEF MarkDeletionFailed
<1>20. ASSUME NEW w \in Workers, EnqueueDelete(w) PROVE LockedInv'
  BY <1>20 DEF EnqueueDelete, AfterReconcile
<1>21. ASSUME NEW w \in Workers, ReconcileExecution(w) PROVE LockedInv'
  BY <1>21 DEF ReconcileExecution
<1>22. ASSUME NEW w \in Workers, FinishExecution(w) PROVE LockedInv'
  BY <1>22 DEF FinishExecution
<1>23. ASSUME NEW w \in Workers, ReadForFailure(w) PROVE LockedInv'
  BY <1>23 DEF ReadForFailure, FailureNotPersisted, ThrowRetryable
<1>24. ASSUME NEW w \in Workers, WriteFailure(w) PROVE LockedInv'
  BY <1>24 DEF WriteFailure
<1>25. ASSUME NEW w \in Workers, FailExecution(w) PROVE LockedInv'
  BY <1>25 DEF FailExecution, AfterFailurePersisted
<1>26. ASSUME NEW w \in Workers, EndActivation(w) PROVE LockedInv'
  BY <1>26 DEF EndActivation, Forget
<1>27. ASSUME NEW w \in Workers, Fault(w) PROVE LockedInv'
  BY <1>27 DEF Fault, ThrowRetryable, ThrowFatal, FailureNotPersisted, AfterReconcile,
     AfterFailurePersisted, InTryBlock, StorageReads
<1>28. ASSUME NEW w \in Workers, Crash(w) PROVE LockedInv'
  BY <1>28 DEF Crash, Forget
<1>29. ASSUME Stall PROVE LockedInv'
  BY <1>29 DEF Stall
<1>30. ASSUME LoseLock PROVE LockedInv'
  BY <1>30 DEF LoseLock
<1>31. ASSUME SweepFind PROVE LockedInv'
  BY <1>31 DEF SweepFind
<1>32. ASSUME SweepDelete PROVE LockedInv'
  BY <1>32 DEF SweepDelete
<1>33. ASSUME SweepMark PROVE LockedInv'
  BY <1>33 DEF SweepMark
<1>34. ASSUME StartDeleteJob PROVE LockedInv'
  BY <1>34 DEF StartDeleteJob
<1>35. ASSUME DeleteJobDelete PROVE LockedInv'
  BY <1>35 DEF DeleteJobDelete
<1>36. ASSUME DeleteJobMark PROVE LockedInv'
  BY <1>36 DEF DeleteJobMark
<1>37. ASSUME MaintMarkFailed PROVE LockedInv'
  BY <1>37 DEF MaintMarkFailed
<1>38. ASSUME MaintFault PROVE LockedInv'
  BY <1>38 DEF MaintFault
<1>39. ASSUME MaintCrash PROVE LockedInv'
  BY <1>39 DEF MaintCrash
<1>40. ASSUME Expire PROVE LockedInv'
  BY <1>40 DEF Expire
<1>41. ASSUME RecoverCheck PROVE LockedInv'
  BY <1>41 DEF RecoverCheck
<1>42. ASSUME RecoverEnqueue PROVE LockedInv'
  <2>1. job.state = "active" => job' = job  BY <1>42 DEF RecoverEnqueue, Added, Finished
  <2>2. QED  BY <1>42, <2>1 DEF RecoverEnqueue
<1>43. ASSUME AiSide PROVE LockedInv'
  BY <1>43 DEF AiSide, Explanation!AiStep, Explanation!Schedule, Explanation!Claim,
         Explanation!DecideEnd, Explanation!End, Explanation!GiveUpEnd, Explanation!Queue,
         Explanation!Explainable, IInv, PersistInv,
         ResultIsNotReanalyzed
<1>44. CASE UNCHANGED vars
  BY <1>44 DEF vars
<1>45. QED
  BY <1>1, <1>2, <1>3, <1>4, <1>5, <1>6, <1>7, <1>8, <1>9, <1>10, <1>11, <1>12, <1>13, <1>14,
     <1>15, <1>16, <1>17, <1>18, <1>19, <1>20, <1>21, <1>22, <1>23, <1>24, <1>25, <1>26, <1>27,
     <1>28, <1>29, <1>30, <1>31, <1>32, <1>33, <1>34, <1>35, <1>36, <1>37, <1>38, <1>39, <1>40,
     <1>41, <1>42, <1>43, <1>44 DEF Next, HandlerStep, MaintStep

\* An activation that neither gets to the write of a failure nor leaves it
\* changes nothing about whether one is under way.
LEMMA FailingKept ==
  ASSUME TypeInv, NEW w \in Workers, NEW label \in HandlerPc, pc' = [pc EXCEPT ![w] = label],
         pc[w] # "failWrite", label # "failWrite"
  PROVE  Failing' = Failing
  BY DEF Failing, At, TypeInv, TypeOK

\* An activation that goes anywhere else starts none.
LEMMA FailingFalls ==
  ASSUME TypeInv, NEW w \in Workers, NEW label \in HandlerPc, pc' = [pc EXCEPT ![w] = label],
         label # "failWrite"
  PROVE  Failing' = Failing \/ Failing' = FALSE
  <1>1. Failing' => Failing  BY DEF Failing, At, TypeInv, TypeOK
  <1>2. Failing \in BOOLEAN /\ Failing' \in BOOLEAN  BY DEF Failing
  <1>3. QED  BY <1>1, <1>2

\* Every step is a step of the lifecycle, or leaves it alone.
LEMMA NextLifecycle == TypeInv /\ IInv /\ LockedInv /\ [Next]_vars => [Promise!Next]_(Promise!vars)
<1> SUFFICES ASSUME TypeInv, IInv, LockedInv, [Next]_vars PROVE [Promise!Next]_(Promise!vars)  OBVIOUS
<1> USE DEF analysisVars, resultVars, rawVars, jobVars, localVars, aiVars, maintVars, boundVars,
            outerVars, handlerVars, At, Goto, Because, Failing, HandlerPc,
            TypeInv, TypeOK, Promise!vars
<1>1. ASSUME NEW w \in Workers, Activate(w) PROVE [Promise!Next]_(Promise!vars)
  BY <1>1 DEF Activate
<1>2. ASSUME NEW w \in Workers, LookupObservationSet(w) PROVE [Promise!Next]_(Promise!vars)
  BY <1>2 DEF LookupObservationSet
<1>3. ASSUME NEW w \in Workers, ReadStatus(w) PROVE [Promise!Next]_(Promise!vars)
  BY <1>3 DEF ReadStatus
<1>4. ASSUME NEW w \in Workers, Claim(w) PROVE [Promise!Next]_(Promise!vars)
  BY <1>4 DEF Claim, ClaimWins, Promise!Next, Promise!Start
<1>5. ASSUME NEW w \in Workers, MarkProcessing(w) PROVE [Promise!Next]_(Promise!vars)
  BY <1>5 DEF MarkProcessing
<1>6. ASSUME NEW w \in Workers, Reread(w) PROVE [Promise!Next]_(Promise!vars)
  BY <1>6 DEF Reread
<1>7. ASSUME NEW w \in Workers, CheckRawLog(w) PROVE [Promise!Next]_(Promise!vars)
  BY <1>7 DEF CheckRawLog
<1>8. ASSUME NEW w \in Workers, FindExecution(w) PROVE [Promise!Next]_(Promise!vars)
  BY <1>8 DEF FindExecution
<1>9. ASSUME NEW w \in Workers, CreateExecution(w) PROVE [Promise!Next]_(Promise!vars)
  BY <1>9 DEF CreateExecution, ThrowRetryable
<1>10. ASSUME NEW w \in Workers, RunExecution(w) PROVE [Promise!Next]_(Promise!vars)
  BY <1>10 DEF RunExecution
<1>11. ASSUME NEW w \in Workers, Analyze(w) PROVE [Promise!Next]_(Promise!vars)
  BY <1>11 DEF Analyze, FatalResult, ThrowRetryable, ThrowFatal
<1>12. ASSUME NEW w \in Workers, PersistRead(w) PROVE [Promise!Next]_(Promise!vars)
  BY <1>12 DEF PersistRead, ResultConflict, ThrowRetryable, ThrowFatal, CanTransition, AllowedTransitions
<1>13. ASSUME NEW w \in Workers, PersistCommit(w) PROVE [Promise!Next]_(Promise!vars)
  BY <1>13 DEF PersistCommit, IInv, PersistInv, LockedInv, Promise!Next, Promise!Produce
<1>14. ASSUME NEW w \in Workers, EnqueueAi(w) PROVE [Promise!Next]_(Promise!vars)
  BY <1>14 DEF EnqueueAi
<1>15. ASSUME NEW w \in Workers, MarkAiQueued(w) PROVE [Promise!Next]_(Promise!vars)
  BY <1>15 DEF MarkAiQueued
<1>16. ASSUME NEW w \in Workers, FindRawLog(w) PROVE [Promise!Next]_(Promise!vars)
  BY <1>16 DEF FindRawLog, AfterReconcile
<1>17. ASSUME NEW w \in Workers, DeleteRawLog(w) PROVE [Promise!Next]_(Promise!vars)
  BY <1>17 DEF DeleteRawLog, IInv, CleanupInv, RawPc, Outcome, TypeInv, TypeOK,
     Promise!Next, Promise!Drop
<1>18. ASSUME NEW w \in Workers, MarkDeleted(w) PROVE [Promise!Next]_(Promise!vars)
  BY <1>18 DEF MarkDeleted, AfterReconcile
<1>19. ASSUME NEW w \in Workers, MarkDeletionFailed(w) PROVE [Promise!Next]_(Promise!vars)
  BY <1>19 DEF MarkDeletionFailed
<1>20. ASSUME NEW w \in Workers, EnqueueDelete(w) PROVE [Promise!Next]_(Promise!vars)
  BY <1>20 DEF EnqueueDelete, AfterReconcile
<1>21. ASSUME NEW w \in Workers, ReconcileExecution(w) PROVE [Promise!Next]_(Promise!vars)
  BY <1>21 DEF ReconcileExecution
<1>22. ASSUME NEW w \in Workers, FinishExecution(w) PROVE [Promise!Next]_(Promise!vars)
  BY <1>22 DEF FinishExecution
<1>23. ASSUME NEW w \in Workers, ReadForFailure(w) PROVE [Promise!Next]_(Promise!vars)
  <2>1. UNCHANGED <<status, observationSets, object, expired, ending>>  BY <1>23 DEF ReadForFailure
  <2>2. CASE CanTransition(status, "failed") /\ pc' = [pc EXCEPT ![w] = "failWrite"]
    <3>1. Failing' = TRUE  BY <2>2
    <3>2. QED
      BY <2>1, <2>2, <3>1 DEF Promise!Next, Promise!Decide, CanTransition, AllowedTransitions,
         Promise!CanTransition, Promise!AllowedTransitions
  <2>3. ASSUME NEW label \in {"failRead", "throwRetry"}, pc' = [pc EXCEPT ![w] = label]
        PROVE  Failing' = Failing
    BY <1>23, <2>3, FailingKept DEF ReadForFailure
  <2>4. QED  BY <1>23, <2>1, <2>2, <2>3 DEF ReadForFailure, FailureNotPersisted, ThrowRetryable
<1>24. ASSUME NEW w \in Workers, WriteFailure(w) PROVE [Promise!Next]_(Promise!vars)
  BY <1>24 DEF WriteFailure, Promise!Next, Promise!Fail
<1>25. ASSUME NEW w \in Workers, FailExecution(w) PROVE [Promise!Next]_(Promise!vars)
  BY <1>25 DEF FailExecution, AfterFailurePersisted
<1>26. ASSUME NEW w \in Workers, EndActivation(w) PROVE [Promise!Next]_(Promise!vars)
  BY <1>26 DEF EndActivation, Forget
<1>27. ASSUME NEW w \in Workers, Fault(w) PROVE [Promise!Next]_(Promise!vars)
  <2>1. UNCHANGED <<status, observationSets, object, expired, ending>>  BY <1>27 DEF Fault
  <2>2. PICK label \in HandlerPc \ {"failWrite"} : pc' = [pc EXCEPT ![w] = label]
    BY <1>27 DEF Fault, ThrowRetryable, ThrowFatal, FailureNotPersisted, AfterReconcile,
       AfterFailurePersisted
  <2>3. Failing' = Failing \/ Failing' = FALSE  BY <2>2, FailingFalls
  <2>4. QED  BY <2>1, <2>3 DEF Promise!Next, Promise!GiveUp
<1>28. ASSUME NEW w \in Workers, Crash(w) PROVE [Promise!Next]_(Promise!vars)
  <2>1. UNCHANGED <<status, observationSets, object, expired, ending>>  BY <1>28 DEF Crash, Forget
  <2>2. pc' = [pc EXCEPT ![w] = "idle"]  BY <1>28 DEF Crash, Forget
  <2>3. Failing' = Failing \/ Failing' = FALSE  BY <2>2, FailingFalls
  <2>4. QED  BY <2>1, <2>3 DEF Promise!Next, Promise!GiveUp
<1>29. ASSUME Stall PROVE [Promise!Next]_(Promise!vars)
  BY <1>29 DEF Stall
<1>30. ASSUME LoseLock PROVE [Promise!Next]_(Promise!vars)
  BY <1>30 DEF LoseLock
<1>31. ASSUME SweepFind PROVE [Promise!Next]_(Promise!vars)
  BY <1>31 DEF SweepFind
<1>32. ASSUME SweepDelete PROVE [Promise!Next]_(Promise!vars)
  BY <1>32 DEF SweepDelete, IInv, MaintInv, Outcome, TypeInv, TypeOK,
     Promise!Next, Promise!Drop
<1>33. ASSUME SweepMark PROVE [Promise!Next]_(Promise!vars)
  BY <1>33 DEF SweepMark
<1>34. ASSUME StartDeleteJob PROVE [Promise!Next]_(Promise!vars)
  BY <1>34 DEF StartDeleteJob
<1>35. ASSUME DeleteJobDelete PROVE [Promise!Next]_(Promise!vars)
  BY <1>35 DEF DeleteJobDelete, IInv, MaintInv, Outcome, TypeInv, TypeOK,
     Promise!Next, Promise!Drop
<1>36. ASSUME DeleteJobMark PROVE [Promise!Next]_(Promise!vars)
  BY <1>36 DEF DeleteJobMark
<1>37. ASSUME MaintMarkFailed PROVE [Promise!Next]_(Promise!vars)
  BY <1>37 DEF MaintMarkFailed
<1>38. ASSUME MaintFault PROVE [Promise!Next]_(Promise!vars)
  BY <1>38 DEF MaintFault
<1>39. ASSUME MaintCrash PROVE [Promise!Next]_(Promise!vars)
  BY <1>39 DEF MaintCrash
<1>40. ASSUME Expire PROVE [Promise!Next]_(Promise!vars)
  BY <1>40 DEF Expire, Promise!Next, Promise!Expire
<1>41. ASSUME RecoverCheck PROVE [Promise!Next]_(Promise!vars)
  BY <1>41 DEF RecoverCheck
<1>42. ASSUME RecoverEnqueue PROVE [Promise!Next]_(Promise!vars)
  BY <1>42 DEF RecoverEnqueue
<1>43. ASSUME AiSide PROVE [Promise!Next]_(Promise!vars)
  <2>1. UNCHANGED <<observationSets, object, expired, pc>> /\ observationSets > 0
    BY <1>43 DEF AiSide
  <2>2. CASE Explanation!Schedule
    BY <2>1, <2>2 DEF Explanation!Schedule
  <2>3. CASE Explanation!Claim
    BY <2>1, <2>3 DEF Explanation!Claim, Promise!Next, Promise!Explain
  <2>4. CASE Explanation!DecideEnd
    BY <2>1, <2>4 DEF Explanation!DecideEnd, Promise!Next, Promise!Decide,
         Explanation!CanTransition, Explanation!AllowedTransitions,
         Promise!CanTransition, Promise!AllowedTransitions
  <2>5. CASE Explanation!End
    BY <2>1, <2>5 DEF Explanation!End, Promise!Next, Promise!End
  <2>6. CASE Explanation!GiveUpEnd
    BY <2>1, <2>6 DEF Explanation!GiveUpEnd, Promise!Next, Promise!GiveUp
  <2>7. CASE Explanation!Queue
    BY <2>1, <2>7 DEF Explanation!Queue
  <2>8. QED  BY <1>43, <2>2, <2>3, <2>4, <2>5, <2>6, <2>7 DEF AiSide, Explanation!AiStep
<1>44. CASE UNCHANGED vars
  BY <1>44 DEF vars
<1>45. QED
  BY <1>1, <1>2, <1>3, <1>4, <1>5, <1>6, <1>7, <1>8, <1>9, <1>10, <1>11, <1>12, <1>13, <1>14,
     <1>15, <1>16, <1>17, <1>18, <1>19, <1>20, <1>21, <1>22, <1>23, <1>24, <1>25, <1>26, <1>27,
     <1>28, <1>29, <1>30, <1>31, <1>32, <1>33, <1>34, <1>35, <1>36, <1>37, <1>38, <1>39, <1>40,
     <1>41, <1>42, <1>43, <1>44 DEF Next, HandlerStep, MaintStep

\* Whatever crashes, stalls, faults, redeliveries and operators do, the Analysis
\* goes through the lifecycle the pipeline promises.
THEOREM Implements == MaxLostLocks = 0 /\ Spec => ImplementsLifecycle
<1>1. Init => Promise!Init
  <2>1. Init => Failing = FALSE  BY DEF Init, Failing, At
  <2>2. QED  BY <2>1 DEF Init, Promise!Init
<1>2. ASSUME MaxLostLocks = 0 PROVE Spec => ImplementsLifecycle
  <2>1. TypeInv /\ IInv /\ LockedInv /\ [Next]_vars => LockedInv'
    BY <1>2, NextLockedInv
  <2>2. QED
    BY <1>1, <2>1, InitTypeInv, NextTypeInv, InitIInv, NextIInv, InitLockedInv, NextLifecycle, PTL
       DEF Spec, ImplementsLifecycle, Promise!Spec
<1>3. QED  BY <1>2

-----------------------------------------------------------------------------
(* What the activations do to the row of an Analysis that has a result, as  *)
(* AiExplanation assumes it, with and without lost locks.                   *)

\* Every step after the result is a step of ExplanationLifecycle.
LEMMA NextKeeps ==
  TypeInv /\ IInv /\ observationSets > 0 /\ [Next]_vars => [Explanation!Next]_(Explanation!vars)
<1> SUFFICES ASSUME TypeInv, IInv, observationSets > 0, [Next]_vars PROVE [Explanation!Next]_(Explanation!vars)  OBVIOUS
<1> USE DEF analysisVars, resultVars, rawVars, jobVars, localVars, aiVars, maintVars, boundVars,
            outerVars, handlerVars, At, Goto, Because, Failing, HandlerPc,
            TypeInv, TypeOK, Explanation!vars
<1>1. ASSUME NEW w \in Workers, Activate(w) PROVE [Explanation!Next]_(Explanation!vars)
  BY <1>1 DEF Activate
<1>2. ASSUME NEW w \in Workers, LookupObservationSet(w) PROVE [Explanation!Next]_(Explanation!vars)
  BY <1>2 DEF LookupObservationSet
<1>3. ASSUME NEW w \in Workers, ReadStatus(w) PROVE [Explanation!Next]_(Explanation!vars)
  BY <1>3 DEF ReadStatus
<1>4. ASSUME NEW w \in Workers, Claim(w) PROVE [Explanation!Next]_(Explanation!vars)
  BY <1>4 DEF Claim, ClaimWins, IInv, ResultIsNotReanalyzed
<1>5. ASSUME NEW w \in Workers, MarkProcessing(w) PROVE [Explanation!Next]_(Explanation!vars)
  BY <1>5 DEF MarkProcessing
<1>6. ASSUME NEW w \in Workers, Reread(w) PROVE [Explanation!Next]_(Explanation!vars)
  BY <1>6 DEF Reread
<1>7. ASSUME NEW w \in Workers, CheckRawLog(w) PROVE [Explanation!Next]_(Explanation!vars)
  BY <1>7 DEF CheckRawLog
<1>8. ASSUME NEW w \in Workers, FindExecution(w) PROVE [Explanation!Next]_(Explanation!vars)
  BY <1>8 DEF FindExecution
<1>9. ASSUME NEW w \in Workers, CreateExecution(w) PROVE [Explanation!Next]_(Explanation!vars)
  BY <1>9 DEF CreateExecution, ThrowRetryable
<1>10. ASSUME NEW w \in Workers, RunExecution(w) PROVE [Explanation!Next]_(Explanation!vars)
  BY <1>10 DEF RunExecution
<1>11. ASSUME NEW w \in Workers, Analyze(w) PROVE [Explanation!Next]_(Explanation!vars)
  BY <1>11 DEF Analyze, FatalResult, ThrowRetryable, ThrowFatal
<1>12. ASSUME NEW w \in Workers, PersistRead(w) PROVE [Explanation!Next]_(Explanation!vars)
  BY <1>12 DEF PersistRead, ResultConflict, ThrowRetryable, ThrowFatal, CanTransition, AllowedTransitions
<1>13. ASSUME NEW w \in Workers, PersistCommit(w) PROVE [Explanation!Next]_(Explanation!vars)
  BY <1>13 DEF PersistCommit, IInv, PersistInv
<1>14. ASSUME NEW w \in Workers, EnqueueAi(w) PROVE [Explanation!Next]_(Explanation!vars)
  <2>1. Failing' = Failing  BY <1>14, FailingKept DEF EnqueueAi
  <2>2. QED
    BY <1>14, <2>1 DEF EnqueueAi, Explanation!Next, Explanation!AiStep, Explanation!Schedule
<1>15. ASSUME NEW w \in Workers, MarkAiQueued(w) PROVE [Explanation!Next]_(Explanation!vars)
  <2>1. Failing' = Failing  BY <1>15, FailingKept DEF MarkAiQueued
  <2>2. aiJob  BY <1>15 DEF MarkAiQueued, IInv, CleanupInv
  <2>3. QED
    BY <1>15, <2>1, <2>2 DEF MarkAiQueued, Explanation!Next, Explanation!AiStep, Explanation!Queue,
       Explanation!Explainable
<1>16. ASSUME NEW w \in Workers, FindRawLog(w) PROVE [Explanation!Next]_(Explanation!vars)
  BY <1>16 DEF FindRawLog, AfterReconcile
<1>17. ASSUME NEW w \in Workers, DeleteRawLog(w) PROVE [Explanation!Next]_(Explanation!vars)
  BY <1>17 DEF DeleteRawLog
<1>18. ASSUME NEW w \in Workers, MarkDeleted(w) PROVE [Explanation!Next]_(Explanation!vars)
  BY <1>18 DEF MarkDeleted, AfterReconcile
<1>19. ASSUME NEW w \in Workers, MarkDeletionFailed(w) PROVE [Explanation!Next]_(Explanation!vars)
  BY <1>19 DEF MarkDeletionFailed
<1>20. ASSUME NEW w \in Workers, EnqueueDelete(w) PROVE [Explanation!Next]_(Explanation!vars)
  BY <1>20 DEF EnqueueDelete, AfterReconcile
<1>21. ASSUME NEW w \in Workers, ReconcileExecution(w) PROVE [Explanation!Next]_(Explanation!vars)
  BY <1>21 DEF ReconcileExecution
<1>22. ASSUME NEW w \in Workers, FinishExecution(w) PROVE [Explanation!Next]_(Explanation!vars)
  BY <1>22 DEF FinishExecution
<1>23. ASSUME NEW w \in Workers, ReadForFailure(w) PROVE [Explanation!Next]_(Explanation!vars)
  <2>1. UNCHANGED <<status, analyzerStatus, aiStatus, aiJob, ending>>  BY <1>23 DEF ReadForFailure
  <2>2. CASE CanTransition(status, "failed") /\ pc' = [pc EXCEPT ![w] = "failWrite"]
    <3>1. Failing' = TRUE  BY <2>2
    <3>2. QED
      BY <2>1, <2>2, <3>1 DEF Explanation!Next, Explanation!AnalyzerStep, Explanation!DecideFailure,
         CanTransition, AllowedTransitions,
         Explanation!CanTransition, Explanation!AllowedTransitions
  <2>3. ASSUME NEW label \in {"failRead", "throwRetry"}, pc' = [pc EXCEPT ![w] = label]
        PROVE  Failing' = Failing
    BY <1>23, <2>3, FailingKept DEF ReadForFailure
  <2>4. QED  BY <1>23, <2>1, <2>2, <2>3 DEF ReadForFailure, FailureNotPersisted, ThrowRetryable
<1>24. ASSUME NEW w \in Workers, WriteFailure(w) PROVE [Explanation!Next]_(Explanation!vars)
  BY <1>24 DEF WriteFailure, Explanation!Next, Explanation!AnalyzerStep, Explanation!Fail
<1>25. ASSUME NEW w \in Workers, FailExecution(w) PROVE [Explanation!Next]_(Explanation!vars)
  BY <1>25 DEF FailExecution, AfterFailurePersisted
<1>26. ASSUME NEW w \in Workers, EndActivation(w) PROVE [Explanation!Next]_(Explanation!vars)
  BY <1>26 DEF EndActivation, Forget
<1>27. ASSUME NEW w \in Workers, Fault(w) PROVE [Explanation!Next]_(Explanation!vars)
  <2>1. UNCHANGED <<status, analyzerStatus, aiStatus, aiJob, ending>>  BY <1>27 DEF Fault
  <2>2. PICK label \in HandlerPc \ {"failWrite"} : pc' = [pc EXCEPT ![w] = label]
    BY <1>27 DEF Fault, ThrowRetryable, ThrowFatal, FailureNotPersisted, AfterReconcile,
       AfterFailurePersisted
  <2>3. Failing' = Failing \/ Failing' = FALSE  BY <2>2, FailingFalls
  <2>4. QED  BY <2>1, <2>3 DEF Explanation!Next, Explanation!AnalyzerStep, Explanation!GiveUpFailure
<1>28. ASSUME NEW w \in Workers, Crash(w) PROVE [Explanation!Next]_(Explanation!vars)
  <2>1. UNCHANGED <<status, analyzerStatus, aiStatus, aiJob, ending>>  BY <1>28 DEF Crash, Forget
  <2>2. pc' = [pc EXCEPT ![w] = "idle"]  BY <1>28 DEF Crash, Forget
  <2>3. Failing' = Failing \/ Failing' = FALSE  BY <2>2, FailingFalls
  <2>4. QED  BY <2>1, <2>3 DEF Explanation!Next, Explanation!AnalyzerStep, Explanation!GiveUpFailure
<1>29. ASSUME Stall PROVE [Explanation!Next]_(Explanation!vars)
  BY <1>29 DEF Stall
<1>30. ASSUME LoseLock PROVE [Explanation!Next]_(Explanation!vars)
  BY <1>30 DEF LoseLock
<1>31. ASSUME SweepFind PROVE [Explanation!Next]_(Explanation!vars)
  BY <1>31 DEF SweepFind
<1>32. ASSUME SweepDelete PROVE [Explanation!Next]_(Explanation!vars)
  BY <1>32 DEF SweepDelete
<1>33. ASSUME SweepMark PROVE [Explanation!Next]_(Explanation!vars)
  BY <1>33 DEF SweepMark
<1>34. ASSUME StartDeleteJob PROVE [Explanation!Next]_(Explanation!vars)
  BY <1>34 DEF StartDeleteJob
<1>35. ASSUME DeleteJobDelete PROVE [Explanation!Next]_(Explanation!vars)
  BY <1>35 DEF DeleteJobDelete
<1>36. ASSUME DeleteJobMark PROVE [Explanation!Next]_(Explanation!vars)
  BY <1>36 DEF DeleteJobMark
<1>37. ASSUME MaintMarkFailed PROVE [Explanation!Next]_(Explanation!vars)
  BY <1>37 DEF MaintMarkFailed
<1>38. ASSUME MaintFault PROVE [Explanation!Next]_(Explanation!vars)
  BY <1>38 DEF MaintFault
<1>39. ASSUME MaintCrash PROVE [Explanation!Next]_(Explanation!vars)
  BY <1>39 DEF MaintCrash
<1>40. ASSUME Expire PROVE [Explanation!Next]_(Explanation!vars)
  BY <1>40 DEF Expire
<1>41. ASSUME RecoverCheck PROVE [Explanation!Next]_(Explanation!vars)
  BY <1>41 DEF RecoverCheck
<1>42. ASSUME RecoverEnqueue PROVE [Explanation!Next]_(Explanation!vars)
  BY <1>42 DEF RecoverEnqueue
<1>43. ASSUME AiSide PROVE [Explanation!Next]_(Explanation!vars)
  BY <1>43 DEF AiSide, Explanation!Next
<1>44. CASE UNCHANGED vars
  BY <1>44 DEF vars
<1>45. QED
  BY <1>1, <1>2, <1>3, <1>4, <1>5, <1>6, <1>7, <1>8, <1>9, <1>10, <1>11, <1>12, <1>13, <1>14,
     <1>15, <1>16, <1>17, <1>18, <1>19, <1>20, <1>21, <1>22, <1>23, <1>24, <1>25, <1>26, <1>27,
     <1>28, <1>29, <1>30, <1>31, <1>32, <1>33, <1>34, <1>35, <1>36, <1>37, <1>38, <1>39, <1>40,
     <1>41, <1>42, <1>43, <1>44 DEF Next, HandlerStep, MaintStep


\* Whatever the activations of an Analysis that has a result do, and however many
\* locks are lost, its row changes as ExplanationLifecycle says.
THEOREM KeepsLifecycle == Spec => KeepsExplanationLifecycle
<1>1. TypeInv /\ IInv /\ [Next]_vars
        => [observationSets > 0 => [Explanation!Next]_(Explanation!vars)]_vars
  BY NextKeeps
<1>2. QED
  BY <1>1, InitTypeInv, NextTypeInv, InitIInv, NextIInv, PTL DEF Spec, KeepsExplanationLifecycle

=============================================================================
