\* Two activations at once: one lock is lost, a crash and a failing await
\* happen anywhere, the retention period may pass.
SPECIFICATION Spec
CONSTANTS
  Workers = {w1, w2}
  NoWorker = NoWorker
  Attempts = 2
  DeleteAttempts = 2
  Verdicts = {"partial", "fatal"}
  CanExpire = TRUE
  MaxFaults = 1
  MaxCrashes = 1
  MaxLostLocks = 1
  MaxRecoveries = 0
CHECK_DEADLOCK FALSE
SYMMETRY WorkerSymmetry
INVARIANTS
  AtMostOneResult
  RawLogKeptUntilOutcome
  DeletedRowMeansNoObject
  ResultIsNotReanalyzed
  ExecutionSuccessMeansResult
