\* One activation at a time, every attempt of the real configuration, and
\* a fault and a crash everywhere (an analysis that fails at every attempt is the
\* verdict "error").
SPECIFICATION FairSpec
CONSTANTS
  Workers = {w1}
  NoWorker = NoWorker
  Attempts = 3
  DeleteAttempts = 2
  Verdicts = {"partial", "fatal", "error"}
  CanExpire = TRUE
  MaxFaults = 1
  MaxCrashes = 1
  MaxLostLocks = 0
  MaxRecoveries = 1
CHECK_DEADLOCK FALSE
PROPERTIES
  ImplementsLifecycle
  EnqueuedIsDecided
  RetentionIsHonoured
