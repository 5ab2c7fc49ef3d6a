SPECIFICATION Spec
CONSTANTS
  Workers = {w1}
  NoWorker = NoWorker
  Attempts = 2
  DeleteAttempts = 2
  Verdicts = {"partial"}
  CanExpire = FALSE
  MaxFaults = 2
  MaxCrashes = 0
  MaxLostLocks = 0
  MaxRecoveries = 0
CHECK_DEADLOCK FALSE
PROPERTIES
  NoFailureAfterResult
