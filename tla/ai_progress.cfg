\* One activation at a time, every attempt of the real configuration, one
\* request, faults and a crash everywhere.
SPECIFICATION FairSpec
CONSTANTS
  Workers = {w1}
  NoWorker = NoWorker
  Scheduler = Scheduler
  Requests = {r1}
  Attempts = 3
  Outcomes = {"explained", "fatal"}
  MaxFaults = 3
  MaxCrashes = 1
  MaxLostLocks = 0
CHECK_DEADLOCK FALSE
PROPERTIES
  EnqueuedIsExplained
  StuckIsFinalized
