\* Two activations at once (one lock is lost), the scheduler, a retry request
\* of the user, and one failing await anywhere.
SPECIFICATION Spec
CONSTANTS
  Workers = {w1, w2}
  NoWorker = NoWorker
  Scheduler = Scheduler
  Requests = {r1}
  Attempts = 2
  Outcomes = {"explained", "retryable"}
  MaxFaults = 1
  MaxCrashes = 0
  MaxLostLocks = 1
CHECK_DEADLOCK FALSE
SYMMETRY Symmetry
VIEW Distinguishable
INVARIANTS
  AtMostOneExplanation
  ColumnsAgree
  QueuedHasJob
  NoCallAfterRecord
  ExecutionSuccessMeansRecord
PROPERTIES
  ImplementsExplanationLifecycle
