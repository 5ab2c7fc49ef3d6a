SPECIFICATION Spec
CONSTANTS
  Accounts = {a1}
  Customers = {c1}
  Subscriptions = {s1, s2}
  Deliveries = {d1}
  Checkouts = {r1, r2}
  None = None
  Statuses = {"active", "canceled"}
  MaxChanges = 2
  MaxFaults = 0
CHECK_DEADLOCK FALSE
INVARIANTS
  AcknowledgedIsProcessed
