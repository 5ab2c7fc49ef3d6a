SPECIFICATION Spec
CONSTANTS
  Accounts = {a1, a2}
  Customers = {c1, c2}
  Subscriptions = {s1, s2}
  Deliveries = {d1, d2}
  Checkouts = {r1, r2}
  None = None
  Statuses = {"active", "canceled"}
  MaxChanges = 2
  MaxFaults = 1
SYMMETRY Symmetry
CHECK_DEADLOCK FALSE
INVARIANTS
  EverySubscriberIsKnown
  RowIsOwnSnapshot
