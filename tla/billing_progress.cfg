SPECIFICATION FairSpec
CONSTANTS
  Accounts = {a1}
  Customers = {c1}
  Subscriptions = {s1}
  Deliveries = {d1, d2}
  Checkouts = {r1}
  None = None
  Statuses = {"active", "past_due", "canceled"}
  MaxChanges = 3
  MaxFaults = 1
CHECK_DEADLOCK FALSE
PROPERTIES
  RowsConverge
