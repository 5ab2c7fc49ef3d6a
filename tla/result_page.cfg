SPECIFICATION FairSpec
CONSTANTS
  Groups <- MCGroups
  Dimension <- MCDimension
  Shown <- MCShown
  Includes <- MCIncludes
  Ghosts = {"ghost"}
  None = None
  Outputs <- MCOutputs
  Errors = {"timeout", "api409"}
  Requests = {1, 2}
  Opening = 0
  Attempts = 2
  MaxVisits = 1
  MaxFaults = 2
CHECK_DEADLOCK FALSE
INVARIANTS
  EvidenceIsFound
  FailureIsEarned
  WaitingIsPolled
PROPERTIES
  Settles
