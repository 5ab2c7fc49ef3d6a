SPECIFICATION Spec
CONSTANTS
  u1 = u1
  someoneElse = someoneElse
  Users <- MCUsers
  Resources <- MCResources
  Owner <- MCOwner
  Requests = {r1, r2}
  None = None
  MaxFaults = 1
INVARIANTS
  ConflictIsHidden
  OnlyVerifiedServed
PROPERTIES
  TokenOfSignedIn
  SignedInStaysIn
  SignedOutLeaves
