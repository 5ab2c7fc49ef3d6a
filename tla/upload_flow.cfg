SPECIFICATION Spec
CONSTANTS
  Analyses = {a1, a2}
  Requests = {r1, r2}
  None = None
  MaxFaults = 2
INVARIANTS
  EnqueuedIsReady
  OneUploadAccepted
  OrphanNeedsFault
PROPERTIES
  
  SubmitReturns
