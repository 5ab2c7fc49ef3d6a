\* Every log of up to three lines out of ten kinds, under limits that bite
\* in different places.
SPECIFICATION Spec
CONSTANTS
  None = None
  Bad = Bad
  MinuteTicks = 2
  Post <- MCPost
  Keys <- MCKeys
  Values = {"t", "x"}
  Hosts = {"a"}
  Names = {"token", "?token", "q"}
  Sensitive = {"token"}
  Decoded <- MCDecoded
  FirstRead <- MCFirstRead
  Lines <- MCLines
  MaxLines = 3
  Configs <- MCConfigs
  KnownEntries <- MCKnownEntries
  StartsWith <- MCStartsWith
CHECK_DEADLOCK FALSE
INVARIANTS
  EveryLineAccounted
  AggregationIsExact
  OmissionIsDeserved
  KnownInformationTraceable
  ValidatorCatchesNothing
  SensitiveNeverKept
  RefusedForRepetitionOnly
