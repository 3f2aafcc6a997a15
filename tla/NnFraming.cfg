CONSTANTS
  SizeBytes = 2
  Sizes = {1, 3}
  Spelled = {0, 1, 2, 5}
  MaxFrames = 3
SPECIFICATION FairSpec
INVARIANTS
  TypeOK
  InStep
  RetryLosesNothing
  AllocatesAnnounced
PROPERTIES
  DiesInsideBody
  RecvReturns
CHECK_DEADLOCK FALSE
