CONSTANTS
  p1 = p1
  p2 = p2
  p3 = p3
  None = None
  Peers <- ThreePeers
  Prompt <- TwoPrompt
  Requests <- AllRequests
  PoolSize = 2
SPECIFICATION FairSpec
INVARIANTS
  TypeOK
  SomebodyOwes
PROPERTIES
  ImplementsAdmission
  WaitsOnlyFor
CHECK_DEADLOCK FALSE
