CONSTANTS
  p1 = p1
  p2 = p2
  p3 = p3
  None = None
  Peers <- ThreePeers
  Prompt <- TwoPrompt
  Requests <- ConnectorRequests
  PoolSize = 2
SPECIFICATION Spec
INVARIANT ServiceStays
CHECK_DEADLOCK FALSE
