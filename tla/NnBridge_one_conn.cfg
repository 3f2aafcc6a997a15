CONSTANTS
  f1 = f1
  f2 = f2
  k1 = k1
  k2 = k2
  Fuzzers <- OneFuzzer
  Conns <- OneConn
  Kinds <- ExecutionKinds
  Large = {1}
  MaxEvents = 2
  MaxInputs = 2
  MaxGarbled = 1
  DownWindow = 1
  UpWindow = 1
SPECIFICATION FairSpec
INVARIANTS
  Decodable
  MonitorExact
  InputsInOrder
PROPERTIES
  ImplementsFeed
  EventReachesPeer
  InputReachesFuzzers
CHECK_DEADLOCK FALSE
