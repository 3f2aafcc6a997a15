CONSTANTS
  f1 = f1
  f2 = f2
  k1 = k1
  k2 = k2
  Fuzzers <- OneFuzzer
  Conns <- OneConn
  Kinds <- SharedOnly
  Large = {}
  MaxEvents = 2
  MaxInputs = 2
  MaxGarbled = 0
  DownWindow = 1
  UpWindow = 1
SPECIFICATION Spec
INVARIANTS
  KeepsForwarding
CHECK_DEADLOCK FALSE
