CONSTANTS
  f1 = f1
  f2 = f2
  k1 = k1
  k2 = k2
  Fuzzers <- OneFuzzer
  Conns <- TwoConns
  Kinds <- AllKinds
  Large = {}
  MaxEvents = 1
  MaxInputs = 1
  MaxGarbled = 0
  DownWindow = 1
  UpWindow = 1
SPECIFICATION Spec
SYMMETRY Symmetry
INVARIANTS
  TypeOK
  FeedInOrder
  NoEcho
  FeedComplete
  PublishedExactly
CHECK_DEADLOCK FALSE
