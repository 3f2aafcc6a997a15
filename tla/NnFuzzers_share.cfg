CONSTANTS
  f1 = f1
  f2 = f2
  k1 = k1
  a = a
  b = b
  c = c
  x = x
  Fuzzers <- TwoFuzzers
  Peers <- OnePeer
  Inputs <- ThreeInputs
  Crashing <- OneCrash
  Points <- TwoPoints
  Reaches <- ReachesOf
  SeedCount = 1
  MaxIterations = 1
  MaxSolutions = 0
  MaxInputs = 1
SPECIFICATION FairSpec
INVARIANTS
  AnnouncesOwnFinds
PROPERTY CoverageConverges
CHECK_DEADLOCK FALSE
