CONSTANTS
  f1 = f1
  f2 = f2
  k1 = k1
  a = a
  b = b
  c = c
  x = x
  Fuzzers <- OneFuzzer
  Peers <- OnePeer
  Inputs <- FourInputs
  Crashing <- OneCrash
  Points <- ThreePoints
  Reaches <- ReachesOf
  SeedCount = 1
  MaxIterations = 2
  MaxSolutions = 1
  MaxInputs = 2
SPECIFICATION Spec
INVARIANTS
  TypeOK
  EveryTestcaseCounts
  DepthsReported
  SolutionsAccounted
CHECK_DEADLOCK FALSE
