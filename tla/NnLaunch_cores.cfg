CONSTANTS
  port = port
  out = out
  AutoSeed = AutoSeed
  NoSeed = NoSeed
  Masks <- AnyMasks
  Commands <- Sessions
  Works <- PortOnly
  Words <- TwoWords
  UsizeMax = 8
SPECIFICATION Spec
INVARIANT ProvidedCores
CHECK_DEADLOCK FALSE
