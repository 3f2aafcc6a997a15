CONSTANTS
  port = port
  out = out
  AutoSeed = AutoSeed
  NoSeed = NoSeed
  Masks <- FullMasks
  Commands <- Sessions
  Works <- PortOnly
  Words <- TwoWords
  UsizeMax = 8
SPECIFICATION Spec
INVARIANT BrokerExitKills
CHECK_DEADLOCK FALSE
