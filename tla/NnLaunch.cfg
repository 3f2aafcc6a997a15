CONSTANTS
  port = port
  out = out
  AutoSeed = AutoSeed
  NoSeed = NoSeed
  Masks <- AnyMasks
  Commands <- Sessions
  Works <- PortOnly
  Words <- TwoWords
  UsizeMax = 8
SPECIFICATION FairSpec
INVARIANTS
  TypeOK
  SeedsApart
  ArgsApart
  SeedsSuffice
  GoodByeMeans
  ProvidedCoresUsed
PROPERTY ClientsAttach
CHECK_DEADLOCK FALSE
