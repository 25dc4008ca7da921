SPECIFICATION Spec
CONSTANTS
  e1 = e1
  k1 = k1
  c1 = c1
  k2 = k2
  M = M
  r1 = r1
  r2 = r2
  Plain = {e1, k1}
  Inside = {c1, k2}
  Module = M
  Togglers = {r1, r2}
  DefaultOn = {e1}
  ExplicitOff = {k2}
  CoreOnly = {k1}
  MergedOn = TRUE
  MaxObjects = 2
  Batches = {b1, b2}
  MaxErrors = 2
  Cooldown = 2
  QueueSize = 2
  MaxEvents = 6
  Reporters = {p1, p2, p3}
  PerKey = 1
  Global = 4
  GlobalRate = 1
  KeyCap = 2
  IdleTicks = 1
  MaxTicks = 4
  Seeds <- SeedsV
  Sizes = {3}
  MaxBucket = 2
  MaxRecords = 2
  PopulationSize = 2
  ReplaceCount = 1
  TopFitness = 1
  MaxGenomes = 4
  MaxRows = 1
  SharedModes = {TRUE, FALSE}
  Targets = {t1, t2}
  PerHost = 1
  MaxHosts = 1
  WarmTtl = 1
  Throttle = 1
  MaxSockets = 2
  MaxDials = 1
  Payloads = {e1}
  Keep = 2
  MaxCopies = 1
  MaxEdits = 2
  MaxSeconds = 4
  MaxChunks = 2
  BufferCap = 1
  MinSize = 2
  NewLength = 1
  Blocks <- BlocksV
  DataBlocks = 3
CHECK_DEADLOCK FALSE
INVARIANTS
  KillSwitchHolds
  GuardsKept
  StoresKept
  SocketsAccounted
  CodecsHold
PROPERTIES
  TogglesHold
