SPECIFICATION GatewaySpec
CONSTANTS
  c1 = c1
  c2 = c2
  i1 = i1
  i2 = i2
  n1 = n1
  r1 = r1
  r2 = r2
  Requests = {r1, r2}
  Uploads = {r1}
  PoolMax <- Pools
  Endpoints = {i1, i2}
  Strays = {}
  Nodes = {n1}
  Visits = {1}
  TtlPos = 3
  TtlNeg = 1
  QueryTime = 1
  CacheMax = 1
  TrimCount = 1
  Clients = {c1, c2}
  Cap = 1
  MaxFrames = 5
  MaxSize = 2
  HardCap = 2
INVARIANTS
  StaleAnswersEnd
  FramesKept
PROPERTIES
  RelaysEnd
  PoolsServe
  FramesAreFlushed
CHECK_DEADLOCK FALSE
