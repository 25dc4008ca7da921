SPECIFICATION CoreSpec
CONSTANTS
  t1 = t1
  t2 = t2
  t3 = t3
  k1 = k1
  k2 = k2
  MaxUsed = 3
  MaxEdits = 3
  MaxTasks = 3
  DiskMayFail = TRUE
  DiskMayRot = TRUE
  Absent = Absent
  Garbage = Garbage
  VTunnels = {t1, t2, t3}
  VLinks = {k1, k2}
  LinkOf <- TunnelLinks
  MaxRuntimes = 1
  Closer = Closer
  NoProc = NoProc
  SpeedPumps = {c1, c2}
  ChunkSizes = {1, 3}
  SpeedRates = {0, 1, 2}
  MinBurst = 2
  MaxSpeedEdits = 1
  MaxSpeedChunks = 3
INVARIANTS
  NoRequestForgotten
PROPERTIES
  RefinesDurableState
  EditsLast
  RuntimesServe
  SpeedHolds
CHECK_DEADLOCK FALSE
