SPECIFICATION CoreSpec
CONSTANTS
  c1 = c1
  c2 = c2
  l1 = l1
  l2 = l2
  Conns = {c1, c2}
  VMessConns = {}
  Links = {l1}
  VMessLinks = {}
  FrameSizes = {1}
  MaxFrame = 1
  MinBatch = 1
  StartBatch = 2
  MaxBatch = 2
  Limits = {1}
  Caps = {1}
  RestoredUse = {0}
  MaxBytes = 3
  NoLink = NoLink
  None = None
  t1 = t1
  r1 = r1
  v1 = v1
  s1 = s1
  Ips = {c1, c2}
  TrackedLinks = {l1, l2}
  TrackedVMessLinks = {l2}
  Tunnels = {t1}
  TrojanIds = {r1}
  VMessIds = {v1}
  SessionIds = {s1}
  IpLimits = {0, 1}
  u1 = u1
  u2 = u2
  Uploads = {c1, c2}
  Upstreams = {u1, u2}
  MaxSessions = 1
  MaxSeq = 2
  BufEntries = 2
  BufBytes = 3
  Reaper = Reaper
  MaxChunks = 4
  MaxReads = 2
SYMMETRY Symmetry
INVARIANTS
  QuotaHolds
  TrackerHolds
  UpstreamOrdered
  StreamsHold
CHECK_DEADLOCK FALSE
