SPECIFICATION FairSpec
CONSTANTS
  Conns = {c1}
  VMessConns = {v1}
  Links = {l1}
  VMessLinks = {l1}
  FrameSizes = {1}
  MaxFrame = 1
  MinBatch = 2
  StartBatch = 2
  MaxBatch = 2
  Limits = {1}
  Caps = {1}
  RestoredUse = {0}
  MaxBytes = 6
  NoLink = NoLink
INVARIANTS
  OvershootBounded
  SpendBounded
PROPERTIES
  TunnelsEnd
