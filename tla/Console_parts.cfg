SPECIFICATION Spec
CONSTANTS
  a1 = a1
  g1 = g1
  s1 = s1
  n1 = n1
  n2 = n2
  c1 = c1
  c2 = c2
  o1 = o1
  Locals = {a1}
  Githubs = {g1}
  AdminLogin = g1
  SignIns = {1, 2, 3}
  OauthStates = {s1}
  SessionCap = 1
  AuthLimit = 1
  ReadLimit = 2
  WriteLimit = 1
  WindowSize = 4
  LimitEnd = 9
  MaxBoots = 3
  Slugs = {s1}
  Creates = {1, 2, 3}
  InstanceCap = 1
  MaxRows = 9
  Workers = {n1, n2}
  DefaultNode = n1
  RegionOf <- RegionOfV
  Capacity = 1
  StaleAfter = 1
  BeatTime = 1
  Beats = {1, 2}
  LastTick = 2
  MaxPlaced = 2
  Configs = {c1, c2}
  KindOf <- KindOfV
  Caps = {0, 1}
  FeedEnd = 1
  MaxFeedUse = 1
  MaxEdits = 1
  AlertAfter = 2
  StopAfter = 2
  LastMinute = 6
  MaxSetups = 3
  MaxKeys = 3
  Ops = {o1}
  Limits = {1}
  FirstLimit = 1
  Margin = 0
  Resets = TRUE
  TimeEdits = FALSE
  Losses = FALSE
  OpsMayFail = TRUE
  LoopMayFail = FALSE
  MaxTotal = 3
  MaxSpent = 2
INVARIANTS
  PlatformBoots
  LimitsHold
  ConfigHolds
  SubscriptionHolds
PROPERTIES
  SessionsKept
  FleetHolds
  EnforcementHolds
CHECK_DEADLOCK FALSE
