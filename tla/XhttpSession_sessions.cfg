SPECIFICATION FairSpec
CONSTANTS
  h1 = h1
  u1 = u1
  u2 = u2
  d1 = d1
  MaxSessions = 2
  Uploads = {h1}
  Readers = {d1}
  Watched = {1}
  Upstreams = {u1, u2}
  MaxSeq = 1
  Chatty = {2}
  MaxChunks = 1
  BufEntries = 1
  BufBytes = 1
  QueueMax = 1
  Reaper = Reaper
  None = None
PROPERTIES
  SessionsEnd
CHECK_DEADLOCK FALSE
