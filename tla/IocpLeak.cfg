CONSTANTS
  c1 = c1
  w1 = w1
  w2 = w2
  Contexts = {c1}
  Workers = {w1, w2}
  Accepts = {1, 2}
  NoContext = NoContext
  NoAccept = NoAccept
  Limit = 1
  MaxQueued = 1
  MaxWrites = 1
  MaxShutdowns = 0
SPECIFICATION Spec
INVARIANT FailedPostReleases
CHECK_DEADLOCK FALSE
