CONSTANTS
  c1 = c1
  c2 = c2
  w1 = w1
  w2 = w2
  Contexts = {c1, c2}
  Workers = {w1, w2}
  Accepts = {1, 2}
  NoContext = NoContext
  NoAccept = NoAccept
  Limit = 1
  MaxQueued = 0
  MaxWrites = 1
  MaxShutdowns = 1
SPECIFICATION Spec
INVARIANTS
  TypeOK
  ReferencesCounted
  LastReferenceClosed
  ConnectCount
  NoUseAfterFree
  OneReader
CHECK_DEADLOCK FALSE
SYMMETRY Symmetry
