CONSTANTS
  c1 = c1
  c2 = c2
  c3 = c3
  Conns = {c1, c2, c3}
  NoConn = NoConn
  A = A
  B = B
  Servers = {A, B}
  Blank = Blank
  POOL_MAX = 2
  MAN_POOL_SIZE = 1
  MAN_POOL_SIZE_INIT = 1
  MAX_BEAT_HEART_COUNT = 1
  MaxReconfigs = 3
  MaxFailures = 1
SPECIFICATION Spec
SYMMETRY Symmetry
INVARIANTS
  TypeOK
  OneOwner
  WithinCap
  AtMostOneStale
  DroppedOnlySilent
CHECK_DEADLOCK FALSE
