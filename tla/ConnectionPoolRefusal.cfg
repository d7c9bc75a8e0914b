CONSTANTS
  c1 = c1
  c2 = c2
  c3 = c3
  c4 = c4
  Conns = {c1, c2, c3, c4}
  NoConn = NoConn
  A = A
  Servers = {A}
  Blank = Blank
  POOL_MAX = 4
  MAN_POOL_SIZE = 2
  MAN_POOL_SIZE_INIT = 1
  MAX_BEAT_HEART_COUNT = 2
  MaxReconfigs = 1
  MaxFailures = 4
SPECIFICATION Spec
SYMMETRY Symmetry
INVARIANT RefusedOnlyWhenFull
CHECK_DEADLOCK FALSE
