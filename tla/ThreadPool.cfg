CONSTANTS
  Threads = {1, 2}
  j1 = j1
  j2 = j2
  j3 = j3
  Jobs = {j1, j2, j3}
  NoJob = NoJob
SPECIFICATION Spec
INVARIANTS
  TypeOK
  NoLostWakeup
  EachJobOnce
PROPERTY JobsServed
CHECK_DEADLOCK FALSE
