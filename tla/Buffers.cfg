CONSTANTS
  Threads = {t1, t2}
  Buffers = {b1, b2, b3}
  NoBuffer = NoBuffer
  AllocSize = 2
  AllocateCount = 1
  MaxManagers = 2
  MaxData = 3
  Lengths = {0, 3}
SPECIFICATION Spec
INVARIANTS
  TypeOK
  ReferencesCounted
  DataInOnePlace
  OneManager
CHECK_DEADLOCK FALSE
SYMMETRY Symmetry
