CONSTANTS
  TextLength = 2
  MaxTexts = 2
  MaxBytes = 4
  Ends = {1, 3}
  HeaderSize = 2
  PackageEnds <- MCPackageEnds
SPECIFICATION ClientSpec
INVARIANTS
  TypeOK
  SentInOrder
  ClientsDeliverWhole
  StatusNotified
  ConnectedAreClosed
PROPERTIES
  ImplementsStatus
  AllLeave
CHECK_DEADLOCK FALSE
