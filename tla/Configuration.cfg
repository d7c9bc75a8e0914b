CONSTANTS
  Names = {1, 2}
  Blank = Blank
  a = a
  Values = {a, Blank}
  Lists <- MCLists
  Wanted <- MCWanted
  Default <- MCDefault
  Room = 1
  Threads = {t1, t2}
  Nobody = Nobody
  MaxCalls = 3
  MaxCrashes = 1
  MaxFailures = 1
SPECIFICATION Spec
INVARIANTS
  TypeOK
  EditsAreSaved
  RestartFindsOneTable
  SettingsFollow
PROPERTIES
  NoNameEnteredTwice
CHECK_DEADLOCK FALSE
SYMMETRY Symmetry
