CONSTANTS
  MinPassword = 2
  MaxPassword = 3
  FirstPage = 1
  LastPage = 3
  LastSubpage = 2
  Version = 7
SPECIFICATION Spec
CHECK_DEADLOCK FALSE
INVARIANTS
  SkipsOnlyFaultyPages
