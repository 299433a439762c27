CONSTANTS
  MinPassword = 2
  MaxPassword = 2
  FirstPage = 1
  LastPage = 2
  LastSubpage = 2
  Version = 7
  Crc16 <- CrcCcitt
  MaxPayload = 2
  HostLimit = 2
  Bodies <- MCBodies
  Noises <- MCNoises
  Columns = 4
  Colours = {1, 7}
  Cells <- MCCells
  Fetches <- MCFetches
  Halves = 3
SPECIFICATION MCSpec
CHECK_DEADLOCK FALSE
INVARIANTS
  
  ChosenSubpageStays
  FrameArrives
  OnlyFramesSent
  HidesLeast
  ClockTellsLocalTime
PROPERTIES
  AutostartOnce
  RotationReturns
