CONSTANTS
  Body = 2
  Attempts = 2
SPECIFICATION FairFlashSpec
PROPERTIES
  LineRecovers
