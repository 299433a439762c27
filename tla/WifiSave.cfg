CONSTANTS
  Networks = {home, cafe}
  InReach = {home, cafe}
  NoNetwork = NoNetwork
SPECIFICATION CartridgeSpec
CHECK_DEADLOCK FALSE
PROPERTIES
  SavesCurrentNetwork
