CONSTANTS
  Networks = {home}
  InReach = {home}
  NoNetwork = NoNetwork
SPECIFICATION FairCartridgeSpec
CHECK_DEADLOCK FALSE
PROPERTIES
  ConnectionIsTold
