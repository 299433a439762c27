CONSTANTS
  Networks = {home, cafe}
  InReach = {home}
  NoNetwork = NoNetwork
SPECIFICATION FairSpec
CHECK_DEADLOCK FALSE
INVARIANTS
  PasswordWiped
  QueuedIsPending
PROPERTIES
  FailedIsFinal
  ProfileConnectVisible
  CompleteIsThisScan
  SavesJoinedNetwork
  RequestsSettle
