CONSTANTS
  Urls = {u, v}
  NoUrl = NoUrl
  Sources = {nos}
  Disabled = Disabled
  Networks = {home}
  NoNetwork = NoNetwork
SPECIFICATION FairSpec
CHECK_DEADLOCK FALSE
INVARIANTS
  SavesAddUp
  LoadsAreWhole
PROPERTIES
  PowerLossLeavesOne
  SaveIsTaken
