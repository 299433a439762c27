CONSTANTS
  Pages = {p, q}
  NoPage = NoPage
  Mixed = Mixed
  Configs = {c, d}
  NoConfig = NoConfig
SPECIFICATION FairSpec
CHECK_DEADLOCK FALSE
INVARIANTS
  RowsAreOfRequestedPage
  TlsLifetime
PROPERTIES
  NoStaleWork
  OutcomeStands
  RequestsEnd
