CONSTANTS
  Body = 2
  Attempts = 3
SPECIFICATION FairSpec
INVARIANTS
  NothingLost
  NoStaleAck
  OnlyTheAnswer
PROPERTIES
  ReadOnce
  ImplementsLine
  PicoListensAgain
  ExchangeEnds
