CONSTANTS
  Requests <- MCRequests
  TypeOf <- MCTypeOf
  IdentityOf <- MCIdentityOf
  Hello = Hello
  SeqMod = 3
  Attempts = 3
  HostRange <- MCHostRange
  Firmwares <- MCFirmwares
SPECIFICATION FairSpec
INVARIANTS
  TypeOK
  AtMostOnce
  HearsOnlyItsAnswer
  SessionsAgree
PROPERTIES
  AnswerIsOwn
  ConflictAfterGiveUp
  RefusalAfterRestart
  EveryCallReturns
