CONSTANTS
  Requests <- MCRequests
  TypeOf <- MCTypeOf
  IdentityOf <- MCIdentityOf
  Hello = Hello
  SeqMod = 4
  Attempts = 3
  HostRange <- MCHostRange
  Firmwares <- MCFirmwares
SPECIFICATION WindowSpec
PROPERTIES
  ImplementsCalls
