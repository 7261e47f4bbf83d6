CONSTANTS
  RamSize = 14
  Page1 <- SomePage1
  ResBase = 9
  Buffer = 10
  MaxPayload = 4
  RawChunk = 3
  BankSize = 3
  Ports = {1, 2}
  WriteOnly = {2}
  MaxPorts = 3
  OlderClient = TRUE
SPECIFICATION AccessSpec
INVARIANT UnbackedBankIsRefused
CHECK_DEADLOCK FALSE
