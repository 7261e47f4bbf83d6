SPECIFICATION FairSpec
CONSTANTS
  MaxCalls = 3
  Modulus = 2
  FrameBytes = 2
  Retries = 0
  Quarantine = TRUE
  Escapes = 2
  EscLength = 2
  Hooked = TRUE
  Tcp = TRUE
  FaultKinds = {"lose", "cut", "late", "disconnect"}
  MaxFaults = 2
INVARIANTS TypeOK InStep NoFrameToRawParser
PROPERTIES QuarantineIsSilent CallsEnd QuarantineIsLeft
CHECK_DEADLOCK FALSE
