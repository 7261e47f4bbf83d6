SPECIFICATION Spec
CONSTANTS
  MaxCalls = 3
  Modulus = 4
  FrameBytes = 2
  Retries = 2
  Quarantine = FALSE
  Escapes = 2
  EscLength = 2
  Hooked = FALSE
  Tcp = FALSE
  FaultKinds = {"lose", "damage", "cut", "late", "reopen"}
  MaxFaults = 2
INVARIANTS AnswersOwnCall AtMostOnce
PROPERTIES ImplementsRpc
CHECK_DEADLOCK FALSE
