SPECIFICATION Spec
CONSTANTS
  None = None
  Lines = {"tcp", "serial"}
  Lease = 2
  Attempts = 2
  Reads = 2
  MaxCaptures = 2
  FaultKinds = {"late", "damage", "cut", "error", "crash"}
  MaxFaults = 2
INVARIANTS CaptureIsAtomic
CHECK_DEADLOCK FALSE
