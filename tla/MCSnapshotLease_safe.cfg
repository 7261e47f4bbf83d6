SPECIFICATION FairSpec
CONSTANTS
  None = None
  Lines = {"tcp", "serial"}
  Lease = 2
  Attempts = 2
  Reads = 2
  MaxCaptures = 3
  FaultKinds = {"late", "damage", "cut", "error", "crash"}
  MaxFaults = 3
INVARIANTS TypeOK LeasedCaptureIsAtomic PauseIsOwned
PROPERTIES TargetResumes
CHECK_DEADLOCK FALSE
