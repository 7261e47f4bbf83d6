SPECIFICATION Spec
CONSTANTS
  Ids = {t1}
  None = None
  Sizes = {3}
  Window = 3
  JournalEvery = 2
  FaultKinds = {"cancel"}
  MaxFaults = 1
PROPERTIES CancelledStaysTerminal
CHECK_DEADLOCK FALSE
