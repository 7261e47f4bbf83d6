SPECIFICATION Spec
CONSTANTS
  Ids = {t1, t2}
  None = None
  Sizes = {0, 3}
  Window = 3
  JournalEvery = 2
  FaultKinds = {"reset", "giveup", "dos", "timeout", "cancel", "stall", "intruder"}
  MaxFaults = 2
INVARIANTS NothingLost JournalBacked
PROPERTIES ImplementsAtomicTransfer ScratchOwned
CHECK_DEADLOCK FALSE
