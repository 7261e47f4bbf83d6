SPECIFICATION FairSpec
CONSTANTS
  Ids = {t1}
  None = None
  Sizes = {0, 3}
  Window = 2
  JournalEvery = 2
  FaultKinds = {"giveup", "dos", "timeout", "cancel", "stall"}
  MaxFaults = 2
PROPERTIES HelperReturns TransferCompletes
CHECK_DEADLOCK FALSE
