CONSTANTS
  None = None
  Text <- TwoLines
  MaxCalls = 2
  SpoolSize = 3
  RingSize = 2
  RefillAt = 2
  Settle = 2
  Hands = 1
  FaultKinds = {"late", "cut", "slow"}
  MaxFaults = 1
SPECIFICATION FairSpec
INVARIANTS TypedWhole LostPeerOneLine
PROPERTIES CancelledNotRead TypeCompletes
