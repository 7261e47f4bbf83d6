SPECIFICATION Spec
CONSTANTS
  Nobody = Nobody
  MaxCalls = 2
  Tools <- OneOfEach
  FaultKinds = {"slow"}
  MaxFaults = 1
CHECK_DEADLOCK FALSE
INVARIANT AnswersOwnCommand
