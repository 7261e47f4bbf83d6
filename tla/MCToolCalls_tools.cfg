SPECIFICATION FairSpec
CONSTANTS
  Nobody = Nobody
  MaxCalls = 2
  Tools <- OneOfEach
  FaultKinds = {"spawn", "slow", "hang", "exit", "nok", "link"}
  MaxFaults = 1
CHECK_DEADLOCK FALSE
INVARIANTS OneWorkerPerChannel NothingLeaked RunStateKept
PROPERTIES DiagnosticsStayAvailable ServerCloses
