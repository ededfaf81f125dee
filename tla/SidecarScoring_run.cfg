CONSTANTS
  NodeIds = {"a", "b"}
  Requests <- MCRequests
  Rpcs = {"r1", "r2"}
  Slots = {1, 2, 3, 4, 5}
  None = None
  Enter = 2
  Leave = 2
  History = 2
  MaxCalls = 4
  MaxRun = 3
SPECIFICATION Spec
INVARIANTS TypeOK CountersAreRuns TrustFollows SamplesKept
CHECK_DEADLOCK FALSE
