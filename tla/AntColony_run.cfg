CONSTANTS
  NoPlan = NoPlan
  Failed = Failed
  NIterations = 5
  StagnationLimit = 3
  TauMin = 1
  TauInitial = 100
  TauMax = 1000
  Q = 10000
  K = 3
  JobLists <- MCJobLists
  NodeLists <- MCNodeLists
  EtaRows <- MCEtaRows
  TauRows <- MCTauRows
SPECIFICATION FairSpec
INVARIANTS BestIsCheapest StopsOnlyWhenStale
PROPERTY KeepsPromise
CHECK_DEADLOCK FALSE
