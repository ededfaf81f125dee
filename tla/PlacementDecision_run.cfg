CONSTANTS
  JobSet <- MCJobSet
  Clusters <- MCClusters
  Spike <- MCSpike
SPECIFICATION Spec
INVARIANTS PlacedNodeSuits RefusedOnlyWithoutRoom GatedIsLastResort OnlyGpuJobsWaitInVain
CHECK_DEADLOCK FALSE
