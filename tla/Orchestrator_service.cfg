CONSTANTS
  r1 = r1  r2 = r2  r3 = r3  n1 = n1  n2 = n2  batch_t = batch_t  lc_t = lc_t
  Requests = {r1, r2, r3}
  Nodes = {n1, n2}
  WTypes = {batch_t, lc_t}
  None = None
  NumRes = 2
  GpuRes = 2
  Capacity <- CapGpu
  Demand <- DemandGpu
  WType <- TypesMixed
  Admitted = {r1, r2, r3}
  Deadline <- DeadlineR2
  Eligible <- EligibleGpu
  QueueMax = 2
  TTL = 1
  MaxIds = 3
  MaxNow = 2
SPECIFICATION FairSpec
INVARIANTS AccountingExact NoOvercommit ColocationExact NoQueuedRequestLost QueueIsFair
PROPERTIES LeaksOnlyByDrainOrCancel ExecutedJobsFinish LockIsReleased
CHECK_DEADLOCK FALSE
