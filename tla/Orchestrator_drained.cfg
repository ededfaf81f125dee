CONSTANTS
  r1 = r1  r2 = r2  r3 = r3  n1 = n1  n2 = n2  batch_t = batch_t  lc_t = lc_t
  Requests = {r1, r2, r3}
  Nodes = {n1}
  WTypes = {batch_t, lc_t}
  None = None
  NumRes = 1
  GpuRes = 0
  Capacity <- CapOne
  Demand <- DemandOne
  WType <- TypesMixed
  Admitted = {r1, r2, r3}
  Deadline <- NoDeadlines
  Eligible <- EligibleOne
  QueueMax = 3
  TTL = 1
  MaxIds = 3
  MaxNow = 1
SPECIFICATION FairSpec
PROPERTY DrainedJobsFinish
CHECK_DEADLOCK FALSE
