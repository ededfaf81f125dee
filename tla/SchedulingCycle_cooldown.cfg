CONSTANTS
  p1 = p1  p2 = p2  n1 = n1  n2 = n2
  Pods = {p1, p2}
  Nodes = {n1}
  Configs <- AllConfigs
  Base = 2
  Cap = 3
  RetryDelay = 2
  MaxAge = 4
  MaxFailures = 4
  NoPod = NoPod
  NoEntry = NoEntry
SPECIFICATION Spec
PROPERTY ProbesAfterCoolDown
