CONSTANTS
  a = a  b = b
  Pods = {a, b}
  MaxRollbacks = 0
  MaxResets = 1
  MaxCrashes = 0
  MaxErrors = 1
SPECIFICATION FairSpec
PROPERTY EventuallySaved
CHECK_DEADLOCK FALSE
