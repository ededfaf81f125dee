CONSTANTS
  a = a  b = b
  Pods = {a, b}
  MaxRollbacks = 1
  MaxResets = 1
  MaxCrashes = 1
  MaxErrors = 0
SPECIFICATION Spec
SYMMETRY PodSymmetry
INVARIANTS NoPhantomDeposit CountedOnce SavesAreKept
CHECK_DEADLOCK FALSE
