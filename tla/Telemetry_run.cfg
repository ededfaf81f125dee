CONSTANTS
  NodeCount = 2
  Offset <- MCOffset
  Uploads <- MCFiles
  Buckets = 2
  NoTrace = NoTrace
  Interval = 2
  Threshold = 2
  Lookback = 2
  Enough = 2
  Window = 8
  SpikeTicks = 2
  MaxSpikes = 2
  Period = 6
SPECIFICATION LoopSpec
INVARIANTS LoopTypeOK BaselineComesBack FitLagsAtMost
PROPERTY DrainsComeBack
CHECK_DEADLOCK FALSE
