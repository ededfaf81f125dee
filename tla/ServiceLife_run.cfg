CONSTANTS
  N = 2
  Floor = 1
  Ceiling = 1000
  Initial = 100
  Deposit = 100
  NaN = NaN
  Text = Text
  Null = Null
  Files <- MCFiles
  Sims = 2
  MaxUpdates = 2
  MaxStarts = 3
SPECIFICATION Spec
INVARIANTS PlacementsBound KnowledgeSurvives OwnFileLoads OneSimulation
PROPERTY ShutdownEnds
CHECK_DEADLOCK FALSE
