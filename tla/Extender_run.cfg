CONSTANTS
  Pods <- MCPods
  Lists <- MCLists
  Names = {"cheap", "dear", "broken"}
  Tenants = {"a", "b"}
  Absent = Absent
  Keep = 50
  MaxRankings = 7
SPECIFICATION ExtSpec
INVARIANTS ExtTypeOK LevelsBounded
PROPERTY WinnersStay
CHECK_DEADLOCK FALSE
