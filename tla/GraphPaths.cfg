SPECIFICATION SearchSpec
CONSTANTS
  NodeId <- FourNodes
  EdgeId <- FourNodes
  Segment <- Segments
  Snapshot <- Snapshots
  Unit = 4
  MinWeight = 1
  Query <- Queries
  MaxChanges = 2
CHECK_DEADLOCK FALSE
INVARIANTS
  IndexesAgree
  SearchesAreRight
