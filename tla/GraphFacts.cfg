SPECIFICATION FairSpec
CHECK_DEADLOCK FALSE
CONSTANTS
  c1 = c1
  c2 = c2
  Node <- FourNodes
  LabelOf <- Labels
  AliasesOf <- Aliases
  NewNode = {1}
  Fact <- Facts
  NoKey = noKey
  Caller = {c1, c2}
  Stored <- Stored1
  MaxUpserts <- OneOfEach
  MaxClock = 1
  MaxCrashes = 1
  MaxPasses = 1
INVARIANTS
  TypeOK
  EdgesAttached
  FactsKept
  DiskFollows
PROPERTIES
  Converges
