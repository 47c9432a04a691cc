SPECIFICATION Spec
CONSTANTS
  c1 = c1
  c2 = c2
  n1 = n1
  k1 = k1
  v1 = v1
  None = None
  Runner = Runner
  Callers = {c1, c2, Runner}
  Docs <- MCDocs
  Notes = {n1, k1}
  Cores = {v1}
  Inputs <- MCInputs
  Records <- MCRecords
  Asks <- MCAsks
  MaxFails = 1
  MaxCrashes = 1
INVARIANTS
  NotesKeptInTurn
  RecallFinds
  EmbeddingsKept
  DuplicatesExplained
PROPERTIES
  RunsConverge
