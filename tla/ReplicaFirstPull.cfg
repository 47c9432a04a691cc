SPECIFICATION Spec
CONSTANTS
  Path <- Paths
  Sha <- Shas
  SizeOf <- OneByteEach
  Nil = Nil
  ProjectId = p1
  Index = index
  Template = template
  Client = {c1, c2}
  Doc = {d1}
  SnapshotDoc = {d1}
  Snapshot = {s1, s2}
  Version = {v1}
  MaxEdits = 1
SYMMETRY Symmetric
INVARIANTS
  UncommittedPullKeepsFiles
