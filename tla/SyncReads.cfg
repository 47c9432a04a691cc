SPECIFICATION Spec
CONSTANTS
  p1 = p1
  p2 = p2
  a1 = a1
  a2 = a2
  c1 = c1
  c2 = c2
  q1 = q1
  q2 = q2
  s1 = s1
  s2 = s2
  Nil = Nil
  Path = {q1, q2}
  Sha = {s1, s2}
  SizeOf <- Sizes
  Project = {p1}
  Account = {a1, a2}
  Client = {c1, c2}
  Handler = {h1, h2}
  AccountOf <- TwoAccounts
  Cap <- ThreeUnits
  ClientManifest <- BothFiles
  Requests = {"push", "complete", "pull", "status"}
  MayOmitCursor = TRUE
  MaxCommits = 1
  MaxDeletes = 0
INVARIANTS
  NoTornManifest
  OnlyOwnerCommits
