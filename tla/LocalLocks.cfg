SPECIFICATION FairSpec
CONSTANTS
  p1 = p1
  p2 = p2
  k1 = k1
  k2 = k2
  t1 = t1
  t2 = t2
  t3 = t3
  t4 = t4
  Process = {p1, p2}
  Nobody = nobody
  Key = {k1, k2}
  Task = {t1, t2, t3, t4}
  None = none
  KeyOf <- ThreeAndOne
  ProcessOf <- OneFileEach
INVARIANTS
  TypeOK
  InTurn
  ExclusiveUnlessRaced
PROPERTIES
  Recovers
