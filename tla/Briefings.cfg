SPECIFICATION Spec
CONSTANTS
  c1 = c1
  q1 = q1
  q2 = q2
  f1 = f1
  f2 = f2
  Nil = Nil
  Caller = {c1}
  Fact = {f1, f2}
  Rank <- MCRank
  Query = {q1, q2}
  Limits = {1, 2}
  Budgets = {6, 14}
  Sizes = {0, 1}
  RecallCap = 1
  RecentCap = 1
  MaxEvents = 2
  MaxLag = 1
  Ttl = 1
  MaxEntries = 1
  Heading = 1
  Notice = 1
SYMMETRY MCSymmetry
INVARIANTS
  TypeOK
  BudgetKept
PROPERTIES
  PromiseKept
  RetiredFactsFade
