SPECIFICATION Spec
CONSTANTS
  c1 = c1
  c2 = c2
  k1 = k1
  Client = {c1, c2}
  Key = {k1}
  KeyOf <- OneKey
  Retries = 1
  MaxCalls = 1
  MaxHooks = 2
CHECK_DEADLOCK FALSE
INVARIANTS
  CommitsOnce
  
  RetryNeverDoubles
PROPERTIES
  RevokedStaysOut
  CallsEnd
