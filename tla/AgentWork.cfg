SPECIFICATION Spec
CONSTANTS
  native = native
  fallback = fallback
  Nil = Nil
  Worker = {s1, s2}
  Owner = {o1, o2}
  Store = {native, fallback}
  Native = {native}
  Syncing = {fallback}
  TTL = {1}
  Text = {"fact", "secret"}
  Secret = {"secret"}
  Preparing = {s1}
  MaxAttempts = 1
INVARIANTS
  ExclusiveWhileCovered
PROPERTIES
  NotesKept
  PublishedWhenDone
  WaitersGetIn
