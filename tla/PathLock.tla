------------------------------ MODULE PathLock ------------------------------
(***************************************************************************)
(* PathLock of tooling/utils/src/paths.ts: tasks on one key run one at a   *)
(* time, in the order in which runExclusive was called.  queues.get(key)   *)
(* is the promise of the last task queued; a task waits for the promise it *)
(* found there, and removes the entry when it is still its own.            *)
(***************************************************************************)
CONSTANTS
  Task,      \* slots for calls of runExclusive; a slot is used again
  Key,       \* lock instance and path
  KeyOf,     \* the key a task locks
  None

ASSUME KeyAssumption == KeyOf \in [Task -> Key] /\ None \notin Task

VARIABLES
  turn,      \* "out", "wait" (behind its predecessor), "run" (the task runs)
  prev,      \* the task whose promise it waits for, None once that resolved
  tail,      \* tail[k]: the task that queues.get(k) belongs to
  ahead      \* history: ahead[t]: the tasks that called for t's key before t
             \* and have not left

pathLockVars == <<turn, prev, tail, ahead>>

Queued(k) == {t \in Task : KeyOf[t] = k /\ turn[t] # "out"}

PathLockInit ==
  /\ turn = [t \in Task |-> "out"]
  /\ prev = [t \in Task |-> None]
  /\ tail = [k \in Key |-> None]
  /\ ahead = [t \in Task |-> {}]

Enqueue(t) ==
  LET k == KeyOf[t] IN
  /\ turn[t] = "out"
  /\ turn' = [turn EXCEPT ![t] = "wait"]
  /\ prev' = [prev EXCEPT ![t] = tail[k]]
  /\ tail' = [tail EXCEPT ![k] = t]
  /\ ahead' = [ahead EXCEPT ![t] = Queued(k)]

Enter(t) ==
  /\ turn[t] = "wait"
  /\ prev[t] = None
  /\ turn' = [turn EXCEPT ![t] = "run"]
  /\ UNCHANGED <<prev, tail, ahead>>

\* Variant: the entry is removed whoever it belongs to.
UnqueueAny(t) == [tail EXCEPT ![KeyOf[t]] = None]

\* Variant: the entry is never removed.
UnqueueNone(t) == tail

\* The entry is removed by the task it belongs to.
Unqueue(t) == [tail EXCEPT ![KeyOf[t]] = IF @ = t THEN None ELSE @]

\* The task settled, either way: its promise resolves and its successor may run.
Leave(t) ==
  /\ turn[t] = "run"
  /\ turn' = [turn EXCEPT ![t] = "out"]
  /\ prev' = [u \in Task |-> IF prev[u] = t THEN None ELSE prev[u]]
  /\ tail' = Unqueue(t)
  /\ ahead' = [u \in Task |-> ahead[u] \ {t}]

\* The process that holds the lock instances of the keys ks ends.
Vanish(ks) ==
  /\ turn' = [t \in Task |-> IF KeyOf[t] \in ks THEN "out" ELSE turn[t]]
  /\ prev' = [t \in Task |-> IF KeyOf[t] \in ks THEN None ELSE prev[t]]
  /\ tail' = [k \in Key |-> IF k \in ks THEN None ELSE tail[k]]
  /\ ahead' = [t \in Task |-> IF KeyOf[t] \in ks THEN {} ELSE ahead[t]]

PathLockNext ==
  \/ \E t \in Task : Enqueue(t) \/ Enter(t) \/ Leave(t)
  \/ \E ks \in SUBSET Key : Vanish(ks)

PathLockSpec == PathLockInit /\ [][PathLockNext]_pathLockVars

-----------------------------------------------------------------------------
\* Every variable has its type, and an entry of queues belongs to a task that
\* is still queued: finished keys leave nothing behind.
PathLockTypeOK ==
  /\ turn \in [Task -> {"out", "wait", "run"}]
  /\ prev \in [Task -> Task \union {None}]
  /\ tail \in [Key -> Task \union {None}]
  /\ ahead \in [Task -> SUBSET Task]
  /\ \A k \in Key : tail[k] # None => turn[tail[k]] # "out"

\* A task runs when all that called for its key before it have left, and alone:
\* tasks exclude each other and none overtakes, also when one leaves while
\* others queue (runExclusive's chain of promises and the test before
\* queues.delete).
InTurn ==
  \A t \in Task :
    turn[t] = "run" =>
      /\ ahead[t] = {}
      /\ \A u \in Queued(KeyOf[t]) : turn[u] = "run" => u = t
=============================================================================
