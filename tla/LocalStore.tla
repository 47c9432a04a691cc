----------------------------- MODULE LocalStore -----------------------------
(***************************************************************************)
(* How NodeFsMemoryStore (packages/tekmemo/src/fs/node-fs-memory-store.ts) *)
(* guards its mutating operations: write, append and delete first take the *)
(* advisory lock of the process, unless it is held, then the path lock of  *)
(* the file, and then touch the file.  Operations of a process that need   *)
(* the lock while it is being taken share one attempt, and its failure.    *)
(* Reads take no lock and are left out.                                    *)
(***************************************************************************)
EXTENDS AdvisoryLock, PathLock

CONSTANT ProcessOf     \* ProcessOf[k]: the process whose store has the key k

ASSUME ProcessOfAssumption == ProcessOf \in [Key -> Process]

VARIABLE asking        \* tasks inside ensureLock

vars == <<advisoryVars, pathLockVars, asking>>

Owner(t) == ProcessOf[KeyOf[t]]
TasksOf(p) == {t \in Task : Owner(t) = p}
KeysOf(p)  == {k \in Key : ProcessOf[k] = p}

Init == AdvisoryInit /\ PathLockInit /\ asking = {}

Call(t) ==
  /\ alive[Owner(t)]
  /\ turn[t] = "out" /\ t \notin asking
  /\ asking' = asking \union {t}
  /\ UNCHANGED <<advisoryVars, pathLockVars>>

Acquire(p) ==
  /\ asking \intersect TasksOf(p) # {}
  /\ StartAcquire(p)
  /\ UNCHANGED <<pathLockVars, asking>>

Acquiring(p) == AcquireStep(p) /\ UNCHANGED <<pathLockVars, asking>>

Refused(p) ==
  /\ Refuse(p)
  /\ asking' = asking \ TasksOf(p)
  /\ UNCHANGED pathLockVars

\* acquire returns at once while the flag says the lock is held.
LockTaken(t) ==
  /\ t \in asking
  /\ lock[Owner(t)] \in Holding
  /\ Enqueue(t)
  /\ asking' = asking \ {t}
  /\ UNCHANGED advisoryVars

Mutate(t) == (Enter(t) \/ Leave(t)) /\ UNCHANGED <<advisoryVars, asking>>

Dispose(p) == (ReleaseUnlink(p) \/ ReleaseDone(p)) /\ UNCHANGED <<pathLockVars, asking>>

EndProcess(p) ==
  /\ End(p)
  /\ Vanish(KeysOf(p))
  /\ asking' = asking \ TasksOf(p)

StartProcess(p) == Restart(p) /\ UNCHANGED <<pathLockVars, asking>>

Time == GrowOld /\ UNCHANGED <<pathLockVars, asking>>

ProcessStep(p) ==
  \/ Acquire(p) \/ Acquiring(p) \/ Refused(p) \/ Dispose(p)
  \/ EndProcess(p) \/ StartProcess(p)

Next ==
  \/ \E t \in Task : Call(t) \/ LockTaken(t) \/ Mutate(t)
  \/ \E p \in Process : ProcessStep(p)
  \/ Time

Spec == Init /\ [][Next]_vars

\* An acquire that started runs to its end, and time passes.  Nobody has to
\* call, to dispose, to end or to start again.
FairSpec ==
  /\ Spec
  /\ \A p \in Process : WF_vars(Acquire(p) \/ Acquiring(p) \/ Refused(p))
  /\ WF_vars(Time)

-----------------------------------------------------------------------------
TypeOK ==
  /\ AdvisoryTypeOK
  /\ PathLockTypeOK
  /\ asking \subseteq Task

Alone(p) == alive[p] /\ \A q \in Process \ {p} : ~alive[q]

\* A lock that a crashed process left is not in the way for ever: a process
\* that stays the only one and keeps calling gets the lock, even where it has
\* the pid of the process that crashed (the maxAgeMs safety net).
Recovers ==
  \A p \in Process :
    (<>[]Alone(p) /\ []<>(asking \intersect TasksOf(p) # {})) => []<>(lock[p] \in Holding)
=============================================================================
