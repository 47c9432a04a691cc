----------------------------- MODULE AdvisoryLock -----------------------------
(***************************************************************************)
(* AdvisoryFileLock of packages/tekmemo/src/fs/utils/advisory-lock.ts: the *)
(* file .tekmemo/.lock, which the first mutating operation of a process    *)
(* creates and which it keeps until it disposes of the store or ends.      *)
(*                                                                         *)
(* Every file-system call is a step.  A file that was opened for creation  *)
(* has no content until it is written; a file that was unlinked while open *)
(* takes the content with it.  A process that crashes leaves its file, and *)
(* its pid may be used again.                                              *)
(***************************************************************************)
EXTENDS Naturals

CONSTANTS
  Process,   \* pids
  Nobody     \* the pid in a file without content

ASSUME ProcessAssumption == Nobody \notin Process

VARIABLES
  file,      \* the lock file: absent, or its pid and whether maxAgeMs passed
  opened,    \* opened[p]: the file that p is about to fill is still linked
  lock,      \* lock[p]: next step of p's acquire or release
  alive,     \* alive[p]: a process with pid p runs
  raced      \* history: two acquires overlapped, or a held lock grew old

advisoryVars == <<file, opened, lock, alive, raced>>

Absent == [there |-> FALSE, pid |-> Nobody, old |-> FALSE]
FileOf(p) == [there |-> TRUE, pid |-> p, old |-> FALSE]

Holding  == {"held", "release"}
Settled  == {"free"} \union Holding
Acquires(p) == alive[p] /\ lock[p] \notin Settled

AdvisoryInit ==
  /\ file   = Absent
  /\ opened = [p \in Process |-> FALSE]
  /\ lock   = [p \in Process |-> "free"]
  /\ alive  = [p \in Process |-> TRUE]
  /\ raced  = FALSE

Step(p, next) == lock' = [lock EXCEPT ![p] = next]

\* What the directory shows once the lock file is gone.
UnlinkFile ==
  /\ file' = Absent
  /\ opened' = [p \in Process |-> FALSE]

StartAcquire(p) ==
  /\ alive[p] /\ lock[p] = "free"
  /\ Step(p, "create")
  /\ raced' = (raced \/ \E q \in Process \ {p} : Acquires(q))
  /\ UNCHANGED <<file, opened, alive>>

CreateStep(p) == lock[p] \in {"create", "recreate"}

\* Variant: opened with flag "w".
OpenAny(p) ==
  /\ CreateStep(p)
  /\ file' = FileOf(Nobody)
  /\ opened' = [q \in Process |-> q = p]
  /\ Step(p, "fill")
  /\ UNCHANGED <<alive, raced>>

\* open(path, "wx") creates the file ...
OpenNew(p) ==
  /\ CreateStep(p)
  /\ ~file.there
  /\ file' = FileOf(Nobody)
  /\ opened' = [opened EXCEPT ![p] = TRUE]
  /\ Step(p, "fill")
  /\ UNCHANGED <<alive, raced>>

\* ... or finds that it exists.
FindExisting(p) ==
  /\ lock[p] = "create" /\ file.there
  /\ Step(p, "read")
  /\ UNCHANGED <<file, opened, alive, raced>>

\* Its content is written and the lock is held.
Fill(p) ==
  /\ lock[p] = "fill"
  /\ file' = IF opened[p] THEN FileOf(p) ELSE file
  /\ opened' = [opened EXCEPT ![p] = FALSE]
  /\ Step(p, "held")
  /\ UNCHANGED <<alive, raced>>

NamesLivePid == file.pid # Nobody /\ alive[file.pid]

\* Variant: the age does not count.
StaleByPid == ~NamesLivePid

\* readLock and isStale: no file, no content, a dead process, or too old.
Stale == ~(NamesLivePid /\ ~file.old)

JudgeStale(p) ==
  /\ lock[p] = "read" /\ Stale
  /\ Step(p, "unlink")
  /\ UNCHANGED <<file, opened, alive, raced>>

\* LockHeldError, also for the process that loses the race to re-create.
Refuse(p) ==
  /\ \/ lock[p] = "read" /\ ~Stale
     \/ lock[p] = "recreate" /\ file.there
  /\ Step(p, "free")
  /\ UNCHANGED <<file, opened, alive, raced>>

Unlink(p) ==
  /\ lock[p] = "unlink"
  /\ UnlinkFile
  /\ Step(p, "recreate")
  /\ UNCHANGED <<alive, raced>>

\* release: the file goes first, then the flag.
ReleaseUnlink(p) ==
  /\ lock[p] = "held"
  /\ UnlinkFile
  /\ Step(p, "release")
  /\ UNCHANGED <<alive, raced>>

ReleaseDone(p) ==
  /\ lock[p] = "release"
  /\ Step(p, "free")
  /\ UNCHANGED <<file, opened, alive, raced>>

\* The process ends.  On a regular exit the handler that acquire registered
\* (and release takes back first) unlinks the file.
End(p) ==
  /\ alive[p]
  /\ alive' = [alive EXCEPT ![p] = FALSE]
  /\ Step(p, "free")
  /\ \/ lock[p] = "held" /\ UnlinkFile
     \/ /\ opened' = [opened EXCEPT ![p] = FALSE]
        /\ UNCHANGED file
  /\ UNCHANGED raced

\* Another process gets the pid.
Restart(p) ==
  /\ ~alive[p]
  /\ alive' = [alive EXCEPT ![p] = TRUE]
  /\ UNCHANGED <<file, opened, lock, raced>>

\* maxAgeMs has passed since the time in the file.
GrowOld ==
  /\ file.pid # Nobody /\ ~file.old
  /\ file' = [file EXCEPT !.old = TRUE]
  /\ raced' = (raced \/ lock[file.pid] \in Holding)
  /\ UNCHANGED <<opened, lock, alive>>

AcquireStep(p) ==
  \/ OpenNew(p) \/ FindExisting(p) \/ Fill(p)
  \/ JudgeStale(p) \/ Unlink(p)

AdvisoryNext ==
  \/ \E p \in Process :
       \/ StartAcquire(p) \/ AcquireStep(p) \/ Refuse(p)
       \/ ReleaseUnlink(p) \/ ReleaseDone(p) \/ End(p) \/ Restart(p)
  \/ GrowOld

AdvisorySpec == AdvisoryInit /\ [][AdvisoryNext]_advisoryVars

-----------------------------------------------------------------------------
AdvisoryTypeOK ==
  /\ file \in [there : BOOLEAN, pid : Process \union {Nobody}, old : BOOLEAN]
  /\ opened \in [Process -> BOOLEAN]
  /\ lock \in [Process -> {"free", "create", "fill", "read", "unlink", "recreate",
                           "held", "release"}]
  /\ alive \in [Process -> BOOLEAN]
  /\ raced \in BOOLEAN

\* One process at most holds the lock.
Exclusive ==
  \A p, q \in Process : lock[p] = "held" /\ lock[q] = "held" => p = q

\* The lock is exclusive as long as no two acquires overlap and no holder keeps
\* it longer than maxAgeMs, whatever crashes leave behind: a partial file, a
\* dead pid, or one that runs again as another process (tryCreateOrReclaim).
ExclusiveUnlessRaced == ~raced => Exclusive
=============================================================================
