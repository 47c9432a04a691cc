-------------------------- MODULE LocalStoreProofs --------------------------
(***************************************************************************)
(* Proofs about LocalStore and the two locks it uses, for any processes,   *)
(* tasks and keys.  What is proved of each lock alone holds of the store,  *)
(* because the store uses each as its module describes.                    *)
(***************************************************************************)
EXTENDS LocalStore, TLAPS

(***************************************************************************)
(* The lock file.                                                          *)
(***************************************************************************)
\* A process that does not run has no part in the lock.
DeadInv == \A p \in Process : ~alive[p] => lock[p] = "free"

\* Nobody acquires at the same time as another; the holder's file is in place
\* and young; the file that is about to be filled is in place, and none holds
\* the lock when a file judged stale is about to go.
UnracedInv ==
  /\ \A p, q \in Process : lock[p] \notin Settled /\ lock[q] \notin Settled => p = q
  /\ \A p \in Process :
       /\ lock[p] = "held" => file = FileOf(p)
       /\ lock[p] = "fill" => opened[p] /\ file = FileOf(Nobody)
       /\ lock[p] = "unlink" => \A q \in Process : lock[q] # "held"

AdvisoryInv == AdvisoryTypeOK /\ DeadInv /\ (~raced => UnracedInv)

-----------------------------------------------------------------------------
LEMMA AdvisoryInvInit == AdvisoryInit => AdvisoryInv
<1> SUFFICES ASSUME AdvisoryInit PROVE AdvisoryInv
  OBVIOUS
<1>1. AdvisoryTypeOK
  BY DEF AdvisoryInit, AdvisoryTypeOK, Absent
<1>2. DeadInv /\ UnracedInv
  BY DEF AdvisoryInit, DeadInv, UnracedInv, Settled
<1> QED
  BY <1>1, <1>2 DEF AdvisoryInv

\* One lemma for each group of steps.
LEMMA AcquireSteps ==
  ASSUME AdvisoryInv, NEW p \in Process, StartAcquire(p) \/ AcquireStep(p) \/ Refuse(p)
  PROVE  AdvisoryInv'
<1> USE ProcessAssumption DEF AdvisoryInv, AdvisoryTypeOK, DeadInv, UnracedInv, FileOf, Settled,
                              Holding, Step
<1>1. CASE StartAcquire(p)
  <2>1. ~raced' => ~raced /\ \A q \in Process \ {p} : lock[q] \in Settled
    BY <1>1 DEF StartAcquire, Acquires
  <2> QED
    BY <1>1, <2>1 DEF StartAcquire
<1>2. CASE OpenNew(p)
  BY <1>2 DEF OpenNew, CreateStep
<1>3. CASE FindExisting(p)
  BY <1>3 DEF FindExisting
<1>4. CASE Fill(p)
  <2>1. AdvisoryTypeOK' /\ DeadInv'
    BY <1>4 DEF Fill
  <2>2. ASSUME ~raced
        PROVE  /\ opened[p] /\ file' = FileOf(p)
               /\ \A q \in Process \ {p} : lock[q] \in Settled /\ lock[q] # "held"
    BY <1>4, <2>2 DEF Fill
  <2>3. ASSUME ~raced PROVE UnracedInv'
    <3>1. \A q \in Process : lock'[q] = IF q = p THEN "held" ELSE lock[q]
      BY <1>4 DEF Fill
    <3> QED
      BY <2>2, <2>3, <3>1
  <2> QED
    BY <1>4, <2>1, <2>3 DEF Fill
<1>5. CASE JudgeStale(p)
  <2>1. ASSUME ~raced, NEW q \in Process, lock[q] = "held"
        PROVE  FALSE
    <3>1. file.pid = q /\ ~file.old /\ alive[q]
      BY <2>1
    <3> QED
      BY <1>5, <2>1, <3>1 DEF JudgeStale, Stale, NamesLivePid
  <2> QED
    BY <1>5, <2>1 DEF JudgeStale
<1>6. CASE Unlink(p)
  BY <1>6 DEF Unlink, UnlinkFile, Absent
<1>7. CASE Refuse(p)
  BY <1>7 DEF Refuse
<1> QED
  BY <1>1, <1>2, <1>3, <1>4, <1>5, <1>6, <1>7 DEF AcquireStep

LEMMA ReleaseSteps ==
  ASSUME AdvisoryInv, NEW p \in Process,
         ReleaseUnlink(p) \/ ReleaseDone(p) \/ End(p) \/ Restart(p)
  PROVE  AdvisoryInv'
<1> USE ProcessAssumption DEF AdvisoryInv, AdvisoryTypeOK, DeadInv, UnracedInv, FileOf, Settled,
                              Holding, Step
<1>1. CASE ReleaseUnlink(p)
  <2>1. ASSUME ~raced, NEW q \in Process
        PROVE  lock[q] # "fill" /\ (lock[q] = "held" => q = p)
    BY <1>1, <2>1 DEF ReleaseUnlink
  <2> QED
    BY <1>1, <2>1 DEF ReleaseUnlink, UnlinkFile, Absent
<1>2. CASE ReleaseDone(p)
  BY <1>2 DEF ReleaseDone
<1>3. CASE End(p) /\ lock[p] = "held" /\ UnlinkFile
  <2>1. ASSUME ~raced, NEW q \in Process
        PROVE  lock[q] # "fill" /\ (lock[q] = "held" => q = p)
    BY <1>3, <2>1
  <2> QED
    BY <1>3, <2>1 DEF End, UnlinkFile, Absent
<1>4. CASE End(p) /\ opened' = [opened EXCEPT ![p] = FALSE] /\ UNCHANGED file
  BY <1>4 DEF End
<1>5. CASE Restart(p)
  BY <1>5 DEF Restart
<1> QED
  BY <1>1, <1>2, <1>3, <1>4, <1>5 DEF End

LEMMA GrowOldStep ==
  ASSUME AdvisoryInv, GrowOld
  PROVE  AdvisoryInv'
<1> USE ProcessAssumption DEF AdvisoryInv, AdvisoryTypeOK, DeadInv, UnracedInv, FileOf, Holding,
                              GrowOld
<1>1. AdvisoryTypeOK' /\ DeadInv'
  OBVIOUS
<1>2. ASSUME ~raced' PROVE UnracedInv'
  <2>1. ~raced /\ file.pid # Nobody /\ lock[file.pid] \notin Holding
    BY <1>2
  <2>2. \A q \in Process : lock[q] # "held" /\ lock[q] # "fill"
    BY <2>1
  <2> QED
    BY <2>1, <2>2 DEF Settled
<1> QED
  BY <1>1, <1>2

LEMMA AdvisoryInvNext == AdvisoryInv /\ [AdvisoryNext]_advisoryVars => AdvisoryInv'
<1> SUFFICES ASSUME AdvisoryInv, [AdvisoryNext]_advisoryVars PROVE AdvisoryInv'
  OBVIOUS
<1>1. ASSUME NEW p \in Process, StartAcquire(p) \/ AcquireStep(p) \/ Refuse(p)
      PROVE  AdvisoryInv'
  BY <1>1, AcquireSteps
<1>2. ASSUME NEW p \in Process, ReleaseUnlink(p) \/ ReleaseDone(p) \/ End(p) \/ Restart(p)
      PROVE  AdvisoryInv'
  BY <1>2, ReleaseSteps
<1>3. CASE GrowOld
  BY <1>3, GrowOldStep
<1>4. CASE UNCHANGED advisoryVars
  BY <1>4 DEF advisoryVars, AdvisoryInv, AdvisoryTypeOK, DeadInv, UnracedInv
<1> QED
  BY <1>1, <1>2, <1>3, <1>4 DEF AdvisoryNext

-----------------------------------------------------------------------------
\* Every reachable state of the lock file has the inductive invariant.
THEOREM Guarded == AdvisorySpec => []AdvisoryInv
  BY AdvisoryInvInit, AdvisoryInvNext, PTL DEF AdvisorySpec

\* The lock file admits one process, whatever crashes left behind, as long as
\* no two acquires overlap and no holder is older than maxAgeMs.
THEOREM OneHolder == AdvisorySpec => []ExclusiveUnlessRaced
<1>1. AdvisoryInv => ExclusiveUnlessRaced
  BY DEF AdvisoryInv, UnracedInv, ExclusiveUnlessRaced, Exclusive, FileOf
<1> QED
  BY <1>1, Guarded, PTL

-----------------------------------------------------------------------------
(***************************************************************************)
(* The queues of the paths.                                                *)
(***************************************************************************)
\* A task waits for the task that called just before it, and has all before it
\* ahead; the entry of queues belongs to the task that called last.
ChainInv ==
  /\ \A t \in Task :
       /\ turn[t] = "run" => prev[t] = None
       /\ turn[t] = "out" => prev[t] = None /\ ahead[t] = {}
       /\ prev[t] = None => ahead[t] = {}
       /\ prev[t] # None =>
            /\ prev[t] \in Queued(KeyOf[t])
            /\ ahead[t] = ahead[prev[t]] \union {prev[t]}
       /\ ahead[t] \subseteq Queued(KeyOf[t]) \ {t}
  /\ \A k \in Key :
       /\ tail[k] = None => Queued(k) = {}
       /\ tail[k] # None =>
            /\ tail[k] \in Queued(k)
            /\ Queued(k) = ahead[tail[k]] \union {tail[k]}
       /\ \A t, u \in Queued(k) : t = u \/ t \in ahead[u] \/ u \in ahead[t]

PathInv == PathLockTypeOK /\ ChainInv

-----------------------------------------------------------------------------
LEMMA PathInvInit == PathLockInit => PathInv
  BY KeyAssumption DEF PathLockInit, PathInv, PathLockTypeOK, ChainInv, Queued

LEMMA PathInvEnqueue ==
  ASSUME PathInv, NEW t \in Task, Enqueue(t)
  PROVE  PathInv'
<1> DEFINE k == KeyOf[t]
<1> USE KeyAssumption DEF PathInv, PathLockTypeOK
<1>1. k \in Key /\ \A u \in Task : KeyOf[u] \in Key
  OBVIOUS
<1>2. \A j \in Key : Queued(j)' = IF j = k THEN Queued(j) \union {t} ELSE Queued(j)
  BY DEF Enqueue, Queued
<1>3. t \notin Queued(k) /\ t # None /\ \A u \in Task : t \notin ahead[u] /\ prev[u] # t
  BY DEF Enqueue, ChainInv, Queued
<1>4. PathLockTypeOK'
  BY <1>1 DEF Enqueue, Queued
<1>5. \A u \in Task \ {t} : turn'[u] = turn[u] /\ prev'[u] = prev[u] /\ ahead'[u] = ahead[u]
  BY DEF Enqueue
<1>6. turn'[t] = "wait" /\ prev'[t] = tail[k] /\ ahead'[t] = Queued(k) /\ tail'[k] = t
  BY DEF Enqueue
<1>7. \A j \in Key \ {k} : tail'[j] = tail[j]
  BY DEF Enqueue
<1>8. ASSUME NEW u \in Task
      PROVE  /\ turn'[u] = "run" => prev'[u] = None
             /\ turn'[u] = "out" => prev'[u] = None /\ ahead'[u] = {}
             /\ prev'[u] = None => ahead'[u] = {}
             /\ prev'[u] # None =>
                  /\ prev'[u] \in Queued(KeyOf[u])'
                  /\ ahead'[u] = ahead'[prev'[u]] \union {prev'[u]}
             /\ ahead'[u] \subseteq Queued(KeyOf[u])' \ {u}
  <2>1. CASE u = t
    <3>1. tail[k] # None => tail[k] \in Queued(k) /\ tail[k] # t
      BY <1>1, <1>3 DEF ChainInv
    <3>2. tail[k] # None => ahead'[tail[k]] = ahead[tail[k]]
      BY <3>1, <1>5 DEF Queued
    <3> QED
      BY <2>1, <3>1, <3>2, <1>1, <1>2, <1>3, <1>6 DEF ChainInv
  <2>2. CASE u # t
    <3>1. prev[u] # None => prev[u] # t /\ prev[u] \in Task
      BY <1>3
    <3>2. prev[u] # None => ahead'[prev[u]] = ahead[prev[u]]
      BY <3>1, <1>5
    <3> QED
      BY <2>2, <3>1, <3>2, <1>1, <1>2, <1>5 DEF ChainInv
  <2> QED
    BY <2>1, <2>2
<1>9. ASSUME NEW j \in Key
      PROVE  /\ tail'[j] = None => Queued(j)' = {}
             /\ tail'[j] # None =>
                  /\ tail'[j] \in Queued(j)'
                  /\ Queued(j)' = ahead'[tail'[j]] \union {tail'[j]}
             /\ \A u, v \in Queued(j)' : u = v \/ u \in ahead'[v] \/ v \in ahead'[u]
  <2>1. CASE j = k
    BY <2>1, <1>2, <1>3, <1>5, <1>6 DEF ChainInv, Queued
  <2>2. CASE j # k
    <3>1. \A u \in Queued(j) : u # t /\ u \in Task
      BY <2>2 DEF Queued
    <3>2. \A u \in Queued(j) : ahead'[u] = ahead[u]
      BY <3>1, <1>5
    <3> QED
      BY <2>2, <3>2, <1>2, <1>7 DEF ChainInv
  <2> QED
    BY <2>1, <2>2
<1> QED
  BY <1>4, <1>8, <1>9 DEF ChainInv

LEMMA PathInvEnter ==
  ASSUME PathInv, NEW t \in Task, Enter(t)
  PROVE  PathInv'
<1>1. \A j \in Key : Queued(j)' = Queued(j)
  BY DEF Enter, Queued, PathInv, PathLockTypeOK
<1>2. PathLockTypeOK'
  BY DEF Enter, PathInv, PathLockTypeOK
<1>3. \A u \in Task : /\ turn'[u] = IF u = t THEN "run" ELSE turn[u]
                      /\ turn[t] = "wait" /\ prev[t] = None
                      /\ KeyOf[u] \in Key
  BY KeyAssumption DEF Enter, PathInv, PathLockTypeOK
<1>4. prev' = prev /\ tail' = tail /\ ahead' = ahead
  BY DEF Enter
<1>5. ChainInv'
  BY <1>1, <1>3, <1>4 DEF PathInv, ChainInv
<1> QED
  BY <1>2, <1>5 DEF PathInv

LEMMA PathInvLeave ==
  ASSUME PathInv, NEW t \in Task, Leave(t)
  PROVE  PathInv'
<1> DEFINE k == KeyOf[t]
<1> USE KeyAssumption DEF PathInv, PathLockTypeOK
<1>1. k \in Key /\ t # None /\ \A u \in Task : KeyOf[u] \in Key
  OBVIOUS
<1>2. turn[t] = "run" /\ prev[t] = None /\ ahead[t] = {} /\ t \in Queued(k)
  BY DEF Leave, ChainInv, Queued
<1>3. \A j \in Key : Queued(j)' = Queued(j) \ {t}
  BY DEF Leave, Queued
<1>4. \A u \in Task : /\ ahead'[u] = ahead[u] \ {t}
                      /\ prev'[u] = IF prev[u] = t THEN None ELSE prev[u]
                      /\ turn'[u] = IF u = t THEN "out" ELSE turn[u]
  BY DEF Leave
<1>5. \A j \in Key : tail'[j] = IF tail[j] = t THEN None ELSE tail[j]
  <2>1. \A j \in Key \ {k} : tail[j] # t
    BY <1>1 DEF ChainInv, Queued
  <2> QED
    BY <2>1, <1>1 DEF Leave, Unqueue
<1>6. PathLockTypeOK'
  <2>1. \A j \in Key : tail'[j] # None => tail'[j] \in Task \ {t}
    BY <1>5
  <2>2. turn' \in [Task -> {"out", "wait", "run"}] /\ prev' \in [Task -> Task \cup {None}]
    BY DEF Leave
  <2>3. tail' \in [Key -> Task \cup {None}] /\ ahead' \in [Task -> SUBSET Task]
    BY DEF Leave, Unqueue
  <2>4. \A j \in Key : tail'[j] # None => turn'[tail'[j]] # "out"
    BY <2>1, <1>4, <1>5
  <2> QED
    BY <2>2, <2>3, <2>4
<1>7. ASSUME NEW u \in Task
      PROVE  /\ turn'[u] = "run" => prev'[u] = None
             /\ turn'[u] = "out" => prev'[u] = None /\ ahead'[u] = {}
             /\ prev'[u] = None => ahead'[u] = {}
             /\ prev'[u] # None =>
                  /\ prev'[u] \in Queued(KeyOf[u])'
                  /\ ahead'[u] = ahead'[prev'[u]] \union {prev'[u]}
             /\ ahead'[u] \subseteq Queued(KeyOf[u])' \ {u}
  <2>1. CASE prev[u] = t
    <3>1. ahead[u] = {t}
      BY <2>1, <1>1, <1>2 DEF ChainInv
    <3>2. ahead'[u] = {} /\ prev'[u] = None
      BY <2>1, <3>1, <1>4
    <3> QED
      BY <3>2
  <2>2. CASE prev[u] # t /\ prev[u] # None
    <3>1. prev[u] \in Task /\ prev'[u] = prev[u]
      BY <2>2, <1>4
    <3>2. ahead'[prev[u]] = ahead[prev[u]] \ {t}
      BY <3>1, <1>4
    <3> QED
      BY <2>2, <3>1, <3>2, <1>1, <1>2, <1>3, <1>4 DEF ChainInv
  <2>3. CASE prev[u] = None
    BY <2>3, <1>1, <1>4 DEF ChainInv
  <2> QED
    BY <2>1, <2>2, <2>3
<1>8. ASSUME NEW j \in Key
      PROVE  /\ tail'[j] = None => Queued(j)' = {}
             /\ tail'[j] # None =>
                  /\ tail'[j] \in Queued(j)'
                  /\ Queued(j)' = ahead'[tail'[j]] \union {tail'[j]}
             /\ \A u, v \in Queued(j)' : u = v \/ u \in ahead'[v] \/ v \in ahead'[u]
  <2>1. \A u \in Queued(j) : u \in Task /\ ahead'[u] = ahead[u] \ {t}
    BY <1>4 DEF Queued
  <2>2. CASE tail[j] = t
    <3>1. Queued(j) = {t}
      BY <2>2, <1>1, <1>2 DEF ChainInv
    <3>2. Queued(j)' = {} /\ tail'[j] = None
      BY <2>2, <3>1, <1>3, <1>5
    <3> QED
      BY <3>2
  <2>3. CASE tail[j] # t
    BY <2>1, <2>3, <1>3, <1>5 DEF ChainInv
  <2> QED
    BY <2>2, <2>3
<1> QED
  BY <1>6, <1>7, <1>8 DEF ChainInv

LEMMA PathInvVanish ==
  ASSUME PathInv, NEW ks \in SUBSET Key, Vanish(ks)
  PROVE  PathInv'
<1> USE KeyAssumption DEF PathInv, PathLockTypeOK
<1>1. \A j \in Key : Queued(j)' = IF j \in ks THEN {} ELSE Queued(j)
  BY DEF Vanish, Queued
<1>2. \A u \in Task : KeyOf[u] \in ks =>
        turn'[u] = "out" /\ prev'[u] = None /\ ahead'[u] = {}
  BY DEF Vanish
<1>3. \A u \in Task : KeyOf[u] \notin ks =>
        turn'[u] = turn[u] /\ prev'[u] = prev[u] /\ ahead'[u] = ahead[u]
  BY DEF Vanish
<1>4. \A j \in Key : tail'[j] = IF j \in ks THEN None ELSE tail[j]
  BY DEF Vanish
<1>5. \A j \in Key \ ks : tail[j] # None => tail[j] \in Task /\ KeyOf[tail[j]] = j
  BY DEF ChainInv, Queued
<1>6. PathLockTypeOK'
  BY <1>3, <1>4, <1>5 DEF Vanish
<1>7. ASSUME NEW u \in Task
      PROVE  /\ turn'[u] = "run" => prev'[u] = None
             /\ turn'[u] = "out" => prev'[u] = None /\ ahead'[u] = {}
             /\ prev'[u] = None => ahead'[u] = {}
             /\ prev'[u] # None =>
                  /\ prev'[u] \in Queued(KeyOf[u])'
                  /\ ahead'[u] = ahead'[prev'[u]] \union {prev'[u]}
             /\ ahead'[u] \subseteq Queued(KeyOf[u])' \ {u}
  <2>1. CASE KeyOf[u] \in ks
    BY <2>1, <1>2
  <2>2. CASE KeyOf[u] \notin ks
    <3>1. prev[u] # None => prev[u] \in Task /\ KeyOf[prev[u]] = KeyOf[u]
      BY DEF ChainInv, Queued
    <3>2. prev[u] # None => ahead'[prev[u]] = ahead[prev[u]]
      BY <2>2, <3>1, <1>3
    <3> QED
      BY <2>2, <3>2, <1>1, <1>3 DEF ChainInv
  <2> QED
    BY <2>1, <2>2
<1>8. ASSUME NEW j \in Key
      PROVE  /\ tail'[j] = None => Queued(j)' = {}
             /\ tail'[j] # None =>
                  /\ tail'[j] \in Queued(j)'
                  /\ Queued(j)' = ahead'[tail'[j]] \union {tail'[j]}
             /\ \A u, v \in Queued(j)' : u = v \/ u \in ahead'[v] \/ v \in ahead'[u]
  <2>1. CASE j \in ks
    BY <2>1, <1>1, <1>4
  <2>2. CASE j \notin ks
    <3>1. \A u \in Queued(j) : ahead'[u] = ahead[u]
      BY <2>2, <1>3 DEF Queued
    <3> QED
      BY <2>2, <3>1, <1>1, <1>4 DEF ChainInv
  <2> QED
    BY <2>1, <2>2
<1> QED
  BY <1>6, <1>7, <1>8 DEF ChainInv

LEMMA PathInvNext == PathInv /\ [PathLockNext]_pathLockVars => PathInv'
<1> SUFFICES ASSUME PathInv, [PathLockNext]_pathLockVars PROVE PathInv'
  OBVIOUS
<1>1. ASSUME NEW t \in Task, Enqueue(t) PROVE PathInv'
  BY <1>1, PathInvEnqueue
<1>2. ASSUME NEW t \in Task, Enter(t) PROVE PathInv'
  BY <1>2, PathInvEnter
<1>3. ASSUME NEW t \in Task, Leave(t) PROVE PathInv'
  BY <1>3, PathInvLeave
<1>4. ASSUME NEW ks \in SUBSET Key, Vanish(ks) PROVE PathInv'
  BY <1>4, PathInvVanish
<1>5. CASE UNCHANGED pathLockVars
  BY <1>5 DEF pathLockVars, PathInv, PathLockTypeOK, ChainInv, Queued
<1> QED
  BY <1>1, <1>2, <1>3, <1>4, <1>5 DEF PathLockNext

-----------------------------------------------------------------------------
\* The chain of promises is a queue: every reachable state of PathLock has the
\* inductive invariant above.
THEOREM Chained == PathLockSpec => []PathInv
  BY PathInvInit, PathInvNext, PTL DEF PathLockSpec

\* Tasks on a path exclude each other and run in the order in which
\* runExclusive was called, however many call, leave and call again.
THEOREM RunInTurn == PathLockSpec => []InTurn
<1>1. PathInv => InTurn
  BY KeyAssumption DEF PathInv, PathLockTypeOK, ChainInv, InTurn, Queued
<1> QED
  BY <1>1, Chained, PTL

-----------------------------------------------------------------------------
(***************************************************************************)
(* The store.                                                              *)
(***************************************************************************)
LEMMA StepsOfBothLocks ==
  ASSUME Next
  PROVE  [AdvisoryNext]_advisoryVars /\ [PathLockNext]_pathLockVars
<1>1. ASSUME NEW t \in Task, Call(t) \/ LockTaken(t) \/ Mutate(t)
      PROVE  UNCHANGED advisoryVars /\ [PathLockNext]_pathLockVars
  BY <1>1 DEF Call, LockTaken, Mutate, PathLockNext
<1>2. ASSUME NEW p \in Process,
             Acquire(p) \/ Acquiring(p) \/ Refused(p) \/ Dispose(p) \/ StartProcess(p)
      PROVE  AdvisoryNext /\ UNCHANGED pathLockVars
  BY <1>2 DEF Acquire, Acquiring, Refused, Dispose, StartProcess, AdvisoryNext
<1>3. ASSUME NEW p \in Process, EndProcess(p)
      PROVE  AdvisoryNext /\ PathLockNext
  <2>1. KeysOf(p) \in SUBSET Key
    BY DEF KeysOf
  <2> QED
    BY <1>3, <2>1 DEF EndProcess, AdvisoryNext, PathLockNext
<1>4. ASSUME Time
      PROVE  AdvisoryNext /\ UNCHANGED pathLockVars
  BY <1>4 DEF Time, AdvisoryNext
<1> QED
  BY <1>1, <1>2, <1>3, <1>4 DEF Next, ProcessStep

\* Whatever the operations, disposals and crashes of the store do, the lock
\* file only takes the steps of AdvisoryLock, and the queues those of PathLock.
THEOREM UsesBothLocks == Spec => AdvisorySpec /\ PathLockSpec
<1>1. Init => AdvisoryInit /\ PathLockInit
  BY DEF Init
<1>2. [Next]_vars => [AdvisoryNext]_advisoryVars /\ [PathLockNext]_pathLockVars
  BY StepsOfBothLocks DEF vars
<1> QED
  BY <1>1, <1>2, PTL DEF Spec, AdvisorySpec, PathLockSpec

\* Every reachable state of the store is well typed, for any processes, tasks
\* and paths.
THEOREM StoreTypeCorrect == Spec => []TypeOK
<1>1. Init => asking \subseteq Task
  BY DEF Init
<1>2. asking \subseteq Task /\ [Next]_vars => (asking \subseteq Task)'
  BY DEF Next, vars, Call, LockTaken, Mutate, ProcessStep, Acquire, Acquiring, Refused,
         Dispose, EndProcess, StartProcess, Time
<1>3. Spec => [](asking \subseteq Task)
  BY <1>1, <1>2, PTL DEF Spec
<1>4. AdvisoryInv /\ PathInv /\ asking \subseteq Task => TypeOK
  BY DEF AdvisoryInv, PathInv, TypeOK
<1> QED
  BY <1>3, <1>4, UsesBothLocks, Guarded, Chained, PTL

\* Operations on a file of the store run alone, in the order they were called.
THEOREM StoreInTurn == Spec => []InTurn
  BY UsesBothLocks, RunInTurn, PTL

\* One process at most holds the lock of the directory, as long as no two
\* acquires overlap and no holder is older than maxAgeMs.
THEOREM StoreExclusive == Spec => []ExclusiveUnlessRaced
  BY UsesBothLocks, OneHolder, PTL
=============================================================================
