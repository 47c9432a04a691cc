----------------------------- MODULE MemoryLease -----------------------------
(***************************************************************************)
(* InMemoryLeaseManager and withMemoryLease of                             *)
(* packages/tekmemo/src/agentfs/leases: one store's lease, and the workers *)
(* that run an operation under it.                                         *)
(*                                                                         *)
(* A lease is kept as the time it has left; expiresAt <= now is "no time   *)
(* left".  Nothing renews a lease on its own and nothing stops the         *)
(* operation when it runs out, so an operation may outlive its lease.      *)
(* Workers may share an owner id: the manager cannot tell them apart.      *)
(***************************************************************************)
EXTENDS Naturals

CONSTANTS
  Worker,   \* those that run an operation under the lease
  Owner,    \* owner ids
  TTL,      \* times to live they ask for
  Nil

ASSUME TTLAssumption == TTL \subseteq Nat \ {0}
ASSUME NilAssumption == Nil \notin Owner \union [owner : Owner, left : Nat]

VARIABLES
  lease,    \* the manager's record: owner and time left, or Nil
  turn      \* turn[w]: the owner id under which w's operation runs, or Nil,
            \* and, as history, the time left of what w was granted and
            \* whether a namesake has since taken, changed or released the lease

leaseVars == <<lease, turn>>

NoTurn == [owner |-> Nil, left |-> 0, disturbed |-> FALSE]

LeaseInit ==
  /\ lease = Nil
  /\ turn  = [w \in Worker |-> NoTurn]

Live == lease # Nil /\ lease.left > 0

Runs(w) == turn[w].owner # Nil
Namesakes(w, o) == {v \in Worker \ {w} : turn[v].owner = o}

\* w's turn becomes t; those that run under owner id o are disturbed.
TurnOf(w, o, t) ==
  turn' = [v \in Worker |->
             IF v = w THEN t
             ELSE IF v \in Namesakes(w, o) THEN [turn[v] EXCEPT !.disturbed = TRUE]
             ELSE turn[v]]

Granted(w, o, ttl) ==
  /\ lease' = [owner |-> o, left |-> ttl]
  /\ TurnOf(w, o, [owner |-> o, left |-> ttl, disturbed |-> FALSE])

-----------------------------------------------------------------------------
\* Variant: any recorded lease counts, also one that has run out.
FreeForRecorded(o) == lease # Nil => lease.owner = o

\* Variant: an active lease of another owner does not count.
FreeForAll(o) == o \in Owner

\* No active lease, or one of the same owner (re-entrance).
FreeFor(o) == Live => lease.owner = o

\* acquire returned true: the operation runs.
Acquire(w, o) ==
  /\ ~Runs(w) /\ FreeFor(o)
  /\ \E ttl \in TTL : Granted(w, o, ttl)

\* The operation asks for more time.  A refusal changes nothing.
Extend(w) ==
  /\ Runs(w) /\ Live /\ lease.owner = turn[w].owner
  /\ \E ttl \in TTL : Granted(w, turn[w].owner, ttl)

\* The operation returned or threw (finally).
Release(w) ==
  /\ Runs(w)
  /\ lease' = IF lease # Nil /\ lease.owner = turn[w].owner THEN Nil ELSE lease
  /\ TurnOf(w, turn[w].owner, NoTurn)

\* getLease drops a lease that has run out.
Inspect ==
  /\ lease # Nil /\ lease.left = 0
  /\ lease' = Nil
  /\ UNCHANGED turn

Less(n) == IF n = 0 THEN 0 ELSE n - 1

Tick ==
  /\ Live \/ \E w \in Worker : turn[w].left > 0
  /\ lease' = IF lease = Nil THEN Nil ELSE [lease EXCEPT !.left = Less(@)]
  /\ turn'  = [w \in Worker |-> [turn[w] EXCEPT !.left = Less(@)]]

LeaseNext ==
  \/ Inspect \/ Tick
  \/ \E w \in Worker : (\E o \in Owner : Acquire(w, o)) \/ Extend(w) \/ Release(w)

LeaseSpec == LeaseInit /\ [][LeaseNext]_leaseVars

-----------------------------------------------------------------------------
\* The lease and the turns have their types.
LeaseTypeOK ==
  /\ lease \in {Nil} \union [owner : Owner, left : Nat]
  /\ turn \in [Worker -> [owner : {Nil} \union Owner, left : Nat, disturbed : BOOLEAN]]

\* w's operation runs, within the time it was granted, and nobody of its owner
\* id has interfered.
Covered(w) == Runs(w) /\ turn[w].left > 0 /\ ~turn[w].disturbed

\* An operation has the store to itself until its lease runs out, unless
\* another one runs under the same owner id (withMemoryLease, acquire,
\* release).
ExclusiveWhileCovered ==
  \A v, w \in Worker : Covered(v) /\ Covered(w) => v = w

\* What it rests on: the lease of a covered operation is in the manager.
CoveredHoldsLease ==
  \A w \in Worker :
    Covered(w) => lease # Nil /\ lease.owner = turn[w].owner /\ lease.left = turn[w].left
=============================================================================
