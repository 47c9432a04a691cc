------------------------- MODULE AgentSessionProofs -------------------------
(***************************************************************************)
(* What holds of MemoryLease and AgentSession for every set of workers,    *)
(* owners, stores and texts, any times to live and any number of calls:    *)
(* an operation has the store to itself while its lease covers it, no      *)
(* secret text gets into the notes, no append takes a note away, and the   *)
(* note that a call says it wrote is published, or in notes.md where the   *)
(* client does not sync.                                                   *)
(***************************************************************************)
EXTENDS AgentSession, SequenceTheorems, TLAPS

(***************************************************************************)
(* The lease.  CoveredHoldsLease is inductive with the types, and two      *)
(* covered operations would both be the lease's owner, of which the later  *)
(* has disturbed the earlier.                                              *)
(***************************************************************************)

\* Of two operations under one owner id one is disturbed.
OneUndisturbed ==
  \A v, w \in Worker : Covered(v) /\ Covered(w) /\ turn[v].owner = turn[w].owner => v = w

LeaseInv == LeaseTypeOK /\ CoveredHoldsLease /\ OneUndisturbed

\* The manager starts without a lease.
LEMMA LeaseInitInv == LeaseInit => LeaseInv
  BY NilAssumption
     DEF LeaseInit, LeaseInv, LeaseTypeOK, CoveredHoldsLease, OneUndisturbed,
         Covered, Runs, NoTurn

\* Granting time to w keeps the invariant if the lease is free for the owner.
LEMMA GrantedKeeps ==
  ASSUME LeaseInv, NEW w \in Worker, NEW o \in Owner, NEW ttl \in TTL,
         FreeFor(o), Granted(w, o, ttl)
  PROVE  LeaseInv'
<1>1. ttl \in Nat /\ ttl > 0
  BY TTLAssumption
<1>2. LeaseTypeOK'
  BY <1>1 DEF LeaseInv, LeaseTypeOK, Granted, TurnOf
<1>3. ASSUME NEW v \in Worker, v # w, Covered(v)'
      PROVE  FALSE
  <2>1. turn'[v] = turn[v] /\ Covered(v) /\ turn[v].owner # o
    BY <1>3 DEF Granted, TurnOf, Namesakes, Covered, Runs, LeaseInv, LeaseTypeOK
  <2> QED
    BY <2>1 DEF LeaseInv, CoveredHoldsLease, FreeFor, Live, Covered, LeaseTypeOK
<1>4. lease' # Nil /\ lease'.owner = o /\ lease'.left = ttl
  BY <1>1, NilAssumption DEF Granted
<1>5. turn'[w] = [owner |-> o, left |-> ttl, disturbed |-> FALSE]
  BY DEF Granted, TurnOf, LeaseInv, LeaseTypeOK
<1>6. CoveredHoldsLease'
  BY <1>3, <1>4, <1>5 DEF CoveredHoldsLease
<1> QED
  BY <1>2, <1>3, <1>6 DEF LeaseInv, OneUndisturbed

\* A release leaves only operations covered that were so, and their lease.
LEMMA ReleaseKeeps ==
  ASSUME LeaseInv, NEW w \in Worker, Release(w)
  PROVE  LeaseInv'
<1>1. LeaseTypeOK'
  BY DEF LeaseInv, LeaseTypeOK, Release, TurnOf, NoTurn
<1>2. ASSUME NEW v \in Worker, Covered(v)'
      PROVE  v # w /\ Covered(v) /\ turn'[v] = turn[v] /\ turn[v].owner # turn[w].owner
  BY <1>2 DEF Release, TurnOf, NoTurn, Namesakes, Covered, Runs, LeaseInv, LeaseTypeOK
<1>3. CoveredHoldsLease'
  BY <1>2 DEF CoveredHoldsLease, LeaseInv, Release
<1>4. OneUndisturbed'
  BY <1>2 DEF OneUndisturbed, LeaseInv
<1> QED
  BY <1>1, <1>3, <1>4 DEF LeaseInv

\* Time runs for a lease and for what it covers alike.
LEMMA TickKeeps ==
  ASSUME LeaseInv, Tick
  PROVE  LeaseInv'
<1>1. \A n \in Nat : Less(n) \in Nat /\ (Less(n) > 0 => n > 0)
  BY DEF Less
<1>2. LeaseTypeOK'
  BY <1>1 DEF LeaseInv, LeaseTypeOK, Tick
<1>3. ASSUME NEW v \in Worker, Covered(v)'
      PROVE  /\ Covered(v) /\ turn'[v].owner = turn[v].owner
             /\ turn'[v].left = Less(turn[v].left)
  BY <1>1, <1>3 DEF Tick, Covered, Runs, LeaseInv, LeaseTypeOK
<1>4. CoveredHoldsLease'
  <2> SUFFICES ASSUME NEW v \in Worker, Covered(v)'
               PROVE  /\ lease' # Nil /\ lease'.owner = turn'[v].owner
                      /\ lease'.left = turn'[v].left
    BY DEF CoveredHoldsLease
  <2>1. /\ lease \in [owner : Owner, left : Nat] /\ lease.owner = turn[v].owner
        /\ lease.left = turn[v].left
    BY <1>3 DEF CoveredHoldsLease, LeaseInv, LeaseTypeOK
  <2>2. lease' = [lease EXCEPT !.left = Less(lease.left)]
    BY <2>1, NilAssumption DEF Tick
  <2> QED
    BY <1>1, <1>3, <2>1, <2>2, NilAssumption
<1>5. OneUndisturbed'
  BY <1>3 DEF OneUndisturbed, LeaseInv
<1> QED
  BY <1>2, <1>4, <1>5 DEF LeaseInv

\* Every step of the manager keeps the invariant.
LEMMA LeaseNextInv == LeaseInv /\ [LeaseNext]_leaseVars => LeaseInv'
<1> SUFFICES ASSUME LeaseInv, [LeaseNext]_leaseVars PROVE LeaseInv'
  OBVIOUS
<1>1. CASE \E w \in Worker : \E o \in Owner : Acquire(w, o)
  BY <1>1, GrantedKeeps DEF Acquire
<1>2. ASSUME NEW w \in Worker, Extend(w) PROVE LeaseInv'
  <2>1. turn[w].owner \in Owner /\ FreeFor(turn[w].owner)
    BY <1>2 DEF Extend, Runs, FreeFor, LeaseInv, LeaseTypeOK
  <2> QED
    BY <1>2, <2>1, GrantedKeeps DEF Extend
<1>3. CASE \E w \in Worker : Release(w)
  BY <1>3, ReleaseKeeps
<1>4. CASE Inspect
  BY <1>4 DEF Inspect, LeaseInv, LeaseTypeOK, CoveredHoldsLease, OneUndisturbed,
              Covered, Runs
<1>5. CASE Tick
  BY <1>5, TickKeeps
<1>6. CASE UNCHANGED leaseVars
  BY <1>6 DEF leaseVars, LeaseInv, LeaseTypeOK, CoveredHoldsLease, OneUndisturbed,
              Covered, Runs
<1> QED
  BY <1>1, <1>2, <1>3, <1>4, <1>5, <1>6 DEF LeaseNext

\* The invariant excludes two covered operations.
LEMMA LeaseInvExcludes == LeaseInv => ExclusiveWhileCovered
  BY DEF LeaseInv, CoveredHoldsLease, OneUndisturbed, ExclusiveWhileCovered

\* InMemoryLeaseManager and withMemoryLease on their own: an operation has the
\* store to itself while its lease covers it.
THEOREM LeaseExclusive == LeaseSpec => [](LeaseTypeOK /\ ExclusiveWhileCovered)
<1>1. LeaseInv => LeaseTypeOK
  BY DEF LeaseInv
<1> QED
  BY <1>1, LeaseInitInv, LeaseNextInv, LeaseInvExcludes, PTL DEF LeaseSpec

(***************************************************************************)
(* The sessions.  Their steps are steps of the manager or leave it alone.  *)
(* What a session may append is decided on the text it extracted, which    *)
(* nothing changes until the append: SecretInv says so of every copy of    *)
(* the notes, also those that an append or a push has read.                *)
(***************************************************************************)

Clean(q) == \A i \in DOMAIN q : q[i][2] \notin Secret

\* A call that is about to write has passed the gate, what it has read is clean,
\* and a caller that waits has given an owner id.
Sound(r) ==
  /\ r \in Call /\ Clean(r.seen)
  /\ r.step = "write" => r.text # Nil /\ r.text \notin Secret
  /\ r.step = "wait" => r.owner \in Owner

CallsInv == session \in [Worker -> Call] /\ \A s \in Worker : Sound(session[s])

FilesInv ==
  /\ notes \in Seq(Note) /\ remote \in Seq(Note) /\ Clean(notes) /\ Clean(remote)
  /\ work \in [Worker -> {Nil, "scaffold"} \union Text]

SessionInv == LeaseInv /\ CallsInv /\ FilesInv

\* The steps that touch the lease, and those that leave it alone.
LeaseStep(s) == TakeLease(s) \/ ExtendLease(s) \/ Settle(s)

LEMMA NextIsLeaseStep ==
  ASSUME CallsInv, [Next]_vars
  PROVE  [LeaseNext]_leaseVars
<1>1. CASE \E s \in Worker : LeaseStep(s)
  BY <1>1 DEF LeaseStep, TakeLease, ExtendLease, Settle, CallsInv, Sound, At, LeaseNext
<1>2. CASE Time
  BY <1>2 DEF Time, LeaseNext
<1>3. CASE UNCHANGED vars
  BY <1>3 DEF vars
<1>4. CASE \E s \in Worker :
             \/ \E t \in Text : AgentWrite(s, t)
             \/ PullSkipped(s) \/ Pull(s) \/ Look(s) \/ Scaffold(s)
             \/ Complete(s) \/ Extract(s) \/ Skip(s)
             \/ AppendNatively(s) \/ ReadNotes(s) \/ WriteNotes(s) \/ AppendFails(s)
             \/ PushSkipped(s) \/ PushRead(s) \/ Publish(s) \/ Fails(s)
  BY <1>4 DEF AgentWrite, PullSkipped, PushSkipped, Pull, Look, Scaffold, Complete, Extract, Skip, AppendNatively,
              ReadNotes, WriteNotes, AppendFails, PushRead, Publish, Fails
<1> QED
  BY <1>1, <1>2, <1>3, <1>4 DEF Next, LeaseStep

\* Appending an allowed note keeps a clean sequence clean.
LEMMA AppendClean ==
  ASSUME NEW s \in Worker, NEW q \in Seq(Note), CallsInv, Clean(q), Allowed(s)
  PROVE  Append(q, NoteOf(s)) \in Seq(Note) /\ Clean(Append(q, NoteOf(s)))
<1>1. NoteOf(s) \in Note /\ NoteOf(s)[2] = session[s].text
  BY DEF NoteOf, Note, Allowed, CallsInv, Call
<1>2. /\ Append(q, NoteOf(s)) \in Seq(Note)
      /\ DOMAIN Append(q, NoteOf(s)) = 1..(Len(q) + 1)
      /\ \A i \in DOMAIN q : Append(q, NoteOf(s))[i] = q[i]
      /\ Append(q, NoteOf(s))[Len(q) + 1] = NoteOf(s)
  BY <1>1, AppendProperties, LenProperties
<1> QED
  BY <1>1, <1>2, LenProperties DEF Clean, Allowed

LEMMA SessionInitInv == Init => SessionInv
<1> SUFFICES ASSUME Init PROVE SessionInv
  OBVIOUS
<1>1. LeaseInv
  BY LeaseInitInv DEF Init
<1>2. << >> \in Seq(Note) /\ Clean(<< >>)
  BY EmptySeq DEF Clean
<1>3. Sound(New)
  BY <1>2 DEF New, Call, Sound
<1>4. CallsInv
  BY <1>3 DEF Init, CallsInv, Sound
<1>5. FilesInv
  BY <1>2 DEF Init, FilesInv
<1> QED
  BY <1>1, <1>4, <1>5 DEF SessionInv

\* A step that gives one call a sound record keeps CallsInv.
LEMMA OneCall ==
  ASSUME CallsInv, NEW s \in Worker, NEW r, Sound(r), session' = [session EXCEPT ![s] = r]
  PROVE  CallsInv'
BY DEF CallsInv, Sound

\* The steps of prepare, and those of the agent.
LEMMA PrepareKeeps ==
  ASSUME CallsInv, FilesInv, NEW s \in Worker,
         \/ \E t \in Text : AgentWrite(s, t)
         \/ PullSkipped(s) \/ Pull(s) \/ Look(s) \/ Scaffold(s)
  PROVE  CallsInv' /\ FilesInv'
<1> USE DEF FilesInv, At, Goto, files
<1>1. Sound(session[s])
  BY DEF CallsInv
<1>2. ASSUME NEW t \in Text, AgentWrite(s, t) PROVE CallsInv' /\ FilesInv'
  BY <1>2 DEF AgentWrite, CallsInv
<1>3. ASSUME Pull(s) PROVE CallsInv' /\ FilesInv'
  <2>1. ASSUME NEW v \in Worker PROVE Sound(Exposed(session[v], TRUE))
    <3>1. Sound(session[v])
      BY DEF CallsInv
    <3> QED
      BY <3>1 DEF Exposed, Sound, Call
  <2>2. Sound([session[s] EXCEPT !.step = "look"])
    BY <1>1 DEF Sound, Call
  <2> QED
    BY <1>3, <2>1, <2>2 DEF Pull, CallsInv, Sound
<1>4. ASSUME Look(s) PROVE CallsInv' /\ FilesInv'
  <2> DEFINE r == [session[s] EXCEPT !.step = IF work[s] = Nil THEN "scaffold" ELSE "ready"]
  <2>1. Sound(r)
    BY <1>1 DEF Sound, Call
  <2>2. session' = [session EXCEPT ![s] = r]
    BY <1>4 DEF Look
  <2> HIDE DEF r
  <2> QED
    BY <1>4, <2>1, <2>2, OneCall DEF Look
<1>5. ASSUME Scaffold(s) PROVE CallsInv' /\ FilesInv'
  <2> DEFINE r == [session[s] EXCEPT !.step = "ready"]
  <2>1. Sound(r)
    BY <1>1 DEF Sound, Call
  <2>2. session' = [session EXCEPT ![s] = r]
    BY <1>5 DEF Scaffold
  <2> HIDE DEF r
  <2> QED
    BY <1>5, <2>1, <2>2, OneCall DEF Scaffold
<1>6. ASSUME PullSkipped(s) PROVE CallsInv' /\ FilesInv'
  <2> DEFINE r == [session[s] EXCEPT !.step = "look"]
  <2>1. Sound(r)
    BY <1>1 DEF Sound, Call
  <2>2. session' = [session EXCEPT ![s] = r]
    BY <1>6 DEF PullSkipped
  <2> HIDE DEF r
  <2> QED
    BY <1>6, <2>1, <2>2, OneCall DEF PullSkipped
<1> QED
  BY <1>2, <1>3, <1>4, <1>5, <1>6

\* The start of complete, up to the gate.
LEMMA CompleteKeeps ==
  ASSUME CallsInv, FilesInv, NEW s \in Worker,
         Complete(s) \/ TakeLease(s) \/ ExtendLease(s) \/ Extract(s) \/ Skip(s)
  PROVE  CallsInv' /\ FilesInv'
<1> USE DEF FilesInv, At, Goto, files
<1>1. Sound(session[s]) /\ session[s].attempts \in Nat
  BY DEF CallsInv, Call
<1>2. ASSUME Complete(s) PROVE CallsInv' /\ FilesInv'
  <2>1. PICK store \in Store, owner \in {Nil} \union Owner :
          session' = [session EXCEPT ![s] =
            [New EXCEPT !.step = IF owner = Nil THEN "extract" ELSE "wait",
                        !.store = store, !.owner = owner,
                        !.attempts = session[s].attempts + 1]]
    BY <1>2 DEF Complete
  <2> DEFINE r == [New EXCEPT !.step = IF owner = Nil THEN "extract" ELSE "wait",
                              !.store = store, !.owner = owner,
                              !.attempts = session[s].attempts + 1]
  <2>2. Sound(New)
    BY EmptySeq DEF New, Sound, Call, Clean
  <2>3. Sound(r)
    <3>1. ASSUME NEW x \in {"extract", "wait"}, NEW n \in Nat
          PROVE  [New EXCEPT !.step = x, !.store = store, !.owner = owner, !.attempts = n]
                   \in Call
      BY <2>2 DEF Sound, Call
    <3>2. session[s].attempts + 1 \in Nat
      BY <1>1
    <3>3. r \in Call
      <4>1. CASE owner = Nil
        BY <3>1, <3>2, <4>1
      <4>2. CASE owner # Nil
        BY <3>1, <3>2, <4>2
      <4> QED
        BY <4>1, <4>2
    <3>4. r.seen = New.seen /\ r.step # "write" /\ (r.step = "wait" => r.owner \in Owner)
      BY DEF New
    <3> QED
      BY <2>2, <3>3, <3>4 DEF Sound
  <2>4. session' = [session EXCEPT ![s] = r]
    BY <2>1
  <2> HIDE DEF r
  <2> QED
    BY <1>2, <2>3, <2>4, OneCall DEF Complete
<1>3. ASSUME TakeLease(s) PROVE CallsInv' /\ FilesInv'
  <2> DEFINE r == [session[s] EXCEPT !.step = "extract", !.owner = Nil]
  <2>1. Sound(r)
    BY <1>1 DEF Sound, Call
  <2>2. session' = [session EXCEPT ![s] = r]
    BY <1>3 DEF TakeLease
  <2> HIDE DEF r
  <2> QED
    BY <1>3, <2>1, <2>2, OneCall DEF TakeLease
<1>4. ASSUME ExtendLease(s) PROVE CallsInv' /\ FilesInv'
  <2> DEFINE r == [session[s] EXCEPT !.extended = TRUE]
  <2>1. Sound(r)
    BY <1>1 DEF Sound, Call
  <2>2. session' = [session EXCEPT ![s] = r]
    BY <1>4 DEF ExtendLease
  <2> HIDE DEF r
  <2> QED
    BY <1>4, <2>1, <2>2, OneCall DEF ExtendLease
<1>5. ASSUME Extract(s) PROVE CallsInv' /\ FilesInv'
  <2>1. PICK text \in {Nil} \union Text :
          session' = [session EXCEPT ![s].text = text, ![s].step = "append"]
    BY <1>5 DEF Extract
  <2> DEFINE r == [session[s] EXCEPT !.text = text, !.step = "append"]
  <2>2. Sound(r)
    BY <1>1 DEF Sound, Call
  <2>3. session' = [session EXCEPT ![s] = r]
    BY <2>1
  <2> HIDE DEF r
  <2> QED
    BY <1>5, <2>2, <2>3, OneCall DEF Extract
<1>6. ASSUME Skip(s) PROVE CallsInv' /\ FilesInv'
  <2> DEFINE r == [session[s] EXCEPT !.step = "push"]
  <2>1. Sound(r)
    BY <1>1 DEF Sound, Call
  <2>2. session' = [session EXCEPT ![s] = r]
    BY <1>6 DEF Skip
  <2> HIDE DEF r
  <2> QED
    BY <1>6, <2>1, <2>2, OneCall DEF Skip
<1> QED
  BY <1>2, <1>3, <1>4, <1>5, <1>6

\* The append.  Other calls change in nothing but "exposed".
LEMMA AppendKeeps ==
  ASSUME CallsInv, FilesInv, NEW s \in Worker,
         AppendNatively(s) \/ ReadNotes(s) \/ WriteNotes(s) \/ AppendFails(s)
  PROVE  CallsInv' /\ FilesInv'
<1> USE DEF FilesInv, At, files
<1>1. Sound(session[s]) /\ session[s].seen \in Seq(Note)
  BY DEF CallsInv, Call
<1>2. << >> \in Seq(Note) /\ Clean(<< >>)
  BY EmptySeq DEF Clean
<1>3. ASSUME Appended(s) PROVE CallsInv'
  <2>1. ASSUME NEW v \in Worker, NEW b \in BOOLEAN PROVE Sound(Exposed(session[v], b))
    <3>1. Sound(session[v])
      BY DEF CallsInv
    <3> QED
      BY <3>1 DEF Exposed, Sound, Call
  <2>2. ASSUME NEW b \in BOOLEAN
        PROVE  Sound([session[s] EXCEPT !.step = "push", !.wrote = TRUE, !.seen = << >>,
                        !.exposed = b])
    BY <1>1, <1>2 DEF Sound, Call
  <2>3. /\ (session[s].exposed \/ \E u \in Worker \ {s} : Meets(s, u)) \in BOOLEAN
        /\ \A v \in Worker : (Meets(s, v) \/ session[s].exposed) \in BOOLEAN
    BY <1>1 DEF Sound, Call, Meets
  <2>4. ASSUME NEW v \in Worker PROVE Sound(session'[v])
    BY <1>3, <2>1, <2>2, <2>3 DEF Appended
  <2> QED
    BY <1>3, <2>4 DEF Appended, CallsInv, Sound
<1>4. ASSUME AppendNatively(s) PROVE CallsInv' /\ FilesInv'
  BY <1>3, <1>4, AppendClean DEF AppendNatively
<1>5. ASSUME WriteNotes(s) PROVE CallsInv' /\ FilesInv'
  <2>1. Allowed(s) /\ Clean(session[s].seen)
    BY <1>1, <1>5 DEF WriteNotes, Sound, Allowed
  <2> QED
    BY <1>1, <1>3, <1>5, <2>1, AppendClean DEF WriteNotes
<1>6. ASSUME ReadNotes(s) PROVE CallsInv' /\ FilesInv'
  <2> DEFINE r == [session[s] EXCEPT !.step = "write", !.seen = notes]
  <2>1. Sound(r)
    BY <1>1, <1>6 DEF Sound, Call, ReadNotes, Allowed
  <2>2. session' = [session EXCEPT ![s] = r]
    BY <1>6 DEF ReadNotes
  <2> HIDE DEF r
  <2> QED
    BY <1>6, <2>1, <2>2, OneCall DEF ReadNotes
<1>7. ASSUME AppendFails(s) PROVE CallsInv' /\ FilesInv'
  <2> DEFINE r == [session[s] EXCEPT !.step = "push", !.seen = << >>]
  <2>1. Sound(r)
    BY <1>1, <1>2 DEF Sound, Call
  <2>2. session' = [session EXCEPT ![s] = r]
    BY <1>7 DEF AppendFails
  <2> HIDE DEF r
  <2> QED
    BY <1>7, <2>1, <2>2, OneCall DEF AppendFails
<1> QED
  BY <1>4, <1>5, <1>6, <1>7

\* The push and the end of the call.
LEMMA SyncKeeps ==
  ASSUME CallsInv, FilesInv, NEW s \in Worker,
         PushSkipped(s) \/ PushRead(s) \/ Publish(s) \/ Fails(s) \/ Settle(s)
  PROVE  CallsInv' /\ FilesInv'
<1> USE DEF FilesInv, At, files
<1>1. Sound(session[s]) /\ session[s].seen \in Seq(Note) /\ session[s].attempts \in Nat
  BY DEF CallsInv, Call
<1>2. << >> \in Seq(Note) /\ Clean(<< >>)
  BY EmptySeq DEF Clean
<1>3. ASSUME PushRead(s) PROVE CallsInv' /\ FilesInv'
  <2> DEFINE r == [session[s] EXCEPT !.step = "publish", !.seen = notes]
  <2>1. Sound(r)
    BY <1>1 DEF Sound, Call
  <2>2. session' = [session EXCEPT ![s] = r]
    BY <1>3 DEF PushRead
  <2> HIDE DEF r
  <2> QED
    BY <1>3, <2>1, <2>2, OneCall DEF PushRead
<1>4. ASSUME Publish(s) PROVE CallsInv' /\ FilesInv'
  <2> DEFINE r == [session[s] EXCEPT !.step = "done", !.seen = << >>]
  <2>1. Sound(r)
    BY <1>1, <1>2 DEF Sound, Call
  <2>2. session' = [session EXCEPT ![s] = r]
    BY <1>4 DEF Publish
  <2>3. Clean(session[s].seen)
    BY <1>1 DEF Sound
  <2> HIDE DEF r
  <2> QED
    BY <1>1, <1>4, <2>1, <2>2, <2>3, OneCall DEF Publish
<1>5. ASSUME Fails(s) PROVE CallsInv' /\ FilesInv'
  <2> DEFINE r == [session[s] EXCEPT !.step = "failed", !.seen = << >>]
  <2>1. Sound(r)
    BY <1>1, <1>2 DEF Sound, Call
  <2>2. session' = [session EXCEPT ![s] = r]
    BY <1>5 DEF Fails
  <2> HIDE DEF r
  <2> QED
    BY <1>5, <2>1, <2>2, OneCall DEF Fails
<1>6. ASSUME Settle(s) PROVE CallsInv' /\ FilesInv'
  <2> DEFINE r == [New EXCEPT !.step = "ready", !.attempts = session[s].attempts]
  <2>1. Sound(r)
    BY <1>1, <1>2 DEF Sound, Call, New
  <2>2. session' = [session EXCEPT ![s] = r]
    BY <1>6 DEF Settle
  <2> HIDE DEF r
  <2> QED
    BY <1>6, <2>1, <2>2, OneCall DEF Settle
<1>7. ASSUME PushSkipped(s) PROVE CallsInv' /\ FilesInv'
  <2> DEFINE r == [session[s] EXCEPT !.step = "done"]
  <2>1. Sound(r)
    BY <1>1 DEF Sound, Call
  <2>2. session' = [session EXCEPT ![s] = r]
    BY <1>7 DEF PushSkipped, Goto
  <2> HIDE DEF r
  <2> QED
    BY <1>7, <2>1, <2>2, OneCall DEF PushSkipped
<1> QED
  BY <1>3, <1>4, <1>5, <1>6, <1>7

LEMMA SessionNextInv == SessionInv /\ [Next]_vars => SessionInv'
<1> SUFFICES ASSUME SessionInv, [Next]_vars PROVE SessionInv'
  OBVIOUS
<1>1. LeaseInv'
  BY NextIsLeaseStep, LeaseNextInv DEF SessionInv
<1>2. CallsInv' /\ FilesInv'
  <2>1. CASE Time \/ UNCHANGED vars
    BY <2>1 DEF Time, vars, files, SessionInv, CallsInv, FilesInv
  <2>2. CASE \E s \in Worker :
               \/ \E t \in Text : AgentWrite(s, t)
               \/ PullSkipped(s) \/ Pull(s) \/ Look(s) \/ Scaffold(s)
    BY <2>2, PrepareKeeps DEF SessionInv
  <2>3. CASE \E s \in Worker :
               Complete(s) \/ TakeLease(s) \/ ExtendLease(s) \/ Extract(s) \/ Skip(s)
    BY <2>3, CompleteKeeps DEF SessionInv
  <2>4. CASE \E s \in Worker :
               AppendNatively(s) \/ ReadNotes(s) \/ WriteNotes(s) \/ AppendFails(s)
    BY <2>4, AppendKeeps DEF SessionInv
  <2>5. CASE \E s \in Worker :
               PushSkipped(s) \/ PushRead(s) \/ Publish(s) \/ Fails(s) \/ Settle(s)
    BY <2>5, SyncKeeps DEF SessionInv
  <2> QED
    BY <2>1, <2>2, <2>3, <2>4, <2>5 DEF Next
<1> QED
  BY <1>1, <1>2 DEF SessionInv

THEOREM SessionInvariant == Spec => []SessionInv
  BY SessionInitInv, SessionNextInv, PTL DEF Spec

\* The types of the leases, the files and the calls.
THEOREM SessionTypeCorrect == Spec => []TypeOK
<1>1. SessionInv => TypeOK
  BY DEF SessionInv, LeaseInv, CallsInv, FilesInv, TypeOK
<1> QED
  BY <1>1, SessionInvariant, PTL

\* Whatever sessions, callers and time do, an operation has the store to itself
\* while its lease covers it (acquire, extend, release, withMemoryLease).
THEOREM SessionExclusive == Spec => [](ExclusiveWhileCovered /\ CoveredHoldsLease)
<1>1. SessionInv => ExclusiveWhileCovered /\ CoveredHoldsLease
  BY LeaseInvExcludes DEF SessionInv, LeaseInv
<1> QED
  BY <1>1, SessionInvariant, PTL

\* No text that the write gate refuses gets into notes.md or behind sync
\* (complete, AgentfsMemoryStore.append, syncAfterSession).
THEOREM SessionSecrets == Spec => []SecretsStayOut
<1>1. SessionInv => SecretsStayOut
  BY DEF SessionInv, FilesInv, Clean, SecretsStayOut, ToSet
<1> QED
  BY <1>1, SessionInvariant, PTL

\* The sessions' leases behave as the manager on its own does.
THEOREM SessionLeases == Spec => LeaseSpec
<1>1. Init => LeaseInit
  BY DEF Init
<1>2. CallsInv /\ [Next]_vars => [LeaseNext]_leaseVars
  BY NextIsLeaseStep
<1>3. SessionInv => CallsInv
  BY DEF SessionInv
<1> QED
  BY <1>1, <1>2, <1>3, SessionInvariant, PTL DEF Spec, LeaseSpec

-----------------------------------------------------------------------------
(***************************************************************************)
(* The notes.  An append that is not exposed has read what is still there: *)
(* appends of its own store wait, and one of another store would have      *)
(* exposed it, since a lease never covers both.  From the append to the    *)
(* push the note of a call is in notes.md for the same reason, and then in *)
(* what the push has read.                                                 *)
(***************************************************************************)

\* A call of s that has appended has nothing left to do but to push.
Appending(r) == r.step \in {"push", "publish", "done", "failed"}

\* The call of s, where notes.md holds q.
CallKeeps(s, r, q) ==
  /\ r.wrote => Appending(r)
  /\ r.step = "write" /\ ~r.exposed => r.seen = q
  /\ r.step = "push" /\ r.wrote /\ ~r.exposed => <<s, r.text>> \in ToSet(q)
  /\ r.step = "publish" => r.store \in Syncing
  /\ r.step = "publish" /\ r.wrote /\ ~r.exposed => <<s, r.text>> \in ToSet(r.seen)

\* One append of a store is between its read and its write.
OneWriter ==
  \A s, v \in Worker :
    At(s, "write") /\ At(v, "write") /\ session[s].store = session[v].store => s = v

KeptInv == OneWriter /\ \A s \in Worker : CallKeeps(s, session[s], notes)

LEMMA KeptInit == Init => KeptInv
  BY DEF Init, New, KeptInv, OneWriter, CallKeeps, At, Appending

\* A step of one call that leaves notes.md alone.
LEMMA OneCallKeeps ==
  ASSUME KeptInv, CallsInv, UNCHANGED notes, NEW s \in Worker, NEW r,
         session' = [session EXCEPT ![s] = r], CallKeeps(s, r, notes),
         r.step = "write" => At(s, "write") /\ r.store = session[s].store
  PROVE  KeptInv'
<1>1. session'[s] = r /\ \A v \in Worker \ {s} : session'[v] = session[v]
  BY DEF CallsInv
<1>2. ASSUME NEW v \in Worker PROVE CallKeeps(v, session'[v], notes')
  BY <1>1 DEF KeptInv
<1>3. OneWriter'
  BY <1>1 DEF KeptInv, OneWriter, At
<1> QED
  BY <1>2, <1>3 DEF KeptInv

\* Prepare: what a pull takes away was exposed by it.
LEMMA PrepareKept ==
  ASSUME KeptInv, CallsInv, NEW s \in Worker,
         \/ \E t \in Text : AgentWrite(s, t)
         \/ PullSkipped(s) \/ Pull(s) \/ Look(s) \/ Scaffold(s)
  PROVE  KeptInv'
<1> USE DEF At, Goto, files
<1>1. session[s] \in Call
  BY DEF CallsInv, Sound
<1>2. ASSUME NEW t \in Text, AgentWrite(s, t) PROVE KeptInv'
  BY <1>2 DEF AgentWrite, KeptInv, OneWriter
<1>3. ASSUME Pull(s) PROVE KeptInv'
  <2> DEFINE r == [session[s] EXCEPT !.step = "look"]
  <2>1. r.step = "look" /\ r.wrote = session[s].wrote /\ session[s].step \in {"new", "ready"}
    BY <1>1, <1>3 DEF Call, Pull, Prepares
  <2>2. /\ session'[s] = r
        /\ \A v \in Worker \ {s} : session'[v] = Exposed(session[v], TRUE)
    BY <1>3 DEF Pull
  <2> HIDE DEF r
  <2>3. ASSUME NEW v \in Worker
        PROVE  LET x == Exposed(session[v], TRUE) IN
               /\ x.step = session[v].step /\ x.store = session[v].store
               /\ x.wrote = session[v].wrote
               /\ x.wrote \/ x.step = "write" => x.exposed
    <3>1. session[v] \in Call
      BY DEF CallsInv, Sound
    <3> QED
      BY <3>1 DEF Exposed, Call
  <2>4. CallKeeps(s, r, notes')
    BY <2>1 DEF KeptInv, CallKeeps, Appending
  <2>5. ASSUME NEW v \in Worker \ {s} PROVE CallKeeps(v, session'[v], notes')
    BY <2>2, <2>3 DEF KeptInv, CallKeeps, Appending
  <2>6. ASSUME NEW v \in Worker, session'[v].step = "write"
        PROVE  session[v].step = "write" /\ session'[v].store = session[v].store
    BY <2>1, <2>2, <2>3, <2>6
  <2>7. OneWriter'
    BY <2>6 DEF KeptInv, OneWriter
  <2> QED
    BY <2>2, <2>4, <2>5, <2>7 DEF KeptInv
<1>4. ASSUME NEW x \in {"look", "scaffold", "ready"},
             session' = [session EXCEPT ![s].step = x],
             session[s].step \in {"new", "ready", "look", "scaffold"}, UNCHANGED notes
      PROVE  KeptInv'
  <2> DEFINE r == [session[s] EXCEPT !.step = x]
  <2>1. r.step = x /\ r.wrote = session[s].wrote
    BY <1>1 DEF Call
  <2>2. session' = [session EXCEPT ![s] = r]
    BY <1>4
  <2> HIDE DEF r
  <2>3. CallKeeps(s, r, notes)
    BY <1>4, <2>1 DEF KeptInv, CallKeeps, Appending
  <2> QED
    BY <1>4, <2>1, <2>2, <2>3, OneCallKeeps
<1>5. ASSUME PullSkipped(s) PROVE KeptInv'
  BY <1>4, <1>5 DEF PullSkipped, Prepares
<1>6. ASSUME Look(s) \/ Scaffold(s) PROVE KeptInv'
  BY <1>4, <1>6 DEF Look, Scaffold
<1> QED
  BY <1>2, <1>3, <1>5, <1>6

\* Complete up to the gate, and what comes after the append.
LEMMA QuietKept ==
  ASSUME KeptInv, CallsInv, NEW s \in Worker,
         \/ Complete(s) \/ TakeLease(s) \/ ExtendLease(s) \/ Extract(s) \/ Skip(s)
         \/ ReadNotes(s) \/ AppendFails(s)
         \/ PushSkipped(s) \/ PushRead(s) \/ Publish(s) \/ Fails(s) \/ Settle(s)
  PROVE  KeptInv'
<1> USE DEF At, Goto, files
<1>1. session[s] \in Call /\ CallKeeps(s, session[s], notes)
  BY DEF CallsInv, Sound, KeptInv
<1>2. ASSUME Complete(s) PROVE KeptInv'
  <2>1. PICK store \in Store, owner \in {Nil} \union Owner :
          session' = [session EXCEPT ![s] =
            [New EXCEPT !.step = IF owner = Nil THEN "extract" ELSE "wait",
                        !.store = store, !.owner = owner,
                        !.attempts = session[s].attempts + 1]]
    BY <1>2 DEF Complete
  <2> DEFINE r == [New EXCEPT !.step = IF owner = Nil THEN "extract" ELSE "wait",
                              !.store = store, !.owner = owner,
                              !.attempts = session[s].attempts + 1]
  <2>2. ~r.wrote /\ r.step \in {"extract", "wait"}
    BY DEF New
  <2>3. session' = [session EXCEPT ![s] = r]
    BY <2>1
  <2> HIDE DEF r
  <2> QED
    BY <1>2, <2>2, <2>3, OneCallKeeps DEF Complete, CallKeeps
<1>3. ASSUME TakeLease(s) PROVE KeptInv'
  <2> DEFINE r == [session[s] EXCEPT !.step = "extract", !.owner = Nil]
  <2>1. ~r.wrote /\ r.step = "extract"
    BY <1>1, <1>3 DEF Call, TakeLease, CallKeeps, Appending
  <2>2. session' = [session EXCEPT ![s] = r]
    BY <1>3 DEF TakeLease
  <2> HIDE DEF r
  <2> QED
    BY <1>3, <2>1, <2>2, OneCallKeeps DEF TakeLease, CallKeeps
<1>4. ASSUME ExtendLease(s) PROVE KeptInv'
  <2> DEFINE r == [session[s] EXCEPT !.extended = TRUE]
  <2>1. /\ r.wrote = session[s].wrote /\ r.step = session[s].step
        /\ r.exposed = session[s].exposed /\ r.seen = session[s].seen
        /\ r.text = session[s].text /\ r.store = session[s].store
    BY <1>1 DEF Call
  <2>2. session' = [session EXCEPT ![s] = r]
    BY <1>4 DEF ExtendLease
  <2> HIDE DEF r
  <2>3. CallKeeps(s, r, notes)
    BY <1>1, <2>1 DEF CallKeeps, Appending
  <2> QED
    BY <1>4, <2>1, <2>2, <2>3, OneCallKeeps DEF ExtendLease
<1>5. ASSUME Extract(s) PROVE KeptInv'
  <2>1. PICK text \in {Nil, IF work[s] = "scaffold" THEN Nil ELSE work[s]} :
          session' = [session EXCEPT ![s].text = text, ![s].step = "append"]
    BY <1>5 DEF Extract
  <2> DEFINE r == [session[s] EXCEPT !.text = text, !.step = "append"]
  <2>2. ~r.wrote /\ r.step = "append"
    BY <1>1, <1>5 DEF Call, Extract, CallKeeps, Appending
  <2>3. session' = [session EXCEPT ![s] = r]
    BY <2>1
  <2> HIDE DEF r
  <2> QED
    BY <1>5, <2>2, <2>3, OneCallKeeps DEF Extract, CallKeeps
<1>6. ASSUME Skip(s) PROVE KeptInv'
  <2> DEFINE r == [session[s] EXCEPT !.step = "push"]
  <2>1. ~r.wrote /\ r.step = "push"
    BY <1>1, <1>6 DEF Call, Skip, CallKeeps, Appending
  <2>2. session' = [session EXCEPT ![s] = r]
    BY <1>6 DEF Skip
  <2> HIDE DEF r
  <2> QED
    BY <1>6, <2>1, <2>2, OneCallKeeps DEF Skip, CallKeeps
<1>7. ASSUME ReadNotes(s) PROVE KeptInv'
  <2> DEFINE r == [session[s] EXCEPT !.step = "write", !.seen = notes]
  <2>1. ~r.wrote /\ r.step = "write" /\ r.seen = notes /\ r.store = session[s].store
    BY <1>1, <1>7 DEF Call, ReadNotes, CallKeeps, Appending
  <2>2. session' = [session EXCEPT ![s] = r] /\ UNCHANGED notes
    BY <1>7 DEF ReadNotes
  <2> HIDE DEF r
  <2>3. CallKeeps(s, r, notes)
    BY <2>1 DEF CallKeeps
  <2>4. session'[s] = r /\ \A v \in Worker \ {s} : session'[v] = session[v]
    BY <2>2 DEF CallsInv
  <2>5. \A v \in Worker \ {s} :
          ~(session'[v].step = "write" /\ session'[v].store = session[s].store)
    BY <1>7, <2>4 DEF ReadNotes, Locked
  <2>6. OneWriter'
    BY <2>1, <2>4, <2>5 DEF KeptInv, OneWriter
  <2>7. \A v \in Worker : CallKeeps(v, session'[v], notes')
    BY <2>2, <2>3, <2>4 DEF KeptInv
  <2> QED
    BY <2>6, <2>7 DEF KeptInv
<1>8. ASSUME AppendFails(s) PROVE KeptInv'
  <2> DEFINE r == [session[s] EXCEPT !.step = "push", !.seen = << >>]
  <2>1. ~r.wrote /\ r.step = "push"
    BY <1>1, <1>8 DEF Call, AppendFails, CallKeeps, Appending
  <2>2. session' = [session EXCEPT ![s] = r]
    BY <1>8 DEF AppendFails
  <2> HIDE DEF r
  <2> QED
    BY <1>8, <2>1, <2>2, OneCallKeeps DEF AppendFails, CallKeeps
<1>9. ASSUME PushRead(s) PROVE KeptInv'
  <2> DEFINE r == [session[s] EXCEPT !.step = "publish", !.seen = notes]
  <2>1. /\ r.wrote = session[s].wrote /\ r.step = "publish" /\ r.seen = notes
        /\ r.exposed = session[s].exposed /\ r.text = session[s].text
        /\ r.store \in Syncing
    BY <1>1, <1>9 DEF Call, PushRead, Syncs
  <2>2. session' = [session EXCEPT ![s] = r]
    BY <1>9 DEF PushRead
  <2> HIDE DEF r
  <2>3. CallKeeps(s, r, notes)
    BY <1>1, <1>9, <2>1 DEF CallKeeps, Appending, PushRead
  <2> QED
    BY <1>9, <2>1, <2>2, <2>3, OneCallKeeps DEF PushRead
<1>10. ASSUME NEW x \in {"done", "failed"}, UNCHANGED notes,
              session' = [session EXCEPT ![s].step = x, ![s].seen = << >>]
       PROVE  KeptInv'
  <2> DEFINE r == [session[s] EXCEPT !.step = x, !.seen = << >>]
  <2>1. r.step = x
    BY <1>1 DEF Call
  <2>2. session' = [session EXCEPT ![s] = r]
    BY <1>10
  <2> HIDE DEF r
  <2> QED
    BY <1>10, <2>1, <2>2, OneCallKeeps DEF CallKeeps, Appending
<1>11. ASSUME Publish(s) \/ Fails(s) PROVE KeptInv'
  BY <1>10, <1>11 DEF Publish, Fails
<1>12. ASSUME Settle(s) PROVE KeptInv'
  <2> DEFINE r == [New EXCEPT !.step = "ready", !.attempts = session[s].attempts]
  <2>1. ~r.wrote /\ r.step = "ready"
    BY DEF New
  <2>2. session' = [session EXCEPT ![s] = r]
    BY <1>12 DEF Settle
  <2> HIDE DEF r
  <2> QED
    BY <1>12, <2>1, <2>2, OneCallKeeps DEF Settle, CallKeeps
<1>13. ASSUME PushSkipped(s) PROVE KeptInv'
  <2> DEFINE r == [session[s] EXCEPT !.step = "done"]
  <2>1. r.step = "done"
    BY <1>1 DEF Call
  <2>2. session' = [session EXCEPT ![s] = r]
    BY <1>13 DEF PushSkipped
  <2> HIDE DEF r
  <2> QED
    BY <1>13, <2>1, <2>2, OneCallKeeps DEF PushSkipped, CallKeeps, Appending
<1> QED
  BY <1>2, <1>3, <1>4, <1>5, <1>6, <1>7, <1>8, <1>9, <1>11, <1>12, <1>13

\* What an append puts behind q.
LEMMA AppendHas ==
  ASSUME NEW q \in Seq(Note), NEW n \in Note
  PROVE  ToSet(q) \subseteq ToSet(Append(q, n)) /\ n \in ToSet(Append(q, n))
<1>1. /\ DOMAIN Append(q, n) = 1..(Len(q) + 1) /\ Len(q) \in Nat /\ DOMAIN q = 1..Len(q)
      /\ \A i \in DOMAIN q : Append(q, n)[i] = q[i]
      /\ Append(q, n)[Len(q) + 1] = n
  BY AppendProperties, LenProperties
<1>2. DOMAIN q \subseteq DOMAIN Append(q, n) /\ Len(q) + 1 \in DOMAIN Append(q, n)
  BY <1>1
<1>3. n \in ToSet(Append(q, n))
  BY <1>1, <1>2 DEF ToSet
<1>4. ASSUME NEW x \in ToSet(q) PROVE x \in ToSet(Append(q, n))
  <2>1. PICK i \in DOMAIN q : q[i] = x
    BY DEF ToSet
  <2> QED
    BY <1>1, <1>2, <2>1 DEF ToSet
<1> QED
  BY <1>3, <1>4

\* An append leaves what was there, unless it is exposed.
LEMMA AppendLeaves ==
  ASSUME KeptInv, CallsInv, FilesInv, NEW s \in Worker, AppendNatively(s) \/ WriteNotes(s)
  PROVE  /\ NoteOf(s) \in ToSet(notes')
         /\ ~At(s, "write") \/ ~session[s].exposed => ToSet(notes) \subseteq ToSet(notes')
<1>1. Sound(session[s]) /\ session[s].seen \in Seq(Note) /\ CallKeeps(s, session[s], notes)
  BY DEF CallsInv, Sound, Call, KeptInv
<1>2. NoteOf(s) \in Note
  BY <1>1 DEF AppendNatively, WriteNotes, NoteOf, Note, Allowed, Sound, Call, At
<1>3. CASE AppendNatively(s)
  BY <1>2, <1>3, AppendHas DEF AppendNatively, FilesInv
<1>4. CASE WriteNotes(s)
  BY <1>1, <1>2, <1>4, AppendHas DEF WriteNotes, CallKeeps, At
<1> QED
  BY <1>3, <1>4

\* An append: where another store has read, either the lease covers one of the
\* two at most, or it is exposed.
LEMMA AppendKept ==
  ASSUME KeptInv, CallsInv, FilesInv, ExclusiveWhileCovered,
         NEW s \in Worker, AppendNatively(s) \/ WriteNotes(s)
  PROVE  KeptInv'
<1>1. session[s] \in Call /\ CallKeeps(s, session[s], notes)
  BY DEF CallsInv, Sound, KeptInv
<1>2. ASSUME NEW v \in Worker \ {s}
      PROVE  ~(At(v, "write") /\ session[v].store = session[s].store)
  BY <1>2 DEF AppendNatively, WriteNotes, Locked, KeptInv, OneWriter
<1> DEFINE b(v) == Meets(s, v) \/ session[s].exposed
           r    == [session[s] EXCEPT !.step = "push", !.wrote = TRUE, !.seen = << >>,
                      !.exposed = @ \/ \E u \in Worker \ {s} : Meets(s, u)]
<1>3. session'[s] = r /\ \A v \in Worker \ {s} : session'[v] = Exposed(session[v], b(v))
  BY DEF AppendNatively, WriteNotes, Appended
<1>4. r.step = "push" /\ r.text = session[s].text
  BY <1>1 DEF Call
<1> HIDE DEF r
<1>5. CallKeeps(s, session'[s], notes')
  BY <1>3, <1>4, AppendLeaves DEF CallKeeps, Appending, NoteOf
<1>6. ASSUME NEW v \in Worker \ {s}
      PROVE  /\ session'[v].step = session[v].step /\ session'[v].store = session[v].store
             /\ session'[v].wrote = session[v].wrote /\ session'[v].seen = session[v].seen
             /\ session'[v].text = session[v].text
             /\ session[v].wrote \/ session[v].step = "write" =>
                  (session'[v].exposed <=> session[v].exposed \/ b(v))
  <2>1. session[v] \in Call
    BY DEF CallsInv, Sound
  <2> HIDE DEF b
  <2> QED
    BY <1>3, <2>1 DEF Exposed, Call
<1>7. ASSUME NEW v \in Worker \ {s} PROVE CallKeeps(v, session'[v], notes')
  <2>1. CallKeeps(v, session[v], notes)
    BY DEF KeptInv
  <2>2. ASSUME session[v].step = "write" PROVE session'[v].exposed
    BY <1>2, <1>6, <2>2 DEF Meets, At, ExclusiveWhileCovered
  <2>3. ASSUME session[v].wrote, ~session'[v].exposed
        PROVE  ~session[v].exposed /\ ToSet(notes) \subseteq ToSet(notes')
    BY <1>6, <2>3, AppendLeaves
  <2> QED
    BY <1>6, <2>1, <2>2, <2>3 DEF CallKeeps, Appending
<1>8. OneWriter'
  BY <1>3, <1>4, <1>6 DEF KeptInv, OneWriter, At
<1> QED
  BY <1>5, <1>7, <1>8 DEF KeptInv

\* No step leaves the invariant.
LEMMA KeptStep == KeptInv /\ SessionInv /\ [Next]_vars => KeptInv'
<1> SUFFICES ASSUME KeptInv, SessionInv, [Next]_vars PROVE KeptInv'
  OBVIOUS
<1>1. CallsInv /\ FilesInv /\ ExclusiveWhileCovered
  BY LeaseInvExcludes DEF SessionInv
<1>2. CASE Time \/ UNCHANGED vars
  BY <1>2 DEF Time, vars, files, KeptInv, OneWriter, At
<1>3. CASE \E s \in Worker :
             \/ \E t \in Text : AgentWrite(s, t)
             \/ PullSkipped(s) \/ Pull(s) \/ Look(s) \/ Scaffold(s)
  BY <1>1, <1>3, PrepareKept
<1>4. CASE \E s \in Worker : AppendNatively(s) \/ WriteNotes(s)
  BY <1>1, <1>4, AppendKept
<1>5. CASE \E s \in Worker :
             \/ Complete(s) \/ TakeLease(s) \/ ExtendLease(s) \/ Extract(s) \/ Skip(s)
             \/ ReadNotes(s) \/ AppendFails(s)
             \/ PushSkipped(s) \/ PushRead(s) \/ Publish(s) \/ Fails(s) \/ Settle(s)
  BY <1>1, <1>5, QuietKept
<1> QED
  BY <1>2, <1>3, <1>4, <1>5 DEF Next

\* A step takes a note away only if it pulls, or writes after it was exposed.
LEMMA NotesStep ==
  ASSUME KeptInv, SessionInv, Next, NEW n \in ToSet(notes)
  PROVE  \/ n \in ToSet(notes')
         \/ \E s \in Worker : Pull(s) \/ (At(s, "write") /\ session[s].exposed)
<1>1. CASE \E s \in Worker : AppendNatively(s) \/ WriteNotes(s)
  BY <1>1, AppendLeaves DEF SessionInv
<1>2. CASE \E s \in Worker : Pull(s)
  BY <1>2
<1>3. CASE UNCHANGED notes
  BY <1>3
<1> QED
  BY <1>1, <1>2, <1>3 DEF Next, Time, AgentWrite, Look, Scaffold, Complete, TakeLease,
     ExtendLease, Extract, Skip, ReadNotes, AppendFails, PullSkipped, PushSkipped, PushRead,
     Publish, Fails, Settle, files

\* Only a push that publishes, or is skipped, makes a call return.
LEMMA DoneByPush ==
  ASSUME CallsInv, Next, NEW s \in Worker, ~At(s, "done"), session'[s].step = "done"
  PROVE  Publish(s) \/ PushSkipped(s)
<1>1. session \in [Worker -> Call]
  BY DEF CallsInv
<1> USE DEF At, Goto
<1>2. ASSUME NEW u \in Worker,
             \/ \E t \in Text : AgentWrite(u, t)
             \/ PullSkipped(u) \/ Pull(u) \/ Look(u) \/ Scaffold(u)
      PROVE  FALSE
  <2>1. ~Pull(u)
    BY <1>1, <1>2 DEF Pull, Exposed, Call
  <2>2. ~PullSkipped(u) /\ ~Look(u) /\ ~Scaffold(u)
    BY <1>1 DEF PullSkipped, Look, Scaffold, Call
  <2>3. \A t \in Text : ~AgentWrite(u, t)
    BY DEF AgentWrite
  <2> QED
    BY <1>2, <2>1, <2>2, <2>3
<1>3. ASSUME NEW u \in Worker,
             Complete(u) \/ TakeLease(u) \/ ExtendLease(u) \/ Extract(u) \/ Skip(u)
      PROVE  FALSE
  <2>1. CASE Complete(u)
    <3>1. PICK store \in Store, owner \in {Nil} \union Owner :
            session' = [session EXCEPT ![u] =
              [New EXCEPT !.step = IF owner = Nil THEN "extract" ELSE "wait",
                          !.store = store, !.owner = owner,
                          !.attempts = session[u].attempts + 1]]
      BY <2>1 DEF Complete
    <3>2. CASE s = u
      BY <3>1, <3>2, <1>1 DEF New
    <3>3. CASE s # u
      BY <3>1, <3>3
    <3> QED
      BY <3>2, <3>3
  <2>2. ~TakeLease(u)
    <3>1. ASSUME session' = [session EXCEPT ![u].step = "extract", ![u].owner = Nil]
          PROVE  FALSE
      BY <1>1, <3>1 DEF Call
    <3> QED
      BY <3>1 DEF TakeLease
  <2>4. ~ExtendLease(u)
    <3>1. ASSUME session' = [session EXCEPT ![u].extended = TRUE]
          PROVE  FALSE
      BY <1>1, <3>1 DEF Call
    <3> QED
      BY <3>1 DEF ExtendLease
  <2>3. ~Extract(u) /\ ~Skip(u)
    BY <1>1 DEF Extract, Skip, Call
  <2> QED
    BY <1>3, <2>1, <2>2, <2>3, <2>4
<1>4. ASSUME NEW u \in Worker, AppendNatively(u) \/ WriteNotes(u)
      PROVE  FALSE
  <2>1. Appended(u)
    BY <1>4 DEF AppendNatively, WriteNotes
  <2>2. CASE s = u
    BY <1>1, <2>1, <2>2 DEF Appended, Call
  <2>3. CASE s # u
    BY <1>1, <2>1, <2>3 DEF Appended, Exposed, Call
  <2> QED
    BY <2>2, <2>3
<1>5. ASSUME NEW u \in Worker, ReadNotes(u) \/ AppendFails(u) \/ PushRead(u) \/ Fails(u)
      PROVE  FALSE
  <2>1. ~ReadNotes(u) /\ ~AppendFails(u)
    BY <1>1 DEF ReadNotes, AppendFails, Call
  <2>2. ~PushRead(u) /\ ~Fails(u)
    BY <1>1 DEF PushRead, Fails, Call
  <2> QED
    BY <1>5, <2>1, <2>2
<1>6. ASSUME NEW u \in Worker, Settle(u) PROVE FALSE
  BY <1>1, <1>6 DEF Settle, New
<1>7. ASSUME NEW u \in Worker, Publish(u) \/ PushSkipped(u)
      PROVE  Publish(s) \/ PushSkipped(s)
  BY <1>1, <1>7 DEF Publish, PushSkipped
<1>8. ~Time
  BY DEF Time
<1> QED
  BY <1>2, <1>3, <1>4, <1>5, <1>6, <1>7, <1>8 DEF Next

\* No append takes a note away: only a pull does, or the write of an append that
\* another writer met without a lease that covered both
\* (AgentfsMemoryStore.append, withMemoryLease).
THEOREM SessionNotesKept == Spec => NotesKept
<1>1. KeptInv /\ SessionInv /\ [Next]_vars =>
        [\A n \in ToSet(notes) :
           \/ n \in ToSet(notes')
           \/ \E s \in Worker : Pull(s) \/ (At(s, "write") /\ session[s].exposed)]_vars
  BY NotesStep
<1> QED
  BY <1>1, KeptInit, KeptStep, SessionInvariant, PTL DEF Spec, NotesKept

\* A complete that returns has published the note that it says it wrote, or left
\* it in notes.md if its client does not sync, unless the note was exposed
\* (complete, syncAfterSession).
THEOREM SessionPublishes == Spec => PublishedWhenDone
<1>1. KeptInv /\ SessionInv /\ [Next]_vars =>
        [\A s \in Worker :
           /\ ~At(s, "done") /\ session'[s].step = "done"
           /\ session[s].wrote /\ ~session[s].exposed
           => NoteOf(s) \in ToSet(IF Syncs(s) THEN remote' ELSE notes')]_vars
  <2> SUFFICES ASSUME KeptInv, SessionInv, Next, NEW s \in Worker,
                      ~At(s, "done"), session'[s].step = "done",
                      session[s].wrote, ~session[s].exposed
               PROVE  NoteOf(s) \in ToSet(IF Syncs(s) THEN remote' ELSE notes')
    OBVIOUS
  <2>1. Publish(s) \/ PushSkipped(s)
    BY DoneByPush DEF SessionInv
  <2>2. CASE Publish(s)
    <3>1. Syncs(s)
      BY <2>2 DEF Syncs, KeptInv, CallKeeps, At, Publish
    <3> QED
      BY <2>2, <3>1 DEF Publish, KeptInv, CallKeeps, At, NoteOf
  <2>3. CASE PushSkipped(s)
    BY <2>3 DEF PushSkipped, KeptInv, CallKeeps, At, NoteOf, files
  <2> QED
    BY <2>1, <2>2, <2>3
<1> QED
  BY <1>1, KeptInit, KeptStep, SessionInvariant, PTL DEF Spec, PublishedWhenDone
=============================================================================
