------------------------ MODULE FileReplicationProofs ------------------------
(***************************************************************************)
(* Proofs about FileReplication, for any clients, documents, snapshots and *)
(* edits: what a finished pull leaves, what a finished push has published, *)
(* and that a sync replaces nothing its snapshot does not hold.            *)
(***************************************************************************)
EXTENDS FileReplication, TLAPS

(***************************************************************************)
(* The inductive invariant.                                                *)
(***************************************************************************)
\* What is kept for the index is a set of snapshots, in a store as in every
\* manifest that was made of one.
IndexOK(m) == m[Index] # Nil => m[Index] \subseteq Snapshot

IndexInv(c) ==
  /\ IndexOK(local[c]) /\ IndexOK(run[c].man) /\ IndexOK(run[c].answer)
  /\ IndexOK(run[c].todo) /\ IndexOK(run[c].up)

\* A sync that has not asked the cloud yet knows nothing of it.
StepInv(c) ==
  /\ run[c].step \in {"snapshot", "record", "list"} => run[c].man = EmptyManifest
  /\ run[c].step \in {"snapshot", "record", "list", "hash"} => run[c].base = 0
  /\ run[c].step = "record" => run[c].snap \in Snapshot
  /\ run[c].step \in {"cursor", "upload"} => run[c].op = "push"
  /\ run[c].step = "download" => run[c].op = "pull"

\* While no tool writes, the manifest has the files as they are.
HashInv(c) ==
  run[c].step = "hash" /\ ~run[c].dirty =>
    \A q \in PathsOf(run[c].man) : run[c].man[q] = local[c][q]

\* What a push was answered is the cloud's manifest until the next commit.
PushInv(c) ==
  /\ run[c].step \in {"cursor", "upload"} =>
       /\ run[c].base <= version[ProjectId]
       /\ run[c].base = version[ProjectId] => run[c].answer = manifest[ProjectId]
  /\ run[c].step = "upload" => run[c].up = DiffPushTargets(run[c].man, run[c].answer)

\* A pull fetches what the cloud listed and deletes what it did not; every
\* other path is as it should be.
PullInv(c) ==
  run[c].step = "download" =>
    /\ \A q \in PathsOf(run[c].todo) : run[c].todo[q] = run[c].answer[q]
    /\ \A q \in run[c].removed : run[c].answer[q] = Nil
    /\ run[c].base > 0 /\ ~run[c].dirty =>
         \A q \in Path :
           \/ run[c].todo[q] # Nil
           \/ q \in run[c].removed
           \/ local[c][q] = run[c].answer[q]
           \/ run[c].answer[q] = Nil /\ run[c].man[q] = Nil

\* What a pull is still to replace is in its snapshot.
SavedInv(c) ==
  ~run[c].dirty =>
    \A d \in SnapshotDoc :
      \/ run[c].step \in {"record", "list", "hash"}
      \/ run[c].step = "download" /\ (run[c].todo[d] # Nil \/ d \in run[c].removed)
      => run[c].saved[d] = local[c][d]

\* What a finished sync has done.
DoneInv(c) ==
  run[c].step = "done" =>
    /\ run[c].op = "pull" /\ run[c].base > 0 /\ ~run[c].dirty => Mirrors(c)
    /\ run[c].op = "push" /\ run[c].base = run[c].cursor
         => \A q \in PathsOf(run[c].man) : run[c].answer[q] = run[c].man[q]

ClientInv(c) ==
  /\ IndexInv(c) /\ StepInv(c) /\ HashInv(c) /\ PushInv(c)
  /\ PullInv(c) /\ SavedInv(c) /\ DoneInv(c)

Inv ==
  /\ TypeOK
  /\ IndexOK(manifest[ProjectId])
  /\ \A c \in Client : ClientInv(c)

(***************************************************************************)
(* Frames.                                                                 *)
(***************************************************************************)
\* A step of client c leaves the other clients alone.
OnlyOf(c) ==
  \A b \in Client \ {c} : run'[b] = run[b] /\ local'[b] = local[b]

\* The cloud's manifest only changes together with its number.
CloudMoves ==
  \/ version' = version /\ manifest' = manifest
  \/ version'[ProjectId] = version[ProjectId] + 1

\* A client that takes no step keeps its part of the invariant.
LEMMA OthersKept ==
  ASSUME TypeOK, CloudMoves, NEW b \in Client, ClientInv(b),
         run'[b] = run[b], local'[b] = local[b]
  PROVE  ClientInv(b)'
<1>1. version[ProjectId] \in Nat /\ run[b].base \in Nat
  BY DEF TypeOK, Run
<1>2. IndexInv(b)' /\ StepInv(b)' /\ HashInv(b)'
  BY DEF ClientInv, IndexInv, IndexOK, StepInv, HashInv, PathsOf
<1>3. PushInv(b)'
  BY <1>1 DEF ClientInv, PushInv, CloudMoves, DiffPushTargets
<1>4. PullInv(b)' /\ SavedInv(b)' /\ DoneInv(b)'
  BY DEF ClientInv, PullInv, SavedInv, DoneInv, Mirrors, PathsOf
<1> QED
  BY <1>2, <1>3, <1>4 DEF ClientInv

\* Hence it is enough to look at the client that takes a step.
LEMMA OneClient ==
  ASSUME Inv, TypeOK', CloudMoves, IndexOK(manifest[ProjectId])',
         NEW c \in Client, OnlyOf(c), ClientInv(c)'
  PROVE  Inv'
BY OthersKept DEF Inv, OnlyOf

\* The documents are no snapshots, the index is neither.
LEMMA PathFacts ==
  /\ Index \in Path /\ Snapshot \subseteq Path /\ Doc \subseteq Path
  /\ SnapshotDoc \subseteq Doc /\ Canonical = Doc \union {Index}
  /\ Index \notin Doc /\ Index \notin Snapshot /\ Doc \intersect Snapshot = {}
  /\ Template \in Sha /\ Version \subseteq Sha /\ Snapshot \subseteq Sha
  /\ SUBSET Snapshot \subseteq Sha /\ {} \in Sha /\ Nil \notin Sha
BY PathAssumption, ContentAssumption, NilAssumption DEF Canonical

\* The manifests that diffs and overlays make.
LEMMA ManifestTypes ==
  ASSUME NEW m \in Manifest, NEW n \in Manifest
  PROVE  /\ EmptyManifest \in Manifest
         /\ Overlay(m, n) \in Manifest
         /\ DiffPushTargets(m, n) \in Manifest /\ DiffPullTargets(m, n) \in Manifest
         /\ DiffRemoved(m, n) \in SUBSET Path
BY DEF Manifest, EmptyManifest, Overlay, DiffPushTargets, DiffPullTargets, DiffRemoved, PathsOf

\* They hold of the index what the manifests hold that they are made of.
LEMMA ManifestIndexes ==
  ASSUME NEW m \in Manifest, NEW n \in Manifest, IndexOK(m), IndexOK(n)
  PROVE  /\ IndexOK(EmptyManifest) /\ IndexOK(Overlay(m, n))
         /\ IndexOK(DiffPushTargets(m, n)) /\ IndexOK(DiffPullTargets(m, n))
BY PathFacts DEF IndexOK, EmptyManifest, Overlay, DiffPushTargets, DiffPullTargets

-----------------------------------------------------------------------------
(***************************************************************************)
(* One lemma per step.                                                     *)
(***************************************************************************)
\* What the invariant says of one client.
LEMMA OfClient ==
  ASSUME Inv, NEW c \in Client
  PROVE  /\ run[c] \in Run /\ local[c] \in Manifest
         /\ version[ProjectId] \in Nat /\ manifest[ProjectId] \in Manifest
         /\ IndexInv(c) /\ StepInv(c) /\ HashInv(c) /\ PushInv(c)
         /\ PullInv(c) /\ SavedInv(c) /\ DoneInv(c)
BY DEF Inv, TypeOK, ClientInv

\* A tool writes: a sync under way is dirty from now on.
LEMMA EditKept ==
  ASSUME Inv, NEW c \in Client, NEW d \in Doc, NEW v \in Version, Edit(c, d, v)
  PROVE  Inv'
<1>1. /\ run[c] \in Run /\ local[c] \in Manifest /\ d \in Path /\ d # Index
      /\ run'[c] = [run[c] EXCEPT !.dirty = (run[c].step # "idle")]
      /\ local'[c] = [local[c] EXCEPT ![d] = v] /\ v \in Sha
      /\ OnlyOf(c) /\ CloudMoves /\ UNCHANGED cloud
  BY PathFacts DEF Inv, TypeOK, Edit, Write, OnlyOf, CloudMoves, cloud
<1>2. TypeOK'
  <2>1. run' \in [Client -> Run] /\ local' \in [Client -> Manifest]
    BY <1>1 DEF Inv, TypeOK, Edit, Write, Run, Manifest
  <2>2. edits' \in 0 .. MaxEdits
    BY BoundAssumption DEF Inv, TypeOK, Edit
  <2>3. \A b \in Client : local'[b][Index] = local[b][Index]
    <3>1. local'[c][Index] = local[c][Index]
      BY <1>1, PathFacts DEF Manifest
    <3> QED
      BY <1>1, <3>1 DEF OnlyOf
  <2> QED
    BY <1>1, <2>1, <2>2, <2>3 DEF Inv, TypeOK, Edit, cloud
<1>3. IndexInv(c)' /\ StepInv(c)' /\ PushInv(c)'
  BY <1>1 DEF Inv, ClientInv, IndexInv, IndexOK, StepInv, PushInv, Run, Manifest, cloud
<1>4. HashInv(c)' /\ SavedInv(c)' 
  BY <1>1 DEF HashInv, SavedInv, Run
<1>5. /\ run'[c].step = run[c].step /\ run'[c].op = run[c].op
      /\ run'[c].man = run[c].man /\ run'[c].answer = run[c].answer
      /\ run'[c].base = run[c].base /\ run'[c].cursor = run[c].cursor
      /\ run'[c].todo = run[c].todo /\ run'[c].removed = run[c].removed
      /\ run[c].step = "idle" \/ run'[c].dirty
  BY <1>1 DEF Run
<1>6. PullInv(c)'
  <2>1. CASE run[c].step = "idle"
    BY <1>5, <2>1 DEF PullInv
  <2>2. CASE run'[c].dirty
    <3>1. PullInv(c)
      BY DEF Inv, ClientInv
    <3> QED
      BY <1>1, <1>5, <2>2, <3>1 DEF PullInv, PathsOf
  <2> QED
    BY <1>5, <2>1, <2>2
<1>7. DoneInv(c)'
  BY <1>5 DEF Inv, ClientInv, DoneInv, PathsOf
<1> QED
  BY <1>1, <1>2, <1>3, <1>4, <1>6, <1>7, OneClient DEF Inv, ClientInv, IndexOK, cloud

\* A sync begins with nothing.
LEMMA StartKept ==
  ASSUME Inv, NEW c \in Client, NEW op \in {"push", "pull"}, Start(c, op)
  PROVE  Inv'
<1> DEFINE t == [Idle EXCEPT !.step = "snapshot", !.op = op]
<1>1. /\ run' = [run EXCEPT ![c] = t] /\ run'[c] = t
      /\ UNCHANGED <<cloud, local, used, edits>> /\ OnlyOf(c) /\ CloudMoves
  BY OfClient DEF Inv, TypeOK, Start, OnlyOf, CloudMoves, cloud
<1>2. t \in Run
  <2>1. Docs(Bootstrapped) \in [SnapshotDoc -> Sha \union {Nil}]
    BY PathFacts DEF Docs, Bootstrapped, TemplateOf
  <2> QED
    BY <2>1 DEF Idle, Run, Manifest, EmptyManifest
<1>3. TypeOK'
  BY <1>1, <1>2 DEF Inv, TypeOK, cloud
<1>4. /\ t.step = "snapshot" /\ t.man = EmptyManifest /\ t.base = 0
      /\ t.answer = EmptyManifest /\ t.todo = EmptyManifest /\ t.up = EmptyManifest
  BY DEF Idle
<1>5. ClientInv(c)'
  <2>1. IndexInv(c)'
    BY <1>1, <1>4, OfClient, PathFacts DEF IndexInv, IndexOK, EmptyManifest
  <2> QED
    BY <1>1, <1>4, <2>1
    DEF ClientInv, StepInv, HashInv, PushInv, PullInv, SavedInv, DoneInv
<1> QED
  BY <1>1, <1>3, <1>5, OneClient DEF Inv, IndexOK, cloud

\* The documents are saved before anything else is done.
LEMMA WriteSnapshotKept ==
  ASSUME Inv, NEW c \in Client, NEW s \in Snapshot, WriteSnapshot(c, s)
  PROVE  Inv'
<1>1. /\ run' = [run EXCEPT ![c] = run'[c]] /\ run[c].step = "snapshot"
      /\ run'[c] = [run[c] EXCEPT !.snap = s, !.saved = Docs(local[c]), !.step = "record"]
      /\ local' = [local EXCEPT ![c] = local'[c]] /\ local'[c] = [local[c] EXCEPT ![s] = s]
      /\ UNCHANGED <<cloud, edits>> /\ OnlyOf(c) /\ CloudMoves
      /\ used' = used \union {s}
  BY OfClient DEF Inv, TypeOK, WriteSnapshot, Write, OnlyOf, CloudMoves, cloud
<1>2. Docs(local[c]) \in [SnapshotDoc -> Sha \union {Nil}]
  BY OfClient, PathFacts DEF Docs, Manifest
<1>3. run'[c] \in Run /\ local'[c] \in Manifest /\ local'[c][Index] = local[c][Index]
  <2>1. run'[c] \in Run
    BY <1>1, <1>2, OfClient DEF Run
  <2>2. local'[c] \in Manifest
    BY <1>1, OfClient, PathFacts DEF Manifest
  <2>3. local'[c][Index] = local[c][Index]
    BY <1>1, OfClient, PathFacts DEF Manifest
  <2> QED
    BY <2>1, <2>2, <2>3
<1>4. TypeOK'
  BY <1>1, <1>3 DEF Inv, TypeOK, cloud
<1>5. /\ run'[c].step = "record" /\ run'[c].snap = s /\ run'[c].saved = Docs(local[c])
      /\ run'[c].man = run[c].man /\ run'[c].answer = run[c].answer
      /\ run'[c].todo = run[c].todo /\ run'[c].up = run[c].up /\ run'[c].base = run[c].base
  BY <1>1, OfClient DEF Run
<1>6. IndexInv(c)' /\ StepInv(c)'
  BY <1>1, <1>3, <1>5, OfClient DEF IndexInv, IndexOK, StepInv
<1>7. SavedInv(c)'
  <2>1. \A d \in SnapshotDoc : local'[c][d] = local[c][d] /\ run'[c].saved[d] = local[c][d]
    BY <1>1, <1>5, OfClient, PathFacts DEF Manifest, Docs
  <2> QED
    BY <2>1 DEF SavedInv
<1>8. HashInv(c)' /\ PushInv(c)' /\ PullInv(c)' /\ DoneInv(c)'
  BY <1>5 DEF HashInv, PushInv, PullInv, DoneInv
<1> QED
  BY <1>1, <1>4, <1>6, <1>7, <1>8, OneClient DEF Inv, ClientInv, IndexOK, cloud

\* The index is no document.
LEMMA RecordSnapshotKept ==
  ASSUME Inv, NEW c \in Client, RecordSnapshot(c)
  PROVE  Inv'
<1> DEFINE rec == Recorded(c) \union {run[c].snap}
<1>1. /\ run' = [run EXCEPT ![c] = run'[c]] /\ run[c].step = "record"
      /\ run'[c] = [run[c] EXCEPT !.step = "list"]
      /\ local' = [local EXCEPT ![c] = local'[c]] /\ local'[c] = [local[c] EXCEPT ![Index] = rec]
      /\ UNCHANGED <<cloud, used, edits>> /\ OnlyOf(c) /\ CloudMoves
  BY OfClient DEF Inv, TypeOK, RecordSnapshot, Write, OnlyOf, CloudMoves, cloud
<1>2. rec \in SUBSET Snapshot /\ rec \in Sha
  <2>1. rec \in SUBSET Snapshot
    BY <1>1, OfClient DEF StepInv, IndexInv, IndexOK, Recorded
  <2> QED
    BY <2>1, PathFacts
<1>3. run'[c] \in Run /\ local'[c] \in Manifest /\ local'[c][Index] = rec
  BY <1>1, <1>2, OfClient, PathFacts DEF Run, Manifest
<1>4. TypeOK'
  BY <1>1, <1>2, <1>3 DEF Inv, TypeOK, cloud
<1>5. /\ run'[c].step = "list" /\ run'[c].saved = run[c].saved /\ run'[c].dirty = run[c].dirty
      /\ run'[c].man = run[c].man /\ run'[c].answer = run[c].answer
      /\ run'[c].todo = run[c].todo /\ run'[c].up = run[c].up /\ run'[c].base = run[c].base
  BY <1>1, OfClient DEF Run
<1>6. IndexInv(c)' /\ StepInv(c)'
  BY <1>1, <1>2, <1>3, <1>5, OfClient DEF IndexInv, IndexOK, StepInv
<1>7. SavedInv(c)'
  <2>1. \A d \in SnapshotDoc : local'[c][d] = local[c][d]
    BY <1>1, OfClient, PathFacts DEF Manifest
  <2>2. ~run[c].dirty => \A d \in SnapshotDoc : run[c].saved[d] = local[c][d]
    BY <1>1, OfClient DEF SavedInv
  <2> QED
    BY <1>5, <2>1, <2>2 DEF SavedInv
<1>8. HashInv(c)' /\ PushInv(c)' /\ PullInv(c)' /\ DoneInv(c)'
  BY <1>5 DEF HashInv, PushInv, PullInv, DoneInv
<1> QED
  BY <1>1, <1>4, <1>6, <1>7, <1>8, OneClient DEF Inv, ClientInv, IndexOK, cloud

\* What is to hash is what is there.
LEMMA ListPathsKept ==
  ASSUME Inv, NEW c \in Client, ListPaths(c)
  PROVE  Inv'
<1> DEFINE here == [q \in Path |-> IF q \in PresentPaths(c) THEN local[c][q] ELSE Nil]
<1>1. /\ run' = [run EXCEPT ![c] = run'[c]] /\ run[c].step = "list"
      /\ run'[c] = [run[c] EXCEPT !.todo = here, !.step = "hash"]
      /\ UNCHANGED <<cloud, local, used, edits>> /\ OnlyOf(c) /\ CloudMoves
  BY OfClient DEF Inv, TypeOK, ListPaths, OnlyOf, CloudMoves, cloud
<1>2. here \in Manifest /\ IndexOK(here)
  BY OfClient, PathFacts DEF Manifest, IndexInv, IndexOK
<1>3. run'[c] \in Run
  BY <1>1, <1>2, OfClient DEF Run
<1>4. TypeOK'
  BY <1>1, <1>3 DEF Inv, TypeOK, cloud
<1>5. /\ run'[c].step = "hash" /\ run'[c].saved = run[c].saved /\ run'[c].dirty = run[c].dirty
      /\ run'[c].man = run[c].man /\ run'[c].answer = run[c].answer
      /\ run'[c].todo = here /\ run'[c].up = run[c].up /\ run'[c].base = run[c].base
  BY <1>1, <1>2, OfClient DEF Run
<1>6. IndexInv(c)' /\ StepInv(c)'
  BY <1>1, <1>2, <1>5, OfClient DEF IndexInv, IndexOK, StepInv
<1>7. SavedInv(c)' /\ HashInv(c)'
  BY <1>1, <1>5, OfClient DEF SavedInv, HashInv, StepInv, PathsOf, EmptyManifest
<1>8. PushInv(c)' /\ PullInv(c)' /\ DoneInv(c)'
  BY <1>5 DEF PushInv, PullInv, DoneInv
<1> QED
  BY <1>1, <1>4, <1>6, <1>7, <1>8, OneClient DEF Inv, ClientInv, IndexOK, cloud

\* A hashed file is in the manifest as it is in the store.
LEMMA HashFileKept ==
  ASSUME Inv, NEW c \in Client, NEW p \in Path, HashFile(c, p)
  PROVE  Inv'
<1>1. /\ run' = [run EXCEPT ![c] = run'[c]] /\ run[c].step = "hash"
      /\ run'[c] = [run[c] EXCEPT !.man = [@ EXCEPT ![p] = local[c][p]],
                                  !.todo = [@ EXCEPT ![p] = Nil]]
      /\ UNCHANGED <<cloud, local, used, edits>> /\ OnlyOf(c) /\ CloudMoves
  BY OfClient DEF Inv, TypeOK, HashFile, OnlyOf, CloudMoves, cloud, Run, Manifest
<1>2. run'[c] \in Run
  <2>1. /\ run[c].man \in Manifest /\ run[c].todo \in Manifest
        /\ local[c][p] \in Sha \union {Nil}
    BY OfClient DEF Run, Manifest
  <2>2. /\ [run[c].man EXCEPT ![p] = local[c][p]] \in Manifest
        /\ [run[c].todo EXCEPT ![p] = Nil] \in Manifest
    BY <2>1 DEF Manifest
  <2> QED
    BY <1>1, <2>2, OfClient DEF Run
<1>3. TypeOK'
  BY <1>1, <1>2 DEF Inv, TypeOK, cloud
<1>4. /\ run'[c].step = "hash" /\ run'[c].saved = run[c].saved /\ run'[c].dirty = run[c].dirty
      /\ run'[c].answer = run[c].answer /\ run'[c].up = run[c].up /\ run'[c].base = run[c].base
      /\ run'[c].man = [run[c].man EXCEPT ![p] = local[c][p]]
      /\ run'[c].todo = [run[c].todo EXCEPT ![p] = Nil]
  BY <1>1, OfClient DEF Run
<1>5. run[c].man \in Manifest /\ run[c].todo \in Manifest
  BY OfClient DEF Run
<1>6. IndexInv(c)' /\ StepInv(c)'
  BY <1>1, <1>4, <1>5, OfClient, PathFacts DEF IndexInv, IndexOK, StepInv, Manifest
<1>7. SavedInv(c)'
  BY <1>1, <1>4, OfClient DEF SavedInv
<1>8. HashInv(c)'
  BY <1>1, <1>4, <1>5, OfClient DEF HashInv, PathsOf, Manifest
<1>9. PushInv(c)' /\ PullInv(c)' /\ DoneInv(c)'
  BY <1>4 DEF PushInv, PullInv, DoneInv
<1> QED
  BY <1>1, <1>3, <1>6, <1>7, <1>8, <1>9, OneClient DEF Inv, ClientInv, IndexOK, cloud

\* The server reads the manifest and numbers it.
LEMMA PushSendManifestKept ==
  ASSUME Inv, NEW c \in Client, PushSendManifest(c)
  PROVE  Inv'
<1>1. /\ run' = [run EXCEPT ![c] = run'[c]] /\ run[c].step = "hash" /\ run[c].op = "push"
      /\ run'[c] = [run[c] EXCEPT !.answer = manifest[ProjectId],
                                  !.base = version[ProjectId], !.step = "cursor"]
      /\ exists' = TRUE /\ UNCHANGED <<version, manifest, blobs, local, used, edits>>
      /\ OnlyOf(c) /\ CloudMoves
  BY OfClient DEF Inv, TypeOK, PushSendManifest, Hashed, OnlyOf, CloudMoves
<1>2. run'[c] \in Run
  BY <1>1, OfClient DEF Run
<1>3. TypeOK'
  BY <1>1, <1>2 DEF Inv, TypeOK
<1>4. /\ run'[c].step = "cursor" /\ run'[c].op = "push"
      /\ run'[c].answer = manifest[ProjectId] /\ run'[c].base = version[ProjectId]
      /\ run'[c].man = run[c].man /\ run'[c].todo = run[c].todo /\ run'[c].up = run[c].up
  BY <1>1, OfClient DEF Run
<1>5. IndexInv(c)' /\ StepInv(c)' /\ PushInv(c)'
  BY <1>1, <1>4, OfClient DEF Inv, IndexInv, IndexOK, StepInv, PushInv
<1>6. HashInv(c)' /\ PullInv(c)' /\ SavedInv(c)' /\ DoneInv(c)'
  BY <1>4 DEF HashInv, PullInv, SavedInv, DoneInv
<1> QED
  BY <1>1, <1>3, <1>5, <1>6, OneClient DEF Inv, ClientInv, IndexOK

\* What is missing is computed from what was read.
LEMMA PushReceiveTargetsKept ==
  ASSUME Inv, NEW c \in Client, PushReceiveTargets(c)
  PROVE  Inv'
<1> DEFINE targets == DiffPushTargets(run[c].man, run[c].answer)
<1>1. /\ run' = [run EXCEPT ![c] = run'[c]] /\ run[c].step = "cursor"
      /\ run'[c] = [run[c] EXCEPT !.cursor = version[ProjectId], !.up = targets,
                                  !.todo = targets, !.step = "upload"]
      /\ UNCHANGED <<cloud, local, used, edits>> /\ OnlyOf(c) /\ CloudMoves
  BY OfClient DEF Inv, TypeOK, PushReceiveTargets, OnlyOf, CloudMoves, cloud
<1>2. run[c].man \in Manifest /\ run[c].answer \in Manifest
  BY OfClient DEF Run
<1>3. targets \in Manifest /\ IndexOK(targets)
  BY <1>2, ManifestTypes, ManifestIndexes, OfClient DEF IndexInv
<1>4. run'[c] \in Run
  BY <1>1, <1>3, OfClient DEF Run
<1>5. TypeOK'
  BY <1>1, <1>4 DEF Inv, TypeOK, cloud
<1>6. /\ run'[c].step = "upload" /\ run'[c].op = run[c].op
      /\ run'[c].answer = run[c].answer /\ run'[c].base = run[c].base
      /\ run'[c].man = run[c].man /\ run'[c].todo = targets /\ run'[c].up = targets
  BY <1>1, OfClient DEF Run
<1>7. IndexInv(c)' /\ StepInv(c)' /\ PushInv(c)'
  BY <1>1, <1>3, <1>6, OfClient DEF IndexInv, IndexOK, StepInv, PushInv, cloud
<1>8. HashInv(c)' /\ PullInv(c)' /\ SavedInv(c)' /\ DoneInv(c)'
  BY <1>6 DEF HashInv, PullInv, SavedInv, DoneInv
<1> QED
  BY <1>1, <1>5, <1>7, <1>8, OneClient DEF Inv, ClientInv, IndexOK, cloud

\* An upload adds a blob.
LEMMA UploadFileKept ==
  ASSUME Inv, NEW c \in Client, NEW p \in Path, UploadFile(c, p)
  PROVE  Inv'
<1>1. /\ run' = [run EXCEPT ![c] = run'[c]] /\ run[c].step = "upload"
      /\ run'[c] = [run[c] EXCEPT !.todo = [@ EXCEPT ![p] = Nil]]
      /\ run[c].todo[p] # Nil /\ run[c].todo[p] = local[c][p]
      /\ blobs' = blobs \union {local[c][p]}
      /\ UNCHANGED <<version, manifest, exists, local, used, edits>>
      /\ OnlyOf(c) /\ CloudMoves
  BY OfClient DEF Inv, TypeOK, UploadFile, Cloud!StoreBlob, OnlyOf, CloudMoves
<1>2. run[c].todo \in Manifest /\ local[c][p] \in Sha
  BY <1>1, OfClient DEF Run, Manifest
<1>3. [run[c].todo EXCEPT ![p] = Nil] \in Manifest
  BY <1>2 DEF Manifest
<1>4. run'[c] \in Run
  BY <1>1, <1>3, OfClient DEF Run
<1>5. TypeOK'
  BY <1>1, <1>2, <1>4 DEF Inv, TypeOK
<1>6. /\ run'[c].step = "upload" /\ run'[c].op = run[c].op
      /\ run'[c].answer = run[c].answer /\ run'[c].base = run[c].base
      /\ run'[c].man = run[c].man /\ run'[c].up = run[c].up
      /\ run'[c].todo = [run[c].todo EXCEPT ![p] = Nil]
  BY <1>1, OfClient DEF Run
<1>7. IndexInv(c)' /\ StepInv(c)' /\ PushInv(c)'
  BY <1>1, <1>2, <1>6, OfClient, PathFacts
  DEF IndexInv, IndexOK, StepInv, PushInv, Manifest
<1>8. HashInv(c)' /\ PullInv(c)' /\ SavedInv(c)' /\ DoneInv(c)'
  BY <1>6 DEF HashInv, PullInv, SavedInv, DoneInv
<1> QED
  BY <1>1, <1>5, <1>7, <1>8, OneClient DEF Inv, ClientInv, IndexOK

\* What a new sync state without a sync satisfies.
LEMMA IdleKept ==
  ASSUME Inv, NEW c \in Client, run'[c] = Idle, local'[c] = local[c]
  PROVE  run'[c] \in Run /\ ClientInv(c)'
<1>1. Docs(Bootstrapped) \in [SnapshotDoc -> Sha \union {Nil}]
  BY PathFacts DEF Docs, Bootstrapped, TemplateOf
<1>2. run'[c] \in Run
  BY <1>1 DEF Idle, Run, Manifest, EmptyManifest
<1>3. /\ run'[c].step = "idle" /\ run'[c].man = EmptyManifest
      /\ run'[c].answer = EmptyManifest /\ run'[c].todo = EmptyManifest
      /\ run'[c].up = EmptyManifest
  BY DEF Idle
<1>4. IndexInv(c)'
  BY <1>3, OfClient, PathFacts DEF IndexInv, IndexOK, EmptyManifest
<1> QED
  BY <1>2, <1>3, <1>4
  DEF ClientInv, StepInv, HashInv, PushInv, PullInv, SavedInv, DoneInv

\* The commit of a push that read the cloud in one state is of what it lacked.
LEMMA CommitPublishes ==
  ASSUME NEW man \in Manifest, NEW m \in Manifest, NEW q \in PathsOf(man)
  PROVE  Overlay(m, DiffPushTargets(man, m))[q] = man[q]
BY DEF PathsOf, Overlay, DiffPushTargets, Manifest

\* The commit changes the manifest and its number.
LEMMA PushCompleteKept ==
  ASSUME Inv, NEW c \in Client, PushComplete(c)
  PROVE  Inv'
<1> DEFINE m == Overlay(manifest[ProjectId], run[c].up)
<1>1. /\ run[c].step = "upload" /\ run[c].cursor = version[ProjectId]
      /\ version' = [version EXCEPT ![ProjectId] = @ + 1]
      /\ manifest' = [manifest EXCEPT ![ProjectId] = m]
      /\ UNCHANGED <<blobs, exists, local, used, edits>>
  BY DEF PushComplete, CursorIsFresh, Cloud!Commit, Cloud!Overlay, Overlay
<1>2. version'[ProjectId] = version[ProjectId] + 1 /\ manifest'[ProjectId] = m
  BY <1>1 DEF Inv, TypeOK
<1>3. m \in Manifest /\ IndexOK(m)
  BY ManifestTypes, ManifestIndexes, OfClient DEF Inv, IndexInv, Run
<1>4. /\ version' \in [{ProjectId} -> Nat] /\ manifest' \in [{ProjectId} -> Manifest]
  BY <1>1, <1>3, OfClient DEF Inv, TypeOK
<1>5. CloudMoves
  BY <1>2 DEF CloudMoves
<1>6. CASE run' = [run EXCEPT ![c] = Idle]
  <2>1. run'[c] = Idle /\ OnlyOf(c) /\ local'[c] = local[c]
    BY <1>1, <1>6 DEF Inv, TypeOK, OnlyOf
  <2>2. run'[c] \in Run /\ ClientInv(c)'
    BY <2>1, IdleKept
  <2>3. TypeOK'
    BY <1>1, <1>4, <1>6, <2>1, <2>2 DEF Inv, TypeOK
  <2> QED
    BY <1>2, <1>3, <1>5, <2>1, <2>2, <2>3, OneClient DEF IndexOK
<1>7. CASE run' = [run EXCEPT ![c].answer = manifest'[ProjectId], ![c].step = "done"]
  <2>1. /\ run' = [run EXCEPT ![c] = run'[c]] /\ OnlyOf(c) /\ local'[c] = local[c]
        /\ run'[c] = [run[c] EXCEPT !.answer = m, !.step = "done"]
    BY <1>1, <1>2, <1>7 DEF Inv, TypeOK, OnlyOf
  <2>2. run'[c] \in Run
    BY <1>3, <2>1, OfClient DEF Run
  <2>3. TypeOK'
    BY <1>1, <1>4, <2>1, <2>2 DEF Inv, TypeOK
  <2>4. /\ run'[c].step = "done" /\ run'[c].op = "push" /\ run'[c].answer = m
        /\ run'[c].base = run[c].base /\ run'[c].cursor = run[c].cursor
        /\ run'[c].man = run[c].man /\ run'[c].up = run[c].up /\ run'[c].todo = run[c].todo
    BY <1>1, <2>1, OfClient DEF Run, StepInv
  <2>5. IndexInv(c)' /\ StepInv(c)'
    BY <1>3, <2>1, <2>4, OfClient DEF IndexInv, IndexOK, StepInv
  <2>6. DoneInv(c)'
    <3>1. run[c].base = run[c].cursor =>
            m = Overlay(manifest[ProjectId], DiffPushTargets(run[c].man, manifest[ProjectId]))
      BY <1>1, OfClient DEF PushInv
    <3>2. run[c].base = run[c].cursor =>
            \A q \in PathsOf(run[c].man) : m[q] = run[c].man[q]
      BY <3>1, CommitPublishes, OfClient DEF Run
    <3> QED
      BY <2>4, <3>2 DEF DoneInv
  <2>7. HashInv(c)' /\ PushInv(c)' /\ PullInv(c)' /\ SavedInv(c)'
    BY <2>4 DEF HashInv, PushInv, PullInv, SavedInv
  <2> QED
    BY <1>2, <1>3, <1>5, <2>1, <2>3, <2>5, <2>6, <2>7, OneClient DEF ClientInv, IndexOK
<1> QED
  BY <1>6, <1>7 DEF PushComplete

\* The server's answer to a pull: what to fetch, what to delete.
LEMMA PullSendManifestKept ==
  ASSUME Inv, NEW c \in Client, PullSendManifest(c)
  PROVE  Inv'
<1> DEFINE m == manifest[ProjectId]
           fetch == DiffPullTargets(m, run[c].man)
           drop == DiffRemoved(run[c].man, m)
<1>1. /\ run[c].step = "hash" /\ run[c].op = "pull" /\ PathsOf(run[c].todo) = {}
      /\ UNCHANGED <<cloud, local, used, edits>> /\ CloudMoves
  BY DEF PullSendManifest, Hashed, CloudMoves, cloud
<1>2. /\ run[c].man \in Manifest /\ m \in Manifest /\ IndexOK(run[c].man) /\ IndexOK(m)
  BY OfClient DEF Inv, Run, IndexInv
<1>3. CASE run' = [run EXCEPT ![c].answer = m, ![c].base = version[ProjectId],
             ![c].todo = fetch, ![c].removed = drop, ![c].step = "download"]
  <2>1. /\ run' = [run EXCEPT ![c] = run'[c]] /\ OnlyOf(c)
        /\ run'[c] = [run[c] EXCEPT !.answer = m, !.base = version[ProjectId],
                         !.todo = fetch, !.removed = drop, !.step = "download"]
    BY <1>1, <1>3 DEF Inv, TypeOK, OnlyOf
  <2>2. fetch \in Manifest /\ IndexOK(fetch) /\ drop \in SUBSET Path
    BY <1>2, ManifestTypes, ManifestIndexes
  <2>3. run'[c] \in Run
    BY <1>2, <2>1, <2>2, OfClient DEF Run
  <2>4. TypeOK'
    BY <1>1, <2>1, <2>3 DEF Inv, TypeOK, cloud
  <2>5. /\ run'[c].step = "download" /\ run'[c].op = "pull" /\ run'[c].answer = m
        /\ run'[c].todo = fetch /\ run'[c].removed = drop
        /\ run'[c].man = run[c].man /\ run'[c].up = run[c].up
        /\ run'[c].saved = run[c].saved /\ run'[c].dirty = run[c].dirty
    BY <1>1, <2>1, OfClient DEF Run
  <2>6. IndexInv(c)' /\ StepInv(c)'
    BY <1>1, <1>2, <2>2, <2>5, OfClient DEF IndexInv, IndexOK, StepInv
  <2>7. PullInv(c)'
    <3>1. \A q \in PathsOf(fetch) : fetch[q] = m[q]
      BY DEF PathsOf, DiffPullTargets
    <3>2. \A q \in drop : m[q] = Nil
      BY DEF DiffRemoved, PathsOf
    <3>3. ~run[c].dirty => \A q \in Path :
            fetch[q] # Nil \/ q \in drop \/ local[c][q] = m[q] \/ (m[q] = Nil /\ run[c].man[q] = Nil)
      BY <1>1, OfClient DEF HashInv, PathsOf, DiffPullTargets, DiffRemoved
    <3> QED
      BY <1>1, <2>5, <3>1, <3>2, <3>3 DEF PullInv
  <2>8. SavedInv(c)'
    BY <1>1, <2>5, OfClient DEF SavedInv
  <2>9. HashInv(c)' /\ PushInv(c)' /\ DoneInv(c)'
    BY <2>5 DEF HashInv, PushInv, DoneInv
  <2> QED
    BY <1>1, <2>1, <2>4, <2>6, <2>7, <2>8, <2>9, OneClient DEF Inv, ClientInv, IndexOK, cloud
<1>4. CASE run' = [run EXCEPT ![c].answer = EmptyManifest, ![c].step = "download"]
  <2>1. /\ run' = [run EXCEPT ![c] = run'[c]] /\ OnlyOf(c)
        /\ run'[c] = [run[c] EXCEPT !.answer = EmptyManifest, !.step = "download"]
    BY <1>1, <1>4 DEF Inv, TypeOK, OnlyOf
  <2>2. EmptyManifest \in Manifest /\ IndexOK(EmptyManifest) /\ \A q \in Path : EmptyManifest[q] = Nil
    BY <1>2, ManifestTypes, ManifestIndexes DEF EmptyManifest
  <2>3. run'[c] \in Run
    BY <2>1, <2>2, OfClient DEF Run
  <2>4. TypeOK'
    BY <1>1, <2>1, <2>3 DEF Inv, TypeOK, cloud
  <2>5. /\ run'[c].step = "download" /\ run'[c].op = "pull" /\ run'[c].answer = EmptyManifest
        /\ run'[c].todo = run[c].todo /\ run'[c].removed = run[c].removed
        /\ run'[c].man = run[c].man /\ run'[c].up = run[c].up /\ run'[c].base = 0
        /\ run'[c].saved = run[c].saved /\ run'[c].dirty = run[c].dirty
    BY <1>1, <2>1, OfClient DEF Run, StepInv
  <2>6. IndexInv(c)' /\ StepInv(c)'
    BY <1>1, <1>2, <2>2, <2>5, OfClient DEF IndexInv, IndexOK, StepInv
  <2>7. PullInv(c)'
    BY <1>1, <2>2, <2>5, OfClient DEF PullInv, Run
  <2>8. SavedInv(c)'
    BY <1>1, <2>5, OfClient DEF SavedInv
  <2>9. HashInv(c)' /\ PushInv(c)' /\ DoneInv(c)'
    BY <2>5 DEF HashInv, PushInv, DoneInv
  <2> QED
    BY <1>1, <2>1, <2>4, <2>6, <2>7, <2>8, <2>9, OneClient DEF Inv, ClientInv, IndexOK, cloud
<1> QED
  BY <1>3, <1>4 DEF PullSendManifest

\* A downloaded file is as the cloud listed it.
LEMMA DownloadFileKept ==
  ASSUME Inv, NEW c \in Client, NEW p \in Path, DownloadFile(c, p)
  PROVE  Inv'
<1> DEFINE x == run[c].todo[p]
<1>1. /\ run' = [run EXCEPT ![c] = run'[c]] /\ run[c].step = "download" /\ x # Nil
      /\ run'[c] = [run[c] EXCEPT !.todo = [@ EXCEPT ![p] = Nil]]
      /\ local' = [local EXCEPT ![c] = local'[c]] /\ local'[c] = [local[c] EXCEPT ![p] = x]
      /\ UNCHANGED <<cloud, used, edits>> /\ OnlyOf(c) /\ CloudMoves
  BY OfClient DEF Inv, TypeOK, DownloadFile, Write, OnlyOf, CloudMoves, cloud
<1>2. run[c].todo \in Manifest /\ x \in Sha
  BY <1>1, OfClient DEF Run, Manifest
<1>3. [run[c].todo EXCEPT ![p] = Nil] \in Manifest
  BY <1>2 DEF Manifest
<1>4. run'[c] \in Run
  BY <1>1, <1>3, OfClient DEF Run
<1>5. local'[c] \in Manifest
  BY <1>1, <1>2, OfClient DEF Manifest
<1>6. /\ run'[c].step = "download" /\ run'[c].op = run[c].op
      /\ run'[c].answer = run[c].answer /\ run'[c].base = run[c].base
      /\ run'[c].man = run[c].man /\ run'[c].up = run[c].up /\ run'[c].removed = run[c].removed
      /\ run'[c].saved = run[c].saved /\ run'[c].dirty = run[c].dirty
      /\ run'[c].todo = [run[c].todo EXCEPT ![p] = Nil]
  BY <1>1, OfClient DEF Run
<1>7. \A q \in Path : /\ local'[c][q] = IF q = p THEN x ELSE local[c][q]
                      /\ run'[c].todo[q] = IF q = p THEN Nil ELSE run[c].todo[q]
  BY <1>1, <1>2, <1>6, OfClient DEF Manifest
<1>8. x = run[c].answer[p] /\ p \notin run[c].removed
  BY <1>1, OfClient DEF PullInv, PathsOf
<1>9. IndexInv(c)' /\ StepInv(c)'
  BY <1>1, <1>6, <1>7, OfClient, PathFacts DEF IndexInv, IndexOK, StepInv
<1>10. TypeOK'
  <2>1. local'[c][Index] # Nil => local'[c][Index] \subseteq Snapshot
    BY <1>9 DEF IndexInv, IndexOK
  <2> QED
    BY <1>1, <1>4, <1>5, <2>1 DEF Inv, TypeOK, cloud
<1>11. PullInv(c)'
  BY <1>1, <1>6, <1>7, <1>8, OfClient DEF PullInv, PathsOf
<1>12. SavedInv(c)'
  <2>1. \A d \in SnapshotDoc : d \in Path
    BY PathFacts
  <2> QED
    BY <1>1, <1>6, <1>7, <1>8, <2>1, OfClient DEF SavedInv
<1>13. HashInv(c)' /\ PushInv(c)' /\ DoneInv(c)'
  BY <1>6 DEF HashInv, PushInv, DoneInv
<1> QED
  BY <1>1, <1>9, <1>10, <1>11, <1>12, <1>13, OneClient DEF Inv, ClientInv, IndexOK, cloud

\* A removed file is one that the cloud did not list.
LEMMA RemoveFileKept ==
  ASSUME Inv, NEW c \in Client, NEW p \in Path, RemoveFile(c, p)
  PROVE  Inv'
<1>1. /\ run' = [run EXCEPT ![c] = run'[c]] /\ run[c].step = "download"
      /\ p \in run[c].removed /\ PathsOf(run[c].todo) = {}
      /\ run'[c] = [run[c] EXCEPT !.removed = @ \ {p}]
      /\ local' = [local EXCEPT ![c] = local'[c]] /\ local'[c] = [local[c] EXCEPT ![p] = Nil]
      /\ UNCHANGED <<cloud, used, edits>> /\ OnlyOf(c) /\ CloudMoves
  BY OfClient DEF Inv, TypeOK, RemoveFile, Downloaded, Write, OnlyOf, CloudMoves, cloud
<1>2. run'[c] \in Run
  BY <1>1, OfClient DEF Run
<1>3. local'[c] \in Manifest
  BY <1>1, OfClient DEF Manifest
<1>4. /\ run'[c].step = "download" /\ run'[c].op = run[c].op
      /\ run'[c].answer = run[c].answer /\ run'[c].base = run[c].base
      /\ run'[c].man = run[c].man /\ run'[c].up = run[c].up /\ run'[c].todo = run[c].todo
      /\ run'[c].saved = run[c].saved /\ run'[c].dirty = run[c].dirty
      /\ run'[c].removed = run[c].removed \ {p}
  BY <1>1, OfClient DEF Run
<1>5. \A q \in Path : local'[c][q] = IF q = p THEN Nil ELSE local[c][q]
  BY <1>1, OfClient DEF Manifest
<1>6. run[c].answer[p] = Nil
  BY <1>1, OfClient DEF PullInv
<1>7. IndexInv(c)' /\ StepInv(c)'
  BY <1>1, <1>4, <1>5, OfClient, PathFacts DEF IndexInv, IndexOK, StepInv
<1>8. TypeOK'
  <2>1. local'[c][Index] # Nil => local'[c][Index] \subseteq Snapshot
    BY <1>7 DEF IndexInv, IndexOK
  <2> QED
    BY <1>1, <1>2, <1>3, <2>1 DEF Inv, TypeOK, cloud
<1>9. PullInv(c)'
  BY <1>1, <1>4, <1>5, <1>6, OfClient DEF PullInv, PathsOf
<1>10. SavedInv(c)'
  <2>1. \A d \in SnapshotDoc : d \in Path
    BY PathFacts
  <2> QED
    BY <1>1, <1>4, <1>5, <2>1, OfClient DEF SavedInv, PathsOf
<1>11. HashInv(c)' /\ PushInv(c)' /\ DoneInv(c)'
  BY <1>4 DEF HashInv, PushInv, DoneInv
<1> QED
  BY <1>1, <1>7, <1>8, <1>9, <1>10, <1>11, OneClient DEF Inv, ClientInv, IndexOK, cloud

\* Missing canonical files come back as templates, and the pull is done.
LEMMA ReindexKept ==
  ASSUME Inv, NEW c \in Client, NEW created \in SUBSET Canonical, Reindex(c, created)
  PROVE  Inv'
<1> DEFINE files == [q \in Path |-> IF q \in created THEN TemplateOf(q) ELSE local[c][q]]
<1>1. /\ run' = [run EXCEPT ![c] = run'[c]] /\ run[c].step = "download"
      /\ run[c].removed = {} /\ PathsOf(run[c].todo) = {}
      /\ \A q \in created : q \in Path => local[c][q] = Nil
      /\ run'[c] = [run[c] EXCEPT !.step = "done"]
      /\ local' = [local EXCEPT ![c] = local'[c]] /\ local'[c] = files
      /\ UNCHANGED <<cloud, used, edits>> /\ OnlyOf(c) /\ CloudMoves
  BY OfClient DEF Inv, TypeOK, Reindex, Downloaded, PathsOf, OnlyOf, CloudMoves, cloud
<1>2. run'[c] \in Run
  BY <1>1, OfClient DEF Run
<1>3. files \in Manifest /\ IndexOK(files)
  BY OfClient, PathFacts DEF Manifest, TemplateOf, IndexOK, IndexInv
<1>4. /\ run'[c].step = "done" /\ run'[c].op = "pull"
      /\ run'[c].answer = run[c].answer /\ run'[c].base = run[c].base
      /\ run'[c].man = run[c].man /\ run'[c].up = run[c].up /\ run'[c].todo = run[c].todo
      /\ run'[c].dirty = run[c].dirty
  BY <1>1, OfClient DEF Run, StepInv
<1>5. IndexInv(c)' /\ StepInv(c)'
  BY <1>1, <1>3, <1>4, OfClient DEF IndexInv, IndexOK, StepInv
<1>6. TypeOK'
  BY <1>1, <1>2, <1>3 DEF Inv, TypeOK, IndexOK, cloud
<1>7. DoneInv(c)'
  <2>1. run[c].base > 0 /\ ~run[c].dirty => \A q \in Path :
          local[c][q] = run[c].answer[q] \/ (run[c].answer[q] = Nil /\ run[c].man[q] = Nil)
    BY <1>1, OfClient DEF PullInv, PathsOf
  <2>2. \A q \in Path : IF q \in created
                        THEN local[c][q] = Nil /\ q \in Canonical /\ local'[c][q] = TemplateOf(q)
                        ELSE local'[c][q] = local[c][q]
    BY <1>1
  <2>3. run[c].base > 0 /\ ~run[c].dirty => Mirrors(c)'
    BY <1>4, <2>1, <2>2 DEF Mirrors
  <2> QED
    BY <1>4, <2>3 DEF DoneInv
<1>8. HashInv(c)' /\ PushInv(c)' /\ PullInv(c)' /\ SavedInv(c)'
  BY <1>4 DEF HashInv, PushInv, PullInv, SavedInv
<1> QED
  BY <1>1, <1>5, <1>6, <1>7, <1>8, OneClient DEF Inv, ClientInv, IndexOK, cloud

\* A sync that stops leaves the store as it is.
LEMMA StopKept ==
  ASSUME Inv, NEW c \in Client, Stop(c)
  PROVE  Inv'
<1>1. /\ run' = [run EXCEPT ![c] = Idle] /\ run'[c] = Idle
      /\ UNCHANGED <<cloud, local, used, edits>> /\ OnlyOf(c) /\ CloudMoves
  BY DEF Inv, TypeOK, Stop, OnlyOf, CloudMoves, cloud
<1>2. run'[c] \in Run /\ ClientInv(c)'
  BY <1>1, IdleKept
<1>3. TypeOK'
  BY <1>1, <1>2 DEF Inv, TypeOK, cloud
<1> QED
  BY <1>1, <1>2, <1>3, OneClient DEF Inv, IndexOK, cloud

\* Nothing happens.
LEMMA StutterKept ==
  ASSUME Inv, UNCHANGED vars
  PROVE  Inv'
<1>1. TypeOK' /\ CloudMoves /\ IndexOK(manifest[ProjectId])'
  BY DEF Inv, TypeOK, CloudMoves, IndexOK, vars
<1> QED
  BY <1>1, OthersKept DEF Inv, vars

-----------------------------------------------------------------------------
(***************************************************************************)
(* The theorems.                                                           *)
(***************************************************************************)
\* The invariant holds of new stores and an empty cloud.
LEMMA InitInv == Init => Inv
<1> SUFFICES ASSUME Init PROVE Inv
  OBVIOUS
<1>1. Bootstrapped \in Manifest /\ IndexOK(Bootstrapped)
  BY PathFacts DEF Bootstrapped, Manifest, TemplateOf, IndexOK
<1>2. Idle \in Run
  <2>1. Docs(Bootstrapped) \in [SnapshotDoc -> Sha \union {Nil}]
    BY PathFacts DEF Docs, Bootstrapped, TemplateOf
  <2> QED
    BY <2>1 DEF Idle, Run, Manifest, EmptyManifest
<1>3. EmptyManifest \in Manifest /\ IndexOK(EmptyManifest)
  BY PathFacts DEF EmptyManifest, Manifest, IndexOK
<1>4. version = [p \in {ProjectId} |-> 0] /\ manifest = [p \in {ProjectId} |-> EmptyManifest] /\ blobs = {}
  BY DEF Init, Cloud!Init, Cloud!EmptyManifest, EmptyManifest
<1>5. TypeOK
  <2>1. version \in [{ProjectId} -> Nat] /\ manifest \in [{ProjectId} -> Manifest]
    BY <1>3, <1>4
  <2>2. local \in [Client -> Manifest] /\ run \in [Client -> Run]
    BY <1>1, <1>2 DEF Init
  <2>3. edits \in 0 .. MaxEdits
    BY BoundAssumption DEF Init
  <2>4. \A c \in Client : local[c][Index] # Nil => local[c][Index] \subseteq Snapshot
    BY <1>1 DEF Init, IndexOK
  <2> QED
    BY <1>4, <2>1, <2>2, <2>3, <2>4 DEF Init, TypeOK
<1>6. ASSUME NEW c \in Client PROVE ClientInv(c)
  <2>1. /\ run[c] = Idle /\ run[c].step = "idle" /\ local[c] = Bootstrapped
        /\ run[c].man = EmptyManifest /\ run[c].answer = EmptyManifest
        /\ run[c].todo = EmptyManifest /\ run[c].up = EmptyManifest
    BY DEF Init, Idle
  <2> QED
    BY <1>1, <1>3, <2>1
    DEF ClientInv, IndexInv, StepInv, HashInv, PushInv, PullInv, SavedInv, DoneInv
<1> QED
  BY <1>3, <1>4, <1>5, <1>6 DEF Inv

\* Every step of a tool, a sync or the cloud keeps it.
LEMMA NextInv == Inv /\ [Next]_vars => Inv'
<1> SUFFICES ASSUME Inv, [Next]_vars PROVE Inv'
  OBVIOUS
<1>1. CASE UNCHANGED vars
  BY <1>1, StutterKept
<1>2. ASSUME NEW c \in Client, NEW q \in Path,
             HashFile(c, q) \/ UploadFile(c, q) \/ DownloadFile(c, q) \/ RemoveFile(c, q)
      PROVE  Inv'
  BY <1>2, HashFileKept, UploadFileKept, DownloadFileKept, RemoveFileKept
<1>3. ASSUME NEW c \in Client,
             \/ PushSendManifest(c) \/ PushReceiveTargets(c) \/ PushComplete(c)
             \/ PullSendManifest(c)
             \/ \E created \in SUBSET Canonical : Reindex(c, created)
             \/ Stop(c)
      PROVE  Inv'
  BY <1>3, PushSendManifestKept, PushReceiveTargetsKept, PushCompleteKept,
     PullSendManifestKept, ReindexKept, StopKept
<1>4. ASSUME NEW c \in Client,
             \/ \E d \in Doc, v \in Version : Edit(c, d, v)
             \/ \E o \in {"push", "pull"} : Start(c, o)
             \/ \E s \in Snapshot : WriteSnapshot(c, s)
             \/ RecordSnapshot(c) \/ ListPaths(c)
      PROVE  Inv'
  BY <1>4, EditKept, StartKept, WriteSnapshotKept, RecordSnapshotKept, ListPathsKept
<1> QED
  BY <1>1, <1>2, <1>3, <1>4 DEF Next

\* The inductive invariant.
THEOREM ReplicaInvariant == Spec => []Inv
  BY InitInv, NextInv, PTL DEF Spec

\* The types of stores, syncs and the cloud; an index holds snapshots.
THEOREM ReplicaTypeCorrect == Spec => []TypeOK
<1>1. Inv => TypeOK
  BY DEF Inv
<1> QED
  BY <1>1, ReplicaInvariant, PTL

\* A pull of a project with commits leaves a replica of one manifest of the
\* cloud, unless a tool wrote meanwhile.
THEOREM PullsMirror == Spec => []PullMirrors
<1>1. Inv => PullMirrors
  BY DEF Inv, ClientInv, DoneInv, PullMirrors
<1> QED
  BY <1>1, ReplicaInvariant, PTL

\* A push that returns has published what it hashed, unless a commit fell
\* between the server's two reads.
THEOREM PushesPublish == Spec => []PushPublishes
<1>1. Inv => PushPublishes
  BY DEF Inv, ClientInv, DoneInv, PushPublishes
<1> QED
  BY <1>1, ReplicaInvariant, PTL

\* Only downloads and removals overwrite a document that is there.
LEMMA SavedStep ==
  ASSUME Inv, [Next]_vars, NEW c \in Client, NEW d \in SnapshotDoc,
         Overwrites(c, d), ~run[c].dirty
  PROVE  run[c].saved[d] = local[c][d]
<1>1. /\ d \in Path /\ d \in Doc /\ d # Index /\ d \notin Snapshot /\ local[c] \in Manifest
      /\ local'[c][d] # local[c][d] /\ local[c][d] # Nil /\ edits' = edits
  BY OfClient, PathFacts DEF Overwrites
<1>2. PICK b \in Client :
        \/ \E q \in Path : DownloadFile(b, q) \/ RemoveFile(b, q)
        \/ \E s \in Snapshot : WriteSnapshot(b, s)
        \/ RecordSnapshot(b)
        \/ \E created \in SUBSET Canonical : Reindex(b, created)
  <2>1. UNCHANGED vars => FALSE
    BY <1>1 DEF vars
  <2>2. ASSUME NEW b \in Client, NEW e \in Doc, NEW v \in Version, Edit(b, e, v) PROVE FALSE
    BY <1>1, <2>2 DEF Edit, Inv, TypeOK
  <2>3. ASSUME NEW b \in Client,
               \/ \E o \in {"push", "pull"} : Start(b, o)
               \/ ListPaths(b)
               \/ \E q \in Path : HashFile(b, q) \/ UploadFile(b, q)
               \/ PushSendManifest(b) \/ PushReceiveTargets(b) \/ PushComplete(b)
               \/ PullSendManifest(b) \/ Stop(b)
        PROVE  FALSE
    BY <1>1, <2>3 DEF Start, ListPaths, HashFile, UploadFile, PushSendManifest,
       PushReceiveTargets, PushComplete, PullSendManifest, Stop
  <2> QED
    BY <2>1, <2>2, <2>3 DEF Next
<1>3. local' = [local EXCEPT ![b] = local'[b]]
  BY <1>2 DEF DownloadFile, RemoveFile, WriteSnapshot, RecordSnapshot, Reindex, Write,
     Inv, TypeOK
<1>4. b = c
  BY <1>1, <1>3 DEF Inv, TypeOK
<1>5. ASSUME NEW q \in Path, DownloadFile(c, q) \/ RemoveFile(c, q)
      PROVE  run[c].saved[d] = local[c][d]
  <2>1. q = d
    BY <1>1, <1>5 DEF DownloadFile, RemoveFile, Write, Inv, TypeOK, Manifest
  <2> QED
    BY <1>5, <2>1, OfClient DEF SavedInv, DownloadFile, RemoveFile, Downloaded
<1>6. ASSUME NEW s \in Snapshot, WriteSnapshot(c, s) PROVE FALSE
  BY <1>1, <1>6 DEF WriteSnapshot, Write, Inv, TypeOK, Manifest
<1>7. ASSUME RecordSnapshot(c) PROVE FALSE
  BY <1>1, <1>7 DEF RecordSnapshot, Write, Inv, TypeOK, Manifest
<1>8. ASSUME NEW created \in SUBSET Canonical, Reindex(c, created) PROVE FALSE
  BY <1>1, <1>8 DEF Reindex, PathsOf, Inv, TypeOK, Manifest
<1> QED
  BY <1>2, <1>4, <1>5, <1>6, <1>7, <1>8

\* A sync never changes or deletes a document whose version its snapshot does
\* not hold, unless a tool wrote since the sync began.
THEOREM SyncsSaveFirst == Spec => OverwritesAreSaved
<1>1. Inv /\ [Next]_vars =>
        [\A c \in Client, d \in SnapshotDoc :
           (Overwrites(c, d) /\ ~run[c].dirty) => run[c].saved[d] = local[c][d]]_vars
  BY SavedStep
<1> QED
  BY <1>1, ReplicaInvariant, PTL DEF Spec, OverwritesAreSaved

-----------------------------------------------------------------------------
(***************************************************************************)
(* The clients only use the cloud as CloudReplica describes it.            *)
(***************************************************************************)
\* The cloud's variables change by an upload or a commit.
LEMMA CloudSteps == Inv /\ [Next]_vars => [Cloud!Next]_<<version, manifest, storage, blobs>>
<1> SUFFICES ASSUME Inv, [Next]_vars
             PROVE  Cloud!Next \/ UNCHANGED <<version, manifest, storage, blobs>>
  OBVIOUS
<1>1. ASSUME NEW c \in Client, NEW q \in Path, UploadFile(c, q)
      PROVE  Cloud!Next
  <2>1. Cloud!StoreBlob(local[c][q]) /\ local[c][q] \in Sha
    BY <1>1, OfClient DEF UploadFile, Manifest
  <2> QED
    BY <2>1 DEF Cloud!Next
<1>2. ASSUME NEW c \in Client, PushComplete(c)
      PROVE  Cloud!Next
  <2>1. Cloud!Commit(ProjectId, run[c].up) /\ run[c].up \in Manifest
    BY <1>2, OfClient DEF PushComplete, Run
  <2>2. Cloud!Manifest = Manifest
    BY DEF Cloud!Manifest, Manifest
  <2> QED
    BY <2>1, <2>2 DEF Cloud!Next
<1>3. ASSUME NEW c \in Client,
             \/ \E d \in Doc, v \in Version : Edit(c, d, v)
             \/ \E o \in {"push", "pull"} : Start(c, o)
             \/ \E s \in Snapshot : WriteSnapshot(c, s)
             \/ RecordSnapshot(c) \/ ListPaths(c)
             \/ \E q \in Path : HashFile(c, q) \/ DownloadFile(c, q) \/ RemoveFile(c, q)
             \/ PushSendManifest(c) \/ PushReceiveTargets(c) \/ PullSendManifest(c)
             \/ \E created \in SUBSET Canonical : Reindex(c, created)
             \/ Stop(c)
      PROVE  UNCHANGED <<version, manifest, storage, blobs>>
  BY <1>3 DEF Edit, Start, WriteSnapshot, RecordSnapshot, ListPaths, HashFile, DownloadFile,
     RemoveFile, PushSendManifest, PushReceiveTargets, PullSendManifest, Reindex, Stop, cloud
<1>4. CASE UNCHANGED vars
  BY <1>4 DEF vars
<1> QED
  BY <1>1, <1>2, <1>3, <1>4 DEF Next

\* Whatever the clients do and wherever they stop, the cloud is a CloudReplica,
\* which is what the sync API implements: the two halves fit.
THEOREM UsesReplica == Spec => Cloud!Spec
<1>1. Init => Cloud!Init
  BY DEF Init
<1> QED
  BY <1>1, CloudSteps, ReplicaInvariant, PTL DEF Spec, Cloud!Spec, Cloud!vars
=============================================================================
