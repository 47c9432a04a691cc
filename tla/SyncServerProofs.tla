-------------------------- MODULE SyncServerProofs --------------------------
(***************************************************************************)
(* Proofs about SyncServer, for every value of its constants: facts about  *)
(* manifests, the inductive invariant, and the safety properties that it   *)
(* gives.                                                                  *)
(***************************************************************************)
EXTENDS SyncServer, TLAPS

(***************************************************************************)
(* Facts about the manifest operators.                                     *)
(***************************************************************************)
\* The results of the operators are manifests again.
LEMMA ManifestTypes ==
  ASSUME NEW m \in Manifest, NEW up \in Manifest
  PROVE  /\ EmptyManifest \in Manifest
         /\ Overlay(m, up) \in Manifest
         /\ DiffPushTargets(m, up) \in Manifest
         /\ DiffPullTargets(m, up) \in Manifest
  BY DEF Manifest, EmptyManifest, Overlay, DiffPushTargets, DiffPullTargets

\* Committing what loadCloudManifest said was missing brings the cloud to the
\* client's version of every file the client has, and keeps every other entry.
LEMMA PushConverges ==
  ASSUME NEW client \in Manifest, NEW cloud \in Manifest, NEW q \in Path
  PROVE  Overlay(cloud, DiffPushTargets(client, cloud))[q] =
           IF client[q] # Nil THEN client[q] ELSE cloud[q]
  BY DEF Manifest, Overlay, DiffPushTargets

\* Writing the pull targets and deleting the removed paths turns the client's
\* manifest into the cloud's.
LEMMA PullConverges ==
  ASSUME NEW client \in Manifest, NEW cloud \in Manifest, NEW q \in Path
  PROVE  cloud[q] =
           IF q \in DiffRemoved(client, cloud) THEN Nil
           ELSE Overlay(client, DiffPullTargets(cloud, client))[q]
  BY DEF Manifest, Overlay, DiffPullTargets, DiffRemoved, PathsOf

\* Blobs that cover a manifest and an upload cover the overlay of both.
LEMMA OverlayShas ==
  ASSUME NEW m \in Manifest, NEW up \in Manifest
  PROVE  ShasOf(Overlay(m, up)) \subseteq ShasOf(m) \union ShasOf(up)
  BY DEF Manifest, Overlay, ShasOf, PathsOf

\* A project without files stores nothing.
LEMMA EmptyStorage == StorageOf(EmptyManifest) = 0
<1>1. PathsOf(EmptyManifest) = {}
  BY DEF PathsOf, EmptyManifest
<1> QED
  BY <1>1 DEF StorageOf, MapThenSumSet, MapThenFoldSet

(***************************************************************************)
(* The inductive invariant.                                                *)
(***************************************************************************)
\* A handler is inside the transaction exactly when it has the write lock.
LockInv == \A h \in Handler : InTransaction(h) <=> writeLock = h

\* The rows of sync_cursors number the commits 1, 2, ...
CursorsInv ==
  \A p \in Project :
    /\ Len(cursors[p]) = Len(log[p])
    /\ \A i \in 1 .. Len(cursors[p]) : cursors[p][i] = i

\* A busy handler works for a known client and project.
RequestInv ==
  /\ \A h \in Handler :
       pc[h] # "idle" => arg[h].client \in Client /\ arg[h].project \in Project
  /\ \A c \in Client : held[c] = NoPush \/ held[c].project \in Project

\* What the gate checked and the bump computed is still so until the commit.
GateInv ==
  \A h \in Handler :
    /\ pc[h] \in {"bump", "upsert", "commit"} =>
         arg[h].cursor \in {NoCursor, Len(log[arg[h].project])}
    /\ pc[h] \in {"upsert", "commit"} =>
         tx[h].seq = Len(log[arg[h].project]) + 1

IInv == TypeOK /\ LockInv /\ CursorsInv /\ RequestInv /\ GateInv

-----------------------------------------------------------------------------
\* The largest of the numbers 1, 2, ... is how many there are.
LEMMA MaxOfCount ==
  ASSUME NEW s \in Seq(Nat), \A i \in 1 .. Len(s) : s[i] = i
  PROVE  LET values == {s[i] : i \in DOMAIN s}
         IN (IF values = {} THEN 0 ELSE Max(values)) = Len(s)
<1> DEFINE n == Len(s)
<1>1. n \in Nat /\ DOMAIN s = 1 .. n
  OBVIOUS
<1>2. {s[i] : i \in DOMAIN s} = 1 .. n
  BY <1>1
<1> HIDE DEF n
<1>3. CASE n = 0
  BY <1>2, <1>3
<1>4. CASE n # 0
  <2>1. n \in 1 .. n /\ \A y \in 1 .. n : n >= y
    BY <1>1, <1>4
  <2>2. ASSUME NEW x \in 1 .. n, \A y \in 1 .. n : x >= y
        PROVE  x = n
    BY <1>1, <2>1, <2>2
  <2>3. Max(1 .. n) = n
    BY <2>1, <2>2, Zenon DEF Max
  <2> QED
    BY <1>2, <2>1, <2>3 DEF n
<1> QED
  BY <1>3, <1>4 DEF n

LEMMA CurrentCursorIsLen ==
  ASSUME TypeOK, CursorsInv, NEW p \in Project
  PROVE  CurrentCursor(p) = Len(log[p]) /\ CurrentCursor(p) \in Nat
<1>1. cursors[p] \in Seq(Nat) /\ Len(cursors[p]) = Len(log[p])
      /\ \A i \in 1 .. Len(cursors[p]) : cursors[p][i] = i
  BY DEF TypeOK, CursorsInv
<1>2. CurrentCursor(p) = Len(cursors[p])
  BY <1>1, MaxOfCount DEF CurrentCursor, SeqsOf
<1> QED
  BY <1>1, <1>2

\* Deleting a project involves no handler.
LEMMA DeleteTypes ==
  ASSUME TypeOK, NEW c \in Client, NEW p \in Project, DeleteProject(c, p)
  PROVE  TypeOK'
<1>1. EmptyManifest \in Manifest /\ 0 \in Bytes /\ << >> \in Seq(Nat) /\ << >> \in Seq(Entry)
  BY DEF Manifest, EmptyManifest, Bytes
<1> QED
  BY <1>1 DEF DeleteProject, TypeOK

\* The records of Init and Release are of the declared types.
LEMMA NoneTypes ==
  /\ NoArg \in Request /\ NoReply \in Reply /\ NoPush \in Push
  /\ NoRead \in [man : Manifest, cursor : Cursor, total : Bytes]
  /\ NoTx \in [seq : Nat, up : Manifest, total : Bytes]
  BY DEF NoArg, NoReply, NoPush, NoRead, NoTx, NoCursor, Request, Reply, Push,
         Cursor, Bytes, Statuses, Manifest, EmptyManifest

THEOREM InitIInv == Init => IInv
<1> SUFFICES ASSUME Init PROVE IInv
  OBVIOUS
<1>1. TypeOK
  <2>1. EmptyManifest \in Manifest /\ 0 \in Bytes
    BY DEF Manifest, EmptyManifest, Bytes
  <2> QED
    BY <2>1, NoneTypes DEF Init, TypeOK, Steps
<1>2. LockInv
  BY NilIsNoMember DEF Init, LockInv, InTransaction
<1>3. CursorsInv /\ RequestInv /\ GateInv
  BY DEF Init, CursorsInv, RequestInv, GateInv
<1> QED
  BY <1>1, <1>2, <1>3 DEF IInv

-----------------------------------------------------------------------------
(***************************************************************************)
(* Types.                                                                  *)
(***************************************************************************)
\* Moving on and answering keep the types of pc and reply.
LEMMA GotoTypes ==
  ASSUME TypeOK, NEW h \in Handler, NEW step \in Steps, Goto(h, step)
  PROVE  pc' \in [Handler -> Steps]
  BY DEF TypeOK, Goto

LEMMA RespondTypes ==
  ASSUME TypeOK, NEW h \in Handler, NEW status \in Statuses,
         NEW man \in Manifest, NEW cursor \in Cursor, Respond(h, status, man, cursor),
         arg[h].project \in Project
  PROVE  pc' \in [Handler -> Steps] /\ reply' \in [Handler -> Reply]
  BY DEF TypeOK, Respond, Goto, Reply, Steps

LEMMA FailTypes ==
  ASSUME TypeOK, NEW h \in Handler, NEW status \in Statuses, Fail(h, status),
         arg[h].project \in Project
  PROVE  pc' \in [Handler -> Steps] /\ reply' \in [Handler -> Reply]
<1>1. EmptyManifest \in Manifest /\ NoCursor \in Cursor
  BY DEF Manifest, EmptyManifest, Cursor
<1> QED
  BY <1>1, RespondTypes DEF Fail

LEMMA ClientTypes ==
  ASSUME TypeOK, RequestInv, NEW h \in Handler, ClientStep(h)
  PROVE  TypeOK'
<1>1. ASSUME NEW kind \in Steps, NEW request \in Request, Receive(h, kind, request)
      PROVE  TypeOK'
  BY <1>1, GotoTypes DEF Receive, TypeOK, db, history
<1>2. EmptyManifest \in Manifest /\ NoCursor \in Cursor /\ ClientManifest \subseteq Manifest
  BY ClientAssumption DEF Manifest, EmptyManifest, Cursor
<1>3. ASSUME NEW c \in Client, NEW p \in Project, NEW m \in ClientManifest,
             SendPush(h, c, p, m) \/ SendPull(h, c, p, m)
      PROVE  TypeOK'
  <2>1. [NoArg EXCEPT !.client = c, !.project = p, !.man = m] \in Request
    BY <1>2 DEF NoArg, Request
  <2> QED
    BY <1>1, <1>3, <2>1 DEF SendPush, SendPull, Steps
<1>4. ASSUME NEW c \in Client, NEW p \in Project, SendStatus(h, c, p)
      PROVE  TypeOK'
  <2>1. [NoArg EXCEPT !.client = c, !.project = p] \in Request
    BY <1>2 DEF NoArg, Request
  <2> QED
    BY <1>1, <1>4, <2>1 DEF SendStatus, Steps
<1>5. ASSUME NEW c \in Client, NEW cursor \in {held[c].cursor, NoCursor},
             SendComplete(h, c, cursor)
      PROVE  TypeOK'
  <2>1. held[c] \in Push
    BY DEF TypeOK
  <2>2. [client |-> c, project |-> held[c].project, man |-> held[c].up,
         sent |-> held[c].man, cursor |-> cursor, life |-> held[c].life] \in Request
    BY <1>2, <2>1 DEF Request, Push
  <2> QED
    BY <1>1, <1>5, <2>2 DEF SendComplete, Steps
<1>6. CASE Deliver(h) \/ LoseReply(h)
  <2>1. /\ pc'    \in [Handler -> Steps]  /\ arg' \in [Handler -> Request]
        /\ reply' \in [Handler -> Reply]
        /\ read'  \in [Handler -> [man : Manifest, cursor : Cursor, total : Bytes]]
        /\ tx'    \in [Handler -> [seq : Nat, up : Manifest, total : Bytes]]
    <3>1. Release(h) /\ "idle" \in Steps
      BY <1>6 DEF Deliver, LoseReply, Steps
    <3>2. pc' \in [Handler -> Steps]
      BY <3>1, GotoTypes DEF Release
    <3> QED
      BY <3>1, <3>2, NoneTypes DEF Release, TypeOK
  <2>2. held' \in [Client -> Push]
    <3>1. CASE LoseReply(h)
      BY <3>1 DEF LoseReply, TypeOK
    <3>2. CASE Deliver(h)
      <4>1. arg[h] \in Request /\ arg[h].client \in Client /\ reply[h] \in Reply
        BY <3>2 DEF Deliver, RequestInv, TypeOK
      <4>2. [project |-> arg[h].project, man |-> arg[h].man,
             up |-> reply[h].man, cursor |-> reply[h].cursor,
             life |-> reply[h].life] \in Push
        BY <4>1 DEF Request, Reply, Push
      <4> QED
        BY <3>2, <4>1, <4>2, NoneTypes DEF Deliver, TypeOK
    <3> QED
      BY <1>6, <3>1, <3>2
  <2> QED
    BY <1>6, <2>1, <2>2 DEF Deliver, LoseReply, TypeOK, db, history
<1> QED
  BY <1>3, <1>4, <1>5, <1>6 DEF ClientStep

LEMMA ReadTypes ==
  ASSUME TypeOK, CursorsInv, RequestInv, NEW h \in Handler, PushStep(h) \/ ReadStep(h)
  PROVE  TypeOK'
<1> DEFINE p == arg[h].project
<1>0. pc[h] # "idle" /\ arg[h].project \in Project
  BY DEF PushStep, ReadStep, PushLoadProject, PushInsertProject, PushReadManifest,
     PushReadCursor, PullLoadProject, PullReadManifest, PullReadCursor,
     StatusLoadProject, StatusReadManifest, StatusReadCursor,
     RequestInv
<1>1. EmptyManifest \in Manifest /\ NoCursor \in Cursor /\ 0 \in Cursor
  BY DEF Manifest, EmptyManifest, Cursor
<1>2. /\ pc[h] # "idle" => arg[h].client \in Client /\ p \in Project
                           /\ files[p] \in Manifest /\ total[p] \in Bytes
      /\ arg[h].man \in Manifest /\ read[h].man \in Manifest /\ read[h].cursor \in Cursor
  BY DEF RequestInv, TypeOK, Request
<1>3. pc[h] # "idle" => CurrentCursor(p) \in Cursor
  BY <1>2, CurrentCursorIsLen DEF Cursor
<1>4. pc[h] # "idle" => AccountOfRequest(h) \in Account
  BY <1>2, ClientAssumption DEF AccountOfRequest
<1>5. CASE PushLoadProject(h)
  BY <1>0, <1>5, GotoTypes, FailTypes DEF PushLoadProject, TypeOK, db, history, Steps, Statuses
<1>6. CASE PushInsertProject(h)
  BY <1>0, <1>2, <1>4, <1>6, GotoTypes, FailTypes DEF PushInsertProject, TypeOK, db, history, Steps, Statuses
<1>7. CASE PushReadManifest(h)
  <2>1. pc[h] # "idle"
    BY <1>7 DEF PushReadManifest
  <2>2. read' = [read EXCEPT ![h].man = files[p]] /\ Goto(h, "pushCursor")
    BY <1>7 DEF PushReadManifest
  <2>3. read' \in [Handler -> [man : Manifest, cursor : Cursor, total : Bytes]]
    BY <1>2, <2>1, <2>2 DEF TypeOK
  <2>4. pc' \in [Handler -> Steps]
    BY <2>2, GotoTypes DEF Steps, TypeOK
  <2> QED
    BY <1>7, <2>3, <2>4 DEF PushReadManifest, TypeOK, db, history
<1>8. CASE PushReadCursor(h)
  <2>1. DiffPushTargets(arg[h].man, read[h].man) \in Manifest
    BY <1>2, ManifestTypes
  <2> QED
    BY <1>0, <1>3, <1>8, <2>1, RespondTypes DEF PushReadCursor, TypeOK, db, history, Statuses
<1>9. CASE PullLoadProject(h)
  BY <1>0, <1>1, <1>9, GotoTypes, FailTypes, RespondTypes
     DEF PullLoadProject, TypeOK, db, history, Steps, Statuses
<1>10. CASE PullReadManifest(h)
  <2>1. pc[h] # "idle"
    BY <1>10 DEF PullReadManifest
  <2>2. read' = [read EXCEPT ![h].man = files[p]] /\ Goto(h, "pullCursor")
    BY <1>10 DEF PullReadManifest
  <2>3. read' \in [Handler -> [man : Manifest, cursor : Cursor, total : Bytes]]
    BY <1>2, <2>1, <2>2 DEF TypeOK
  <2>4. pc' \in [Handler -> Steps]
    BY <2>2, GotoTypes DEF Steps, TypeOK
  <2> QED
    BY <1>10, <2>3, <2>4 DEF PullReadManifest, TypeOK, db, history
<1>11. CASE PullReadCursor(h)
  BY <1>0, <1>2, <1>3, <1>11, RespondTypes DEF PullReadCursor, TypeOK, db, history, Statuses
<1>12. CASE StatusLoadProject(h)
  <2>1. pc' \in [Handler -> Steps] /\ reply' \in [Handler -> Reply]
    <3>1. CASE Goto(h, "statusRead") /\ UNCHANGED reply
      BY <3>1, GotoTypes DEF Steps, TypeOK
    <3>2. CASE Respond(h, "status", EmptyManifest, 0)
      BY <1>0, <1>1, <3>2, RespondTypes DEF Statuses
    <3>3. CASE Fail(h, "forbidden")
      BY <1>0, <3>3, FailTypes DEF Statuses
    <3> QED
      BY <1>12, <3>1, <3>2, <3>3 DEF StatusLoadProject
  <2>2. read' \in [Handler -> [man : Manifest, cursor : Cursor, total : Bytes]]
    <3>1. CASE UNCHANGED read
      BY <3>1 DEF TypeOK
    <3>2. CASE pc[h] # "idle" /\ read' = [read EXCEPT ![h].total = total[p]]
      <4>1. [read[h] EXCEPT !.total = total[p]]
              \in [man : Manifest, cursor : Cursor, total : Bytes]
        BY <1>2, <3>2 DEF TypeOK
      <4> QED
        BY <3>2, <4>1 DEF TypeOK
    <3> QED
      BY <1>12, <3>1, <3>2 DEF StatusLoadProject
  <2> QED
    BY <1>12, <2>1, <2>2 DEF StatusLoadProject, TypeOK, db, history
<1>13. CASE StatusReadManifest(h)
  <2>1. pc' \in [Handler -> Steps] /\ reply' \in [Handler -> Reply]
    <3>1. CASE Goto(h, "statusCursor") /\ UNCHANGED reply
      BY <3>1, GotoTypes DEF Steps, TypeOK
    <3>2. CASE pc[h] # "idle" /\ Respond(h, "status", files[p], read[h].cursor)
      BY <1>0, <1>2, <3>2, RespondTypes DEF Statuses
    <3> QED
      BY <1>13, <3>1, <3>2 DEF StatusReadManifest
  <2>2. read' \in [Handler -> [man : Manifest, cursor : Cursor, total : Bytes]]
    BY <1>2, <1>13 DEF StatusReadManifest, TypeOK
  <2> QED
    BY <1>13, <2>1, <2>2 DEF StatusReadManifest, TypeOK, db, history
<1>14. CASE StatusReadCursor(h)
  <2>1. pc' \in [Handler -> Steps] /\ reply' \in [Handler -> Reply]
    <3>1. CASE Goto(h, "statusManifest") /\ UNCHANGED reply
      BY <3>1, GotoTypes DEF Steps, TypeOK
    <3>2. CASE pc[h] # "idle" /\ Respond(h, "status", read[h].man, CurrentCursor(p))
      BY <1>0, <1>2, <1>3, <3>2, RespondTypes DEF Statuses
    <3> QED
      BY <1>14, <3>1, <3>2 DEF StatusReadCursor
  <2>2. read' \in [Handler -> [man : Manifest, cursor : Cursor, total : Bytes]]
    BY <1>3, <1>14 DEF StatusReadCursor, TypeOK
  <2> QED
    BY <1>14, <2>1, <2>2 DEF StatusReadCursor, TypeOK, db, history
<1> QED
  BY <1>5, <1>6, <1>7, <1>8, <1>9, <1>10, <1>11, <1>12, <1>13, <1>14
     DEF PushStep, ReadStep

LEMMA CompleteTypes ==
  ASSUME TypeOK, CursorsInv, RequestInv, NEW h \in Handler, CompleteStep(h)
  PROVE  TypeOK'
<1> DEFINE p == arg[h].project
<1>0. pc[h] # "idle" /\ arg[h].project \in Project
  BY DEF CompleteStep, CompleteLoadProject, CompleteVerify, CompleteCheckCap, TxBegin,
     LockTimeout, TxGate, TxBumpCursor, TxUpsert, TxUpdateTotal, TxCommit, TxFail,
     InTransaction,
     RequestInv
<1>1. /\ pc[h] # "idle" => /\ arg[h].client \in Client /\ p \in Project
                           /\ files[p] \in Manifest /\ total[p] \in Bytes
      /\ arg[h] \in Request /\ arg[h].man \in Manifest /\ tx[h].up \in Manifest
      /\ tx[h].seq \in Nat /\ tx[h].total \in Bytes
  BY DEF RequestInv, TypeOK, Request
<1>2. pc[h] # "idle" => NextSeq(p) \in Nat
  BY <1>1, CurrentCursorIsLen DEF NextSeq
<1>3. pc[h] # "idle" => Overlay(files[p], tx[h].up) \in Manifest
  BY <1>1, ManifestTypes
<1>4. ASSUME NEW status \in Statuses, Rollback(h, status)
      PROVE  TypeOK'
  BY <1>0, <1>4, FailTypes, NoneTypes DEF Rollback, TypeOK, db, history
<1>5. CASE CompleteLoadProject(h)
  BY <1>0, <1>5, GotoTypes, FailTypes DEF CompleteLoadProject, TypeOK, db, history, Steps, Statuses
<1>6. CASE CompleteVerify(h)
  BY <1>0, <1>6, GotoTypes, FailTypes DEF CompleteVerify, TypeOK, db, history, Steps, Statuses
<1>7. CASE CompleteCheckCap(h)
  BY <1>0, <1>7, GotoTypes, FailTypes DEF CompleteCheckCap, TypeOK, db, history, Steps, Statuses
<1>8. CASE TxBegin(h)
  BY <1>8, GotoTypes DEF TxBegin, TypeOK, db, history, Steps
<1>9. CASE LockTimeout(h)
  BY <1>0, <1>9, FailTypes DEF LockTimeout, TypeOK, db, history, Statuses
<1>10. CASE TxGate(h)
  <2>1. CASE Rollback(h, "conflict")
    BY <1>4, <2>1 DEF Statuses
  <2>2. CASE /\ Goto(h, "bump")
             /\ UNCHANGED <<db, blobs, writeLock, arg, read, tx, reply, held, history>>
    BY <2>2, GotoTypes DEF TypeOK, db, history, Steps
  <2> QED
    BY <1>10, <2>1, <2>2 DEF TxGate
<1>11. CASE TxBumpCursor(h)
  BY <1>2, <1>11, GotoTypes DEF TxBumpCursor, TypeOK, db, history, Steps
<1>12. CASE TxUpsert(h)
  <2>1. PICK q \in PathsOf(arg[h].man) : tx' = [tx EXCEPT ![h].up[q] = arg[h].man[q]]
    BY <1>12 DEF TxUpsert
  <2>2. [tx[h].up EXCEPT ![q] = arg[h].man[q]] \in Manifest
    BY <1>1 DEF Manifest, PathsOf
  <2>3. tx' \in [Handler -> [seq : Nat, up : Manifest, total : Bytes]]
    BY <1>1, <2>1, <2>2 DEF TypeOK
  <2> QED
    BY <1>12, <2>3 DEF TxUpsert, TypeOK, db, history
<1>13. CASE TxUpdateTotal(h)
  <2>1. StorageOf(Overlay(files[p], tx[h].up)) \in Bytes
    BY <1>3, <1>13 DEF TxUpdateTotal, Bytes
  <2>2. tx' \in [Handler -> [seq : Nat, up : Manifest, total : Bytes]]
    BY <1>13, <2>1 DEF TxUpdateTotal, TypeOK
  <2> QED
    BY <1>13, <2>2, GotoTypes DEF TxUpdateTotal, TypeOK, db, history, Steps
<1>14. CASE TxCommit(h)
  <2> DEFINE m == Overlay(files[p], tx[h].up)
             entry == [client |-> arg[h].client, sent |-> arg[h].sent,
                       up |-> arg[h].man, base |-> arg[h].cursor,
                       life |-> arg[h].life, after |-> m]
  <2>1. p \in Project /\ m \in Manifest /\ entry \in Entry
    BY <1>1, <1>3, <1>14 DEF TxCommit, Request, Entry
  <2>2. Respond(h, "completed", m, tx[h].seq) \/ Fail(h, "error")
    BY <1>14 DEF TxCommit
  <2>3. pc' \in [Handler -> Steps] /\ reply' \in [Handler -> Reply]
    BY <1>0, <1>1, <2>1, <2>2, RespondTypes, FailTypes DEF Statuses, Cursor
  <2>4. cursors' \in [Project -> Seq(Nat)] /\ log' \in [Project -> Seq(Entry)]
    <3>1. cursors' = [cursors EXCEPT ![p] = Append(@, tx[h].seq)]
      BY <1>14 DEF TxCommit
    <3>2. log' = [log EXCEPT ![p] = Append(@, entry)]
      BY <1>14 DEF TxCommit
    <3>3. cursors[p] \in Seq(Nat) /\ log[p] \in Seq(Entry)
      BY <2>1 DEF TypeOK
    <3>4. Append(cursors[p], tx[h].seq) \in Seq(Nat) /\ Append(log[p], entry) \in Seq(Entry)
      BY <1>1, <2>1, <3>3
    <3> QED
      BY <3>1, <3>2, <3>4 DEF TypeOK
  <2>5. files' \in [Project -> Manifest] /\ total' \in [Project -> Bytes]
    BY <1>1, <1>14, <2>1 DEF TxCommit, TypeOK
  <2>6. tx' \in [Handler -> [seq : Nat, up : Manifest, total : Bytes]]
    BY <1>14, NoneTypes DEF TxCommit, TypeOK
  <2> QED
    BY <1>14, <2>3, <2>4, <2>5, <2>6 DEF TxCommit, TypeOK
<1>15. CASE TxFail(h)
  BY <1>4, <1>15 DEF TxFail, Statuses
<1> QED
  BY <1>5, <1>6, <1>7, <1>8, <1>9, <1>10, <1>11, <1>12, <1>13, <1>14, <1>15
     DEF CompleteStep

LEMMA TypeStep == TypeOK /\ CursorsInv /\ RequestInv /\ [Next]_vars => TypeOK'
<1> SUFFICES ASSUME TypeOK, CursorsInv, RequestInv, [Next]_vars PROVE TypeOK'
  OBVIOUS
<1>1. ASSUME NEW h \in Handler, HandlerStep(h) \/ ClientStep(h) PROVE TypeOK'
  BY <1>1, ClientTypes, ReadTypes, CompleteTypes DEF HandlerStep
<1>2. ASSUME NEW c \in Client, NEW s \in Sha, UploadBlob(c, s) PROVE TypeOK'
  BY <1>2 DEF UploadBlob, TypeOK, db, history
<1>3. CASE UNCHANGED vars
  BY <1>3 DEF vars, TypeOK
<1> QED
  BY <1>1, <1>2, <1>3, DeleteTypes DEF Next

-----------------------------------------------------------------------------
(***************************************************************************)
(* What a step leaves alone.                                               *)
(***************************************************************************)
\* Only a COMMIT changes files, cursors, totals and the history.
LEMMA OnlyCommitWrites ==
  ASSUME NEW h \in Handler, HandlerStep(h) \/ ClientStep(h)
  PROVE  TxCommit(h) \/ UNCHANGED <<files, cursors, total, log>>
  BY DEF HandlerStep, ClientStep, PushStep, CompleteStep, ReadStep, db, history,
         PushLoadProject, PushInsertProject, PushReadManifest, PushReadCursor,
         CompleteLoadProject, CompleteVerify, CompleteCheckCap, TxBegin, LockTimeout,
         TxGate, TxBumpCursor, TxUpsert, TxUpdateTotal, TxFail, Rollback,
         PullLoadProject, PullReadManifest, PullReadCursor,
         StatusLoadProject, StatusReadManifest, StatusReadCursor,
         SendPush, SendPull, SendStatus, SendComplete, Receive, Deliver, LoseReply

\* A request runs on its own: its steps touch no other handler.
LEMMA OtherHandlers ==
  ASSUME TypeOK, NEW h \in Handler, HandlerStep(h) \/ ClientStep(h),
         NEW k \in Handler, k # h
  PROVE  /\ pc'[k] = pc[k] /\ arg'[k] = arg[k] /\ tx'[k] = tx[k]
         /\ read'[k] = read[k] /\ reply'[k] = reply[k]
<1>1. CASE ClientStep(h)
  BY <1>1 DEF ClientStep, SendPush, SendPull, SendStatus, SendComplete, Receive,
              Deliver, LoseReply, Release, Goto, TypeOK
<1>2. CASE PushStep(h)
  BY <1>2 DEF PushStep, PushLoadProject, PushInsertProject, PushReadManifest,
              PushReadCursor, Goto, Respond, Fail, TypeOK
<1>3. CASE CompleteStep(h)
  <2>1. CASE \/ CompleteLoadProject(h) \/ CompleteVerify(h) \/ CompleteCheckCap(h)
             \/ TxBegin(h) \/ LockTimeout(h)
    BY <2>1 DEF CompleteLoadProject, CompleteVerify, CompleteCheckCap, TxBegin,
                LockTimeout, Goto, Respond, Fail, TypeOK
  <2>2. CASE TxGate(h) \/ TxFail(h)
    BY <2>2 DEF TxGate, TxFail, Rollback, Goto, Respond, Fail, TypeOK
  <2>3. CASE TxBumpCursor(h) \/ TxUpsert(h) \/ TxUpdateTotal(h)
    BY <2>3 DEF TxBumpCursor, TxUpsert, TxUpdateTotal, Goto, TypeOK
  <2>4. CASE TxCommit(h)
    BY <2>4 DEF TxCommit, Goto, Respond, Fail, TypeOK
  <2> QED
    BY <1>3, <2>1, <2>2, <2>3, <2>4 DEF CompleteStep
<1>4. CASE ReadStep(h)
  BY <1>4 DEF ReadStep, PullLoadProject, PullReadManifest, PullReadCursor,
              StatusLoadProject, StatusReadManifest, StatusReadCursor,
              Goto, Respond, Fail, TypeOK
<1> QED
  BY <1>1, <1>2, <1>3, <1>4 DEF HandlerStep

\* While a handler works on its request, the request stays what it was.
LEMMA RequestIsFixed ==
  ASSUME TypeOK, NEW h \in Handler, HandlerStep(h) \/ ClientStep(h), pc[h] # "idle"
  PROVE  pc'[h] = "idle" \/ arg'[h] = arg[h]
  BY DEF HandlerStep, ClientStep, PushStep, CompleteStep, ReadStep, TypeOK,
         PushLoadProject, PushInsertProject, PushReadManifest, PushReadCursor,
         CompleteLoadProject, CompleteVerify, CompleteCheckCap, TxBegin, LockTimeout,
         TxGate, TxBumpCursor, TxUpsert, TxUpdateTotal, TxFail, TxCommit, Rollback,
         PullLoadProject, PullReadManifest, PullReadCursor,
         StatusLoadProject, StatusReadManifest, StatusReadCursor,
         SendPush, SendPull, SendStatus, SendComplete, Receive, Deliver, LoseReply,
         Release, Goto

-----------------------------------------------------------------------------
(***************************************************************************)
(* The other conjuncts of the invariant.                                   *)
(***************************************************************************)
\* How a step of h moves the lock: it is taken, given back, or left alone.
LEMMA LockMoves ==
  ASSUME TypeOK, LockInv, NEW h \in Handler, HandlerStep(h) \/ ClientStep(h)
  PROVE  \/ writeLock = Nil /\ writeLock' = h /\ InTransaction(h)'
         \/ writeLock = h /\ writeLock' = Nil /\ ~InTransaction(h)'
         \/ UNCHANGED writeLock /\ (InTransaction(h)' <=> InTransaction(h))
<1>1. CASE ClientStep(h)
  BY <1>1 DEF ClientStep, SendPush, SendPull, SendStatus, SendComplete, Receive,
              Deliver, LoseReply, Release, Goto, TypeOK, InTransaction
<1>2. CASE PushStep(h)
  BY <1>2 DEF PushStep, PushLoadProject, PushInsertProject, PushReadManifest,
              PushReadCursor, Goto, Respond, Fail, TypeOK, InTransaction
<1>3. CASE CompleteStep(h)
  <2>1. CASE \/ CompleteLoadProject(h) \/ CompleteVerify(h) \/ CompleteCheckCap(h)
             \/ LockTimeout(h)
    BY <2>1 DEF CompleteLoadProject, CompleteVerify, CompleteCheckCap,
                LockTimeout, Goto, Respond, Fail, TypeOK, InTransaction
  <2>2. CASE TxBegin(h)
    BY <2>2 DEF TxBegin, LockIsFree, Goto, TypeOK, InTransaction
  <2>3. CASE TxGate(h) \/ TxFail(h)
    BY <2>3 DEF TxGate, TxFail, Rollback, Goto, Respond, Fail, TypeOK, InTransaction,
                LockInv
  <2>4. CASE TxBumpCursor(h) \/ TxUpsert(h) \/ TxUpdateTotal(h)
    BY <2>4 DEF TxBumpCursor, TxUpsert, TxUpdateTotal, Goto, TypeOK, InTransaction
  <2>5. CASE TxCommit(h)
    BY <2>5 DEF TxCommit, Goto, Respond, Fail, TypeOK, InTransaction, LockInv
  <2> QED
    BY <1>3, <2>1, <2>2, <2>3, <2>4, <2>5 DEF CompleteStep
<1>4. CASE ReadStep(h)
  BY <1>4 DEF ReadStep, PullLoadProject, PullReadManifest, PullReadCursor,
              StatusLoadProject, StatusReadManifest, StatusReadCursor,
              Goto, Respond, Fail, TypeOK, InTransaction
<1> QED
  BY <1>1, <1>2, <1>3, <1>4 DEF HandlerStep

LEMMA LockStep == TypeOK /\ LockInv /\ [Next]_vars => LockInv'
<1> SUFFICES ASSUME TypeOK, LockInv, [Next]_vars PROVE LockInv'
  OBVIOUS
<1>1. ASSUME NEW h \in Handler, HandlerStep(h) \/ ClientStep(h), NEW k \in Handler
      PROVE  InTransaction(k)' <=> writeLock' = k
  <2>1. k # Nil /\ h # Nil
    BY NilIsNoMember
  <2>2. CASE k = h
    BY <1>1, <2>1, <2>2, LockMoves DEF LockInv
  <2>3. CASE k # h
    <3>1. InTransaction(k)' <=> InTransaction(k)
      BY <1>1, <2>3, OtherHandlers DEF InTransaction
    <3> QED
      BY <1>1, <2>1, <2>3, <3>1, LockMoves DEF LockInv
  <2> QED
    BY <2>2, <2>3
<1>2. CASE \E c \in Client, s \in Sha : UploadBlob(c, s)
  BY <1>2 DEF UploadBlob, LockInv, InTransaction
<1>3. CASE UNCHANGED vars
  BY <1>3 DEF vars, LockInv, InTransaction
<1>4. CASE \E c \in Client, p \in Project : DeleteProject(c, p)
  BY <1>4 DEF DeleteProject, LockInv, InTransaction
<1> QED
  BY <1>1, <1>2, <1>3, <1>4 DEF Next, LockInv

LEMMA CursorsStep == IInv /\ [Next]_vars => CursorsInv'
<1> SUFFICES ASSUME IInv, [Next]_vars PROVE CursorsInv'
  OBVIOUS
<1>1. CASE UNCHANGED <<files, cursors, total, log>>
  BY <1>1 DEF IInv, CursorsInv
<1>2. ASSUME NEW h \in Handler, TxCommit(h) PROVE CursorsInv'
  <2> DEFINE p == arg[h].project
  <2>1. p \in Project /\ tx[h].seq = Len(log[p]) + 1
    BY <1>2 DEF TxCommit, IInv, RequestInv, GateInv
  <2>2. PICK entry : log' = [log EXCEPT ![p] = Append(@, entry)]
    BY <1>2 DEF TxCommit
  <2>3. cursors' = [cursors EXCEPT ![p] = Append(@, tx[h].seq)]
    BY <1>2 DEF TxCommit
  <2>4. \A r \in Project : cursors[r] \in Seq(Nat) /\ log[r] \in Seq(Entry)
    BY DEF IInv, TypeOK
  <2>5. DOMAIN cursors = Project /\ DOMAIN log = Project
    BY DEF IInv, TypeOK
  <2>6. ASSUME NEW r \in Project
        PROVE  /\ Len(cursors'[r]) = Len(log'[r])
               /\ \A i \in 1 .. Len(cursors'[r]) : cursors'[r][i] = i
    <3>0. /\ Len(cursors[r]) = Len(log[r])
          /\ \A i \in 1 .. Len(cursors[r]) : cursors[r][i] = i
      BY DEF IInv, CursorsInv
    <3>1. CASE r # p
      BY <2>2, <2>3, <2>5, <3>0, <3>1
    <3>2. CASE r = p
      <4>1. cursors'[r] = Append(cursors[r], Len(log[r]) + 1) /\ log'[r] = Append(log[r], entry)
        BY <2>1, <2>2, <2>3, <2>5, <3>2
      <4> QED
        BY <2>4, <3>0, <4>1
    <3> QED
      BY <3>1, <3>2
  <2> QED
    BY <2>6 DEF CursorsInv
<1>3. CASE \E c \in Client, s \in Sha : UploadBlob(c, s)
  BY <1>1, <1>3 DEF UploadBlob, db, history
<1>4. CASE UNCHANGED vars
  BY <1>1, <1>4 DEF vars
<1>5. CASE \E c \in Client, p \in Project : DeleteProject(c, p)
  BY <1>5 DEF DeleteProject, IInv, TypeOK, CursorsInv
<1> QED
  BY <1>1, <1>2, <1>3, <1>4, <1>5, OnlyCommitWrites DEF Next

LEMMA RequestStep == IInv /\ [Next]_vars => RequestInv'
<1> SUFFICES ASSUME IInv, [Next]_vars PROVE RequestInv'
  OBVIOUS
<1> USE DEF RequestInv
<1>0. TypeOK /\ RequestInv /\ pc \in [Handler -> Steps] /\ arg \in [Handler -> Request]
      /\ DOMAIN held = Client
  BY DEF IInv, TypeOK
<1>1. ASSUME NEW h \in Handler, HandlerStep(h) \/ ClientStep(h)
      PROVE  RequestInv'
  <2>1. ASSUME NEW k \in Handler, k # h, pc'[k] # "idle"
        PROVE  arg'[k].client \in Client /\ arg'[k].project \in Project
    BY <1>0, <1>1, <2>1, OtherHandlers
  <2>2. ASSUME pc'[h] # "idle"
        PROVE  arg'[h].client \in Client /\ arg'[h].project \in Project
    <3>1. CASE pc[h] # "idle"
      BY <1>0, <1>1, <2>2, <3>1, RequestIsFixed
    <3>2. CASE pc[h] = "idle"
      <4>1. PICK kind, request : Receive(h, kind, request)
                                 /\ request.client \in Client /\ request.project \in Project
        <5>1. ~HandlerStep(h) /\ ~Deliver(h) /\ ~LoseReply(h)
          BY <3>2 DEF HandlerStep, PushStep, CompleteStep, ReadStep,
             PushLoadProject, PushInsertProject, PushReadManifest, PushReadCursor,
             CompleteLoadProject, CompleteVerify, CompleteCheckCap, TxBegin, LockTimeout,
             TxGate, TxBumpCursor, TxUpsert, TxUpdateTotal, TxFail, TxCommit, InTransaction,
             PullLoadProject, PullReadManifest, PullReadCursor,
             StatusLoadProject, StatusReadManifest, StatusReadCursor, Deliver, LoseReply
        <5>2. ASSUME NEW c \in Client, NEW p \in Project, NEW m \in ClientManifest,
                     SendPush(h, c, p, m) \/ SendPull(h, c, p, m)
              PROVE  \E kind, request : Receive(h, kind, request)
                       /\ request.client \in Client /\ request.project \in Project
          <6> DEFINE r == [NoArg EXCEPT !.client = c, !.project = p, !.man = m]
          <6>1. r.client = c /\ r.project = p
            BY DEF NoArg
          <6>2. Receive(h, "push", r) \/ Receive(h, "pull", r)
            BY <5>2 DEF SendPush, SendPull
          <6> HIDE DEF r
          <6> QED
            BY <6>1, <6>2
        <5>3. ASSUME NEW c \in Client, NEW p \in Project, SendStatus(h, c, p)
              PROVE  \E kind, request : Receive(h, kind, request)
                       /\ request.client \in Client /\ request.project \in Project
          <6> DEFINE r == [NoArg EXCEPT !.client = c, !.project = p]
          <6>1. r.client = c /\ r.project = p
            BY DEF NoArg
          <6>2. Receive(h, "status", r)
            BY <5>3 DEF SendStatus
          <6> HIDE DEF r
          <6> QED
            BY <6>1, <6>2
        <5>4. CASE \E c \in Client : \E cursor \in {held[c].cursor, NoCursor} :
                     SendComplete(h, c, cursor)
          BY <1>0, <5>4 DEF SendComplete
        <5> QED
          BY <1>1, <5>1, <5>2, <5>3, <5>4 DEF ClientStep
      <4> QED
        BY <1>0, <4>1 DEF Receive
    <3> QED
      BY <3>1, <3>2
  <2>3. ASSUME NEW c \in Client PROVE held'[c] = NoPush \/ held'[c].project \in Project
    <3>1. CASE Deliver(h)
      <4>1. arg[h].project \in Project
        BY <1>0, <3>1 DEF Deliver
      <4> QED
        BY <1>0, <3>1, <4>1 DEF Deliver
    <3>2. CASE ~Deliver(h)
      <4>1. UNCHANGED held
        BY <1>1, <3>2 DEF HandlerStep, ClientStep, PushStep, CompleteStep, ReadStep,
           PushLoadProject, PushInsertProject, PushReadManifest, PushReadCursor,
           CompleteLoadProject, CompleteVerify, CompleteCheckCap, TxBegin, LockTimeout,
           TxGate, TxBumpCursor, TxUpsert, TxUpdateTotal, TxFail, TxCommit, Rollback,
           PullLoadProject, PullReadManifest, PullReadCursor,
           StatusLoadProject, StatusReadManifest, StatusReadCursor,
           SendPush, SendPull, SendStatus, SendComplete, Receive, LoseReply
      <4> QED
        BY <1>0, <4>1
    <3> QED
      BY <3>1, <3>2
  <2> QED
    BY <2>1, <2>2, <2>3
<1>2. CASE \E c \in Client, s \in Sha : UploadBlob(c, s)
  BY <1>0, <1>2 DEF UploadBlob
<1>3. CASE UNCHANGED vars
  BY <1>0, <1>3 DEF vars
<1>4. CASE \E c \in Client, p \in Project : DeleteProject(c, p)
  BY <1>0, <1>4 DEF DeleteProject
<1> QED
  BY <1>1, <1>2, <1>3, <1>4 DEF Next

LEMMA GateStep == IInv /\ [Next]_vars => GateInv'
<1> SUFFICES ASSUME IInv, [Next]_vars PROVE GateInv'
  OBVIOUS
<1>0. TypeOK /\ LockInv /\ CursorsInv /\ RequestInv /\ GateInv
  BY DEF IInv
<1>1. ASSUME NEW h \in Handler, HandlerStep(h) \/ ClientStep(h)
      PROVE  GateInv'
  <2> DEFINE Gate(k) ==
        /\ pc[k] \in {"bump", "upsert", "commit"} =>
             arg[k].cursor \in {NoCursor, Len(log[arg[k].project])}
        /\ pc[k] \in {"upsert", "commit"} =>
             tx[k].seq = Len(log[arg[k].project]) + 1
  <2>1. ASSUME NEW k \in Handler, k # h PROVE Gate(k)'
    <3>1. pc'[k] = pc[k] /\ arg'[k] = arg[k] /\ tx'[k] = tx[k] /\ Gate(k)
      BY <1>0, <1>1, <2>1, OtherHandlers DEF GateInv
    <3>2. CASE UNCHANGED log
      BY <3>1, <3>2
    <3>3. CASE TxCommit(h)
      <4>1. ~InTransaction(k)
        BY <1>0, <2>1, <3>3 DEF LockInv, InTransaction, TxCommit
      <4> QED
        BY <3>1, <4>1 DEF InTransaction
    <3> QED
      BY <1>1, <3>2, <3>3, OnlyCommitWrites
  <2>2. Gate(h)'
    <3> DEFINE p == arg[h].project
    <3>1. CASE TxGate(h)
      <4>1. p \in Project
        BY <1>0, <3>1 DEF TxGate, RequestInv
      <4> QED
        BY <1>0, <3>1, <4>1, CurrentCursorIsLen
           DEF TxGate, CursorIsFresh, Rollback, Fail, Respond, Goto, TypeOK, history
    <3>2. CASE TxBumpCursor(h)
      <4>1. p \in Project
        BY <1>0, <3>2 DEF TxBumpCursor, RequestInv
      <4>2. NextSeq(p) = Len(log[p]) + 1
        BY <1>0, <4>1, CurrentCursorIsLen DEF NextSeq
      <4> QED
        BY <1>0, <3>2, <4>2 DEF TxBumpCursor, Goto, TypeOK, GateInv, history
    <3>3. CASE TxUpsert(h) \/ TxUpdateTotal(h)
      BY <1>0, <3>3 DEF TxUpsert, TxUpdateTotal, Goto, TypeOK, GateInv, db, history
    <3>4. CASE ~(TxGate(h) \/ TxBumpCursor(h) \/ TxUpsert(h) \/ TxUpdateTotal(h))
      <4>1. CASE ClientStep(h)
        BY <1>0, <4>1 DEF ClientStep, SendPush, SendPull, SendStatus, SendComplete,
                          Receive, Deliver, LoseReply, Release, Goto, TypeOK
      <4>2. CASE PushStep(h) \/ ReadStep(h)
        BY <1>0, <4>2 DEF PushStep, ReadStep, PushLoadProject, PushInsertProject,
           PushReadManifest, PushReadCursor, PullLoadProject, PullReadManifest,
           PullReadCursor, StatusLoadProject, StatusReadManifest, StatusReadCursor,
           Goto, Respond, Fail, TypeOK
      <4>3. CASE CompleteStep(h)
        BY <1>0, <3>4, <4>3 DEF CompleteStep, CompleteLoadProject, CompleteVerify,
           CompleteCheckCap, TxBegin, LockTimeout, TxCommit, TxFail, Rollback,
           Goto, Respond, Fail, TypeOK
      <4> QED
        BY <1>1, <4>1, <4>2, <4>3 DEF HandlerStep
    <3> QED
      BY <3>1, <3>2, <3>3, <3>4
  <2> QED
    BY <2>1, <2>2 DEF GateInv
<1>2. CASE \E c \in Client, s \in Sha : UploadBlob(c, s)
  BY <1>0, <1>2 DEF UploadBlob, GateInv, history
<1>3. CASE UNCHANGED vars
  BY <1>0, <1>3 DEF vars, GateInv
<1>4. CASE \E c \in Client, p \in Project : DeleteProject(c, p)
  <2>1. \A h \in Handler : ~InTransaction(h)
    BY <1>0, <1>4, NilIsNoMember DEF DeleteProject, LockInv
  <2> QED
    BY <1>4, <2>1 DEF DeleteProject, InTransaction, GateInv
<1> QED
  BY <1>1, <1>2, <1>3, <1>4 DEF Next

\* The invariant holds in every reachable state.
THEOREM Inductive == Spec => []IInv
<1>1. IInv /\ [Next]_vars => IInv'
  <2>1. IInv => TypeOK /\ LockInv /\ CursorsInv /\ RequestInv
    BY DEF IInv
  <2>2. IInv' <=> TypeOK' /\ LockInv' /\ CursorsInv' /\ RequestInv' /\ GateInv'
    BY DEF IInv
  <2> QED
    BY <2>1, <2>2, TypeStep, LockStep, CursorsStep, RequestStep, GateStep
<1> QED
  BY InitIInv, <1>1, PTL DEF Spec

\* Every variable has its type, whatever clients send and however their
\* requests interleave.
THEOREM TypeCorrect == Spec => []TypeOK
<1>1. IInv => TypeOK
  BY DEF IInv
<1> QED
  BY <1>1, Inductive, PTL

-----------------------------------------------------------------------------
(***************************************************************************)
(* What the inductive invariant gives.                                     *)
(***************************************************************************)
\* Every property below speaks of the history, so a step that is no COMMIT of
\* some handler preserves what it says of files, cursors, totals and log.
LEMMA CommitOrNot ==
  ASSUME [Next]_vars
  PROVE  \/ \E h \in Handler : TxCommit(h)
         \/ \E c \in Client, p \in Project : DeleteProject(c, p)
         \/ UNCHANGED <<files, cursors, total, log>>
<1>1. CASE \E h \in Handler : HandlerStep(h) \/ ClientStep(h)
  BY <1>1, OnlyCommitWrites
<1>2. CASE \E c \in Client, s \in Sha : UploadBlob(c, s)
  BY <1>2 DEF UploadBlob, db, history
<1>3. CASE UNCHANGED vars
  BY <1>3 DEF vars
<1> QED
  BY <1>1, <1>2, <1>3 DEF Next

\* A COMMIT adds one entry at the end of its project's history.
LEMMA CommitAppends ==
  ASSUME IInv, NEW h \in Handler, TxCommit(h)
  PROVE  LET p == arg[h].project
             n == Len(log[p])
             m == Overlay(files[p], tx[h].up)
         IN /\ p \in Project /\ m \in Manifest
            /\ n \in Nat /\ Len(log'[p]) = n + 1
            /\ log'[p][n + 1].client = arg[h].client
            /\ log'[p][n + 1].base = arg[h].cursor
            /\ log'[p][n + 1].after = m
            /\ \A i \in 1 .. n : log'[p][i] = log[p][i]
            /\ \A r \in Project : r # p => log'[r] = log[r] /\ files'[r] = files[r]
            /\ files'[p] = m
<1> DEFINE p == arg[h].project
           n == Len(log[p])
           m == Overlay(files[p], tx[h].up)
           entry == [client |-> arg[h].client, sent |-> arg[h].sent,
                     up |-> arg[h].man, base |-> arg[h].cursor,
                     life |-> arg[h].life, after |-> m]
<1>1. TypeOK /\ pc[h] = "commit" /\ arg[h] \in Request /\ tx[h].up \in Manifest
  BY DEF IInv, TxCommit, TypeOK
<1>2. arg[h].client \in Client /\ p \in Project
  BY <1>1 DEF IInv, RequestInv
<1>3. m \in Manifest
  BY <1>1, <1>2, ManifestTypes DEF TypeOK
<1>4. /\ entry \in Entry /\ entry.client = arg[h].client
      /\ entry.base = arg[h].cursor /\ entry.after = m
  BY <1>1, <1>2, <1>3 DEF Request, Entry
<1>5. log' = [log EXCEPT ![p] = Append(log[p], entry)] /\ files' = [files EXCEPT ![p] = m]
  BY DEF TxCommit
<1>6. DOMAIN log = Project /\ DOMAIN files = Project /\ log[p] \in Seq(Entry)
  BY <1>1, <1>2 DEF TypeOK
<1> HIDE DEF entry, m
<1>7. /\ log'[p] = Append(log[p], entry) /\ files'[p] = m
      /\ \A r \in Project : r # p => log'[r] = log[r] /\ files'[r] = files[r]
  BY <1>2, <1>5, <1>6
<1>8. /\ n \in Nat /\ Len(log'[p]) = n + 1 /\ log'[p][n + 1] = entry
      /\ \A i \in 1 .. n : log'[p][i] = log[p][i]
  BY <1>4, <1>6, <1>7
<1> QED
  BY <1>2, <1>3, <1>4, <1>7, <1>8 DEF m

\* The histories stay sequences of commits.
LEMMA HistoryTypes ==
  ASSUME IInv, [Next]_vars, NEW p \in Project
  PROVE  log[p] \in Seq(Entry) /\ log'[p] \in Seq(Entry)
<1>1. TypeOK /\ TypeOK'
  BY TypeStep DEF IInv
<1>2. log \in [Project -> Seq(Entry)] /\ log' \in [Project -> Seq(Entry)]
  BY <1>1 DEF TypeOK
<1> QED
  BY <1>2

-----------------------------------------------------------------------------
\* A push/complete with a cursor is committed on top of the commit that cursor
\* names (the optimistic gate of commitPushTx, rechecked under the lock).
THEOREM GatedCommit == Spec => []GatedCommitExtendsBase
<1>1. Init => GatedCommitExtendsBase
  BY DEF Init, GatedCommitExtendsBase
<1>2. IInv /\ GatedCommitExtendsBase /\ [Next]_vars => GatedCommitExtendsBase'
  <2> SUFFICES ASSUME IInv, GatedCommitExtendsBase, [Next]_vars
               PROVE  GatedCommitExtendsBase'
    OBVIOUS
  <2>1. CASE UNCHANGED log
    BY <2>1 DEF GatedCommitExtendsBase
  <2>2. ASSUME NEW h \in Handler, TxCommit(h)
        PROVE  GatedCommitExtendsBase'
    <3> DEFINE p == arg[h].project
    <3>1. arg[h].cursor \in {NoCursor, Len(log[p])}
      BY <2>2 DEF IInv, GateInv, TxCommit
    <3>2. /\ p \in Project /\ Len(log[p]) \in Nat
          /\ Len(log'[p]) = Len(log[p]) + 1
          /\ log'[p][Len(log[p]) + 1].base = arg[h].cursor
          /\ \A i \in 1 .. Len(log[p]) : log'[p][i] = log[p][i]
          /\ \A r \in Project : r # p => log'[r] = log[r]
      BY <2>2, CommitAppends
    <3>3. \A r \in Project : log[r] \in Seq(Entry) /\ log'[r] \in Seq(Entry)
      BY HistoryTypes
    <3>4. ASSUME NEW i \in DOMAIN log'[p], log'[p][i].base # NoCursor
          PROVE  log'[p][i].base = i - 1
      <4>1. i \in 1 .. Len(log[p]) + 1 /\ DOMAIN log[p] = 1 .. Len(log[p])
        BY <3>2, <3>3
      <4>2. CASE i = Len(log[p]) + 1
        BY <3>1, <3>2, <3>4, <4>2
      <4>3. CASE i # Len(log[p]) + 1
        BY <3>2, <3>4, <4>1, <4>3 DEF GatedCommitExtendsBase
      <4> QED
        BY <4>2, <4>3
    <3> QED
      BY <3>2, <3>4 DEF GatedCommitExtendsBase
  <2>3. ASSUME NEW c \in Client, NEW p \in Project, DeleteProject(c, p)
        PROVE  GatedCommitExtendsBase'
    <3>1. log'[p] = << >> /\ \A r \in Project : r # p => log'[r] = log[r]
      BY <2>3 DEF DeleteProject, IInv, TypeOK
    <3> QED
      BY <3>1 DEF GatedCommitExtendsBase
  <2> QED
    BY <2>1, <2>2, <2>3, CommitOrNot
<1> QED
  BY <1>1, <1>2, Inductive, PTL DEF Spec

-----------------------------------------------------------------------------
\* Only PushInsertProject writes an owner, and only where there is none; only
\* DeleteProject removes one.
LEMMA OwnerSet ==
  ASSUME IInv, [Next]_vars
  PROVE  \/ UNCHANGED owner
         \/ \E p \in Project, a \in Account :
              owner[p] = Nil /\ owner' = [owner EXCEPT ![p] = a]
         \/ \E c \in Client, p \in Project :
              DeleteProject(c, p) /\ owner' = [owner EXCEPT ![p] = Nil]
<1>1. CASE \E h \in Handler : PushInsertProject(h)
  <2>1. PICK h \in Handler : PushInsertProject(h)
    BY <1>1
  <2>2. arg[h].client \in Client /\ arg[h].project \in Project
    BY <2>1 DEF PushInsertProject, IInv, RequestInv
  <2>3. AccountOfRequest(h) \in Account
    BY <2>2, ClientAssumption DEF AccountOfRequest
  <2> QED
    BY <2>1, <2>2, <2>3 DEF PushInsertProject, Exists
<1>2. ASSUME NEW h \in Handler, HandlerStep(h) \/ ClientStep(h), ~PushInsertProject(h)
      PROVE  UNCHANGED owner
  BY <1>2 DEF HandlerStep, ClientStep, PushStep, CompleteStep, ReadStep, db, history,
     PushLoadProject, PushReadManifest, PushReadCursor,
     CompleteLoadProject, CompleteVerify, CompleteCheckCap, TxBegin, LockTimeout,
     TxGate, TxBumpCursor, TxUpsert, TxUpdateTotal, TxFail, TxCommit, Rollback,
     PullLoadProject, PullReadManifest, PullReadCursor,
     StatusLoadProject, StatusReadManifest, StatusReadCursor,
     SendPush, SendPull, SendStatus, SendComplete, Receive, Deliver, LoseReply
<1>3. CASE \E c \in Client, s \in Sha : UploadBlob(c, s)
  BY <1>3 DEF UploadBlob, db, history
<1>4. CASE UNCHANGED vars
  BY <1>4 DEF vars
<1>5. ASSUME NEW c \in Client, NEW p \in Project, DeleteProject(c, p)
      PROVE  owner' = [owner EXCEPT ![p] = Nil]
  BY <1>5 DEF DeleteProject
<1> QED
  BY <1>1, <1>2, <1>3, <1>4, <1>5 DEF Next

\* A project never changes hands: only its owner's deletion frees the id
\* (ensureProject).
THEOREM OwnersStay == Spec => OwnerIsForever
<1>1. IInv /\ [Next]_vars => \A p \in Project : owner[p] # Nil => owner'[p] \in {owner[p], Nil}
  <2> SUFFICES ASSUME IInv, [Next]_vars, NEW p \in Project, owner[p] # Nil
               PROVE  owner'[p] \in {owner[p], Nil}
    OBVIOUS
  <2>1. DOMAIN owner = Project
    BY DEF IInv, TypeOK
  <2> QED
    BY <2>1, OwnerSet
<1> QED
  BY <1>1, Inductive, PTL DEF Spec, OwnerIsForever

\* Past assertOwns, the project is the client's own.
OwnedInv ==
  \A h \in Handler :
    pc[h] \in {"verify", "entitle", "lock", "gateCursor", "bump", "upsert", "commit"} =>
      Owns(h)

NoDeletion == "delete" \notin Requests

LEMMA NeverDeleted ==
  ASSUME NoDeletion, NEW c \in Client, NEW p \in Project
  PROVE  ~DeleteProject(c, p)
  BY DEF NoDeletion, DeleteProject

LEMMA OwnedStep ==
  ASSUME NoDeletion
  PROVE  IInv /\ OwnedInv /\ [Next]_vars => OwnedInv'
<1> SUFFICES ASSUME IInv, OwnedInv, [Next]_vars PROVE OwnedInv'
  OBVIOUS
<1> DEFINE Checked == {"verify", "entitle", "lock", "gateCursor", "bump", "upsert", "commit"}
<1>0. TypeOK /\ RequestInv
  BY DEF IInv
<1>1. ASSUME NEW k \in Handler, pc[k] \in Checked, arg'[k] = arg[k]
      PROVE  Owns(k)'
  <2>1. arg[k].client \in Client /\ arg[k].project \in Project
    BY <1>0, <1>1 DEF RequestInv
  <2>2. AccountOfRequest(k) \in Account /\ AccountOfRequest(k) # Nil
    BY <2>1, ClientAssumption, NilIsNoMember DEF AccountOfRequest
  <2>3. owner[arg[k].project] = AccountOfRequest(k)
    BY <1>1 DEF OwnedInv, Owns
  <2>4. owner'[arg[k].project] = owner[arg[k].project]
    BY <1>0, <2>1, <2>2, <2>3, OwnerSet, NeverDeleted DEF TypeOK
  <2> QED
    BY <1>1, <2>3, <2>4 DEF Owns, AccountOfRequest
<1>2. ASSUME NEW h \in Handler, HandlerStep(h) \/ ClientStep(h),
             NEW k \in Handler, pc'[k] \in Checked
      PROVE  Owns(k)'
  <2>1. CASE k # h
    BY <1>0, <1>1, <1>2, <2>1, OtherHandlers
  <2>2. CASE k = h /\ pc[h] \in Checked
    BY <1>0, <1>1, <1>2, <2>2, RequestIsFixed
  <2>3. CASE k = h /\ pc[h] \notin Checked
    <3>1. CompleteLoadProject(h) /\ Owns(h)
      <4>1. ~ClientStep(h)
        BY <1>0, <1>2, <2>3 DEF ClientStep, SendPush, SendPull, SendStatus, SendComplete,
                   Receive, Deliver, LoseReply, Release, Goto, TypeOK
      <4>2. ~PushStep(h)
        BY <1>0, <1>2, <2>3 DEF PushStep, PushLoadProject, PushInsertProject,
           PushReadManifest, PushReadCursor, Goto, Respond, Fail, TypeOK
      <4>3. ~ReadStep(h)
        BY <1>0, <1>2, <2>3 DEF ReadStep, PullLoadProject, PullReadManifest,
           PullReadCursor, StatusLoadProject, StatusReadManifest, StatusReadCursor,
           Goto, Respond, Fail, TypeOK
      <4> QED
        BY <1>0, <1>2, <2>3, <4>1, <4>2, <4>3 DEF HandlerStep, CompleteStep,
           CompleteLoadProject, CompleteVerify, CompleteCheckCap, TxBegin, LockTimeout,
           TxGate, TxBumpCursor, TxUpsert, TxUpdateTotal, TxCommit, TxFail, InTransaction,
           Goto, Respond, Fail, TypeOK
    <3> QED
      BY <2>3, <3>1 DEF CompleteLoadProject, db, history, Owns, AccountOfRequest
  <2> QED
    BY <2>1, <2>2, <2>3
<1>3. CASE \E c \in Client, s \in Sha : UploadBlob(c, s)
  BY <1>3 DEF UploadBlob, db, history, OwnedInv, Owns, AccountOfRequest
<1>4. CASE UNCHANGED vars
  BY <1>4 DEF vars, OwnedInv, Owns, AccountOfRequest
<1> QED
  BY <1>2, <1>3, <1>4, NeverDeleted DEF Next, OwnedInv

\* While no project is deleted, every commit came from the account that owns the
\* project (assertOwns is asked before the lock is taken; the answer is still
\* right at COMMIT).
THEOREM OwnersCommit ==
  ASSUME NoDeletion
  PROVE  Spec => []OnlyOwnerCommits
<1>1. Init => OwnedInv /\ OnlyOwnerCommits
  BY DEF Init, OwnedInv, OnlyOwnerCommits
<1>2. IInv /\ OwnedInv /\ OnlyOwnerCommits /\ [Next]_vars => OnlyOwnerCommits'
  <2> SUFFICES ASSUME IInv, OwnedInv, OnlyOwnerCommits, [Next]_vars,
                      NEW p \in Project, NEW i \in DOMAIN log'[p]
               PROVE  AccountOf[log'[p][i].client] = owner'[p]
    BY DEF OnlyOwnerCommits
  <2>1. ASSUME i \in DOMAIN log[p], log'[p][i] = log[p][i]
        PROVE  AccountOf[log'[p][i].client] = owner'[p]
    <3>1. log[p][i].client \in Client
      <4>1. log[p][i] \in Entry
        BY <2>1, HistoryTypes
      <4> QED
        BY <4>1 DEF Entry
    <3>2. owner[p] \in Account /\ owner[p] # Nil
      BY <2>1, <3>1, ClientAssumption, NilIsNoMember DEF OnlyOwnerCommits
    <3> QED
      BY <2>1, <3>2, OwnerSet, NeverDeleted DEF OnlyOwnerCommits, IInv, TypeOK
  <2>2. CASE UNCHANGED log
    BY <2>1, <2>2
  <2>3. ASSUME NEW h \in Handler, TxCommit(h)
        PROVE  AccountOf[log'[p][i].client] = owner'[p]
    <3> DEFINE r == arg[h].project
    <3>1. /\ r \in Project /\ Len(log[r]) \in Nat
          /\ Len(log'[r]) = Len(log[r]) + 1
          /\ log'[r][Len(log[r]) + 1].client = arg[h].client
          /\ \A j \in 1 .. Len(log[r]) : log'[r][j] = log[r][j]
          /\ \A t \in Project : t # r => log'[t] = log[t]
      BY <2>3, CommitAppends
    <3>2. log[p] \in Seq(Entry) /\ log'[p] \in Seq(Entry)
      BY HistoryTypes
    <3>3. CASE p = r /\ i = Len(log[r]) + 1
      <4>1. owner'[r] = AccountOf[arg[h].client]
        BY <2>3 DEF TxCommit, OwnedInv, Owns, AccountOfRequest
      <4> QED
        BY <3>1, <3>3, <4>1
    <3>4. CASE p # r \/ i # Len(log[r]) + 1
      <4>1. CASE p # r
        <5>1. log'[p] = log[p]
          BY <3>1, <4>1
        <5> QED
          BY <2>1, <5>1
      <4>2. CASE p = r /\ i # Len(log[r]) + 1
        <5>1. i \in 1 .. Len(log'[r])
          BY <3>2, <4>2
        <5>2. i \in 1 .. Len(log[r])
          BY <3>1, <4>2, <5>1
        <5>3. log'[p][i] = log[p][i]
          BY <3>1, <4>2, <5>2
        <5>4. i \in DOMAIN log[p]
          BY <3>2, <4>2, <5>2
        <5> QED
          BY <2>1, <5>3, <5>4
      <4> QED
        BY <3>4, <4>1, <4>2
    <3> QED
      BY <3>3, <3>4
  <2> QED
    BY <2>2, <2>3, CommitOrNot, NeverDeleted
<1> QED
  BY <1>1, <1>2, OwnedStep, Inductive, PTL DEF Spec

-----------------------------------------------------------------------------
\* A handler that still works, or none, has no reply.
ReplyInv == \A h \in Handler : reply[h].status # "" => pc[h] = "replied"

\* A step of h that does not end its request writes no reply; one that does
\* answers, and answers "completed" only at a COMMIT.
Quiet(h)     == pc[h] # "replied" /\ UNCHANGED reply
Answers(h)   == \E s \in Statuses \ {"completed"} : \E m, c : Respond(h, s, m, c)
Completes(h) == TxCommit(h) /\ Respond(h, "completed",
                  Overlay(files[arg[h].project], tx[h].up), tx[h].seq)

LEMMA FailAnswers ==
  ASSUME NEW h \in Handler, NEW s \in Statuses \ {"completed"}, Fail(h, s)
  PROVE  Answers(h)
  BY DEF Fail, Answers

LEMMA HandlerReplies ==
  ASSUME NEW h \in Handler, HandlerStep(h)
  PROVE  Quiet(h) \/ Answers(h) \/ Completes(h)
<1>1. CASE PushStep(h)
  BY <1>1, FailAnswers DEF PushStep, PushLoadProject, PushInsertProject,
     PushReadManifest, PushReadCursor, Quiet, Answers, Statuses
<1>2. CASE PullLoadProject(h) \/ PullReadManifest(h) \/ PullReadCursor(h)
  BY <1>2, FailAnswers DEF PullLoadProject, PullReadManifest, PullReadCursor,
     Quiet, Answers, Statuses
<1>3. CASE StatusLoadProject(h)
  BY <1>3, FailAnswers DEF StatusLoadProject, Quiet, Answers, Statuses
<1>4. CASE StatusReadManifest(h) \/ StatusReadCursor(h)
  BY <1>4 DEF StatusReadManifest, StatusReadCursor, Quiet, Answers, Statuses
<1>5. CASE CompleteStep(h) /\ ~TxCommit(h)
  BY <1>5, FailAnswers DEF CompleteStep, CompleteLoadProject, CompleteVerify,
     CompleteCheckCap, TxBegin, LockTimeout, TxGate, TxBumpCursor, TxUpsert,
     TxUpdateTotal, TxFail, Rollback, InTransaction, Quiet, Statuses
<1>6. CASE TxCommit(h)
  BY <1>6, FailAnswers DEF TxCommit, Completes, Statuses
<1> QED
  BY <1>1, <1>2, <1>3, <1>4, <1>5, <1>6 DEF HandlerStep, ReadStep

LEMMA Replies ==
  ASSUME IInv, ReplyInv, NEW h \in Handler, HandlerStep(h) \/ ClientStep(h)
  PROVE  /\ reply'[h].status # "" => pc'[h] = "replied"
         /\ reply'[h].status = "completed" => Completes(h)
<1>0. TypeOK /\ (pc[h] # "replied" => reply[h].status = "")
  BY DEF IInv, ReplyInv
<1>1. CASE Deliver(h) \/ LoseReply(h)
  <2>1. NoReply.status = ""
    BY DEF NoReply
  <2> QED
    BY <1>0, <1>1, <2>1 DEF Deliver, LoseReply, Release, TypeOK
<1>2. CASE ClientStep(h) /\ ~Deliver(h) /\ ~LoseReply(h)
  BY <1>0, <1>2 DEF ClientStep, SendPush, SendPull, SendStatus, SendComplete, Receive
<1>3. CASE HandlerStep(h)
  <2>1. CASE Quiet(h)
    BY <1>0, <2>1 DEF Quiet
  <2>2. CASE Answers(h)
    <3>1. PICK s \in Statuses \ {"completed"} : \E m, c : Respond(h, s, m, c)
      BY <2>2 DEF Answers
    <3>2. PICK m, c : Respond(h, s, m, c)
      BY <3>1
    <3>3. pc'[h] = "replied" /\ reply'[h].status = s
      BY <1>0, <3>2 DEF Respond, Goto, TypeOK
    <3> QED
      BY <3>3
  <2>3. CASE Completes(h)
    <3>1. pc'[h] = "replied"
      BY <1>0, <2>3 DEF Completes, Respond, Goto, TypeOK
    <3> QED
      BY <2>3, <3>1
  <2> QED
    BY <1>3, <2>1, <2>2, <2>3, HandlerReplies
<1> QED
  BY <1>1, <1>2, <1>3

LEMMA ReplyStep == IInv /\ ReplyInv /\ [Next]_vars => ReplyInv'
<1> SUFFICES ASSUME IInv, ReplyInv, [Next]_vars PROVE ReplyInv'
  OBVIOUS
<1>1. ASSUME NEW h \in Handler, HandlerStep(h) \/ ClientStep(h) PROVE ReplyInv'
  BY <1>1, Replies, OtherHandlers DEF IInv, ReplyInv
<1>2. CASE \E c \in Client, s \in Sha : UploadBlob(c, s)
  BY <1>2 DEF UploadBlob, ReplyInv
<1>3. CASE UNCHANGED vars
  BY <1>3 DEF vars, ReplyInv
<1>4. CASE \E c \in Client, p \in Project : DeleteProject(c, p)
  BY <1>4 DEF DeleteProject, ReplyInv
<1> QED
  BY <1>1, <1>2, <1>3, <1>4 DEF Next

\* An entry of a history stays where it is.
LEMMA HistoryGrows ==
  ASSUME NoDeletion, IInv, [Next]_vars, NEW p \in Project, NEW i \in DOMAIN log[p]
  PROVE  i \in DOMAIN log'[p] /\ log'[p][i] = log[p][i]
<1>1. CASE UNCHANGED log
  BY <1>1
<1>2. ASSUME NEW h \in Handler, TxCommit(h)
      PROVE  i \in DOMAIN log'[p] /\ log'[p][i] = log[p][i]
  <2> DEFINE r == arg[h].project
  <2>1. /\ Len(log[r]) \in Nat /\ Len(log'[r]) = Len(log[r]) + 1
        /\ \A j \in 1 .. Len(log[r]) : log'[r][j] = log[r][j]
        /\ \A t \in Project : t # r => log'[t] = log[t]
    BY <1>2, CommitAppends
  <2>2. /\ DOMAIN log[p] = 1 .. Len(log[p]) /\ DOMAIN log'[p] = 1 .. Len(log'[p])
        /\ i \in 1 .. Len(log[p])
    BY HistoryTypes
  <2>3. CASE p = r
    BY <2>1, <2>2, <2>3
  <2>4. CASE p # r
    BY <2>1, <2>4
  <2> QED
    BY <2>3, <2>4
<1> QED
  BY <1>1, <1>2, CommitOrNot, NeverDeleted

\* While no project is deleted, an answered push/complete names its own commit,
\* and goes on naming it while other commits follow.
THEOREM CompletedOwn ==
  ASSUME NoDeletion
  PROVE  Spec => []CompletedIsOwnCommit
<1>1. Init => ReplyInv /\ CompletedIsOwnCommit
  <2>1. NoReply.status = ""
    BY DEF NoReply
  <2> QED
    BY <2>1 DEF Init, ReplyInv, CompletedIsOwnCommit
<1>2. IInv /\ ReplyInv /\ CompletedIsOwnCommit /\ [Next]_vars => CompletedIsOwnCommit'
  <2> DEFINE Completed(k) == reply[k].status = "completed" => NamesItsCommit(k)
  <2> SUFFICES ASSUME IInv, ReplyInv, \A h \in Handler : Completed(h), [Next]_vars,
                      NEW k \in Handler
               PROVE  Completed(k)'
    BY DEF CompletedIsOwnCommit
  <2>1. ASSUME reply'[k] = reply[k], arg'[k] = arg[k]
        PROVE  Completed(k)'
    <3>1. CASE reply[k].status = "completed"
      <4>1. arg[k].project \in Project
        BY <3>1 DEF ReplyInv, IInv, RequestInv
      <4> QED
        BY <2>1, <3>1, <4>1, HistoryGrows DEF NamesItsCommit
    <3>2. CASE reply[k].status # "completed"
      BY <2>1, <3>2 DEF NamesItsCommit
    <3> QED
      BY <3>1, <3>2
  <2>2. ASSUME NEW h \in Handler, HandlerStep(h) \/ ClientStep(h)
        PROVE  Completed(k)'
    <3>1. CASE k # h
      BY <2>1, <2>2, <3>1, OtherHandlers DEF IInv
    <3>2. CASE k = h /\ reply'[h].status = "completed"
      <4> DEFINE p == arg[h].project
      <4>1. /\ TxCommit(h)
            /\ Respond(h, "completed", Overlay(files[p], tx[h].up), tx[h].seq)
        BY <2>2, <3>2, Replies DEF Completes
      <4>2. reply'[h].cursor = tx[h].seq /\ reply'[h].man = Overlay(files[p], tx[h].up)
        BY <4>1 DEF Respond, IInv, TypeOK
      <4>3. tx[h].seq = Len(log[p]) + 1 /\ arg' = arg
        BY <4>1 DEF TxCommit, IInv, GateInv
      <4>4. /\ p \in Project /\ Len(log[p]) \in Nat /\ Len(log'[p]) = Len(log[p]) + 1
            /\ log'[p][Len(log[p]) + 1].client = arg[h].client
            /\ log'[p][Len(log[p]) + 1].after = Overlay(files[p], tx[h].up)
        BY <4>1, CommitAppends
      <4>5. Len(log[p]) + 1 \in DOMAIN log'[p]
        BY <4>4, HistoryTypes
      <4> QED
        BY <3>2, <4>2, <4>3, <4>4, <4>5 DEF NamesItsCommit
    <3>3. CASE k = h /\ reply'[h].status # "completed"
      BY <3>3 DEF NamesItsCommit
    <3> QED
      BY <3>1, <3>2, <3>3
  <2>3. CASE \E c \in Client, s \in Sha : UploadBlob(c, s)
    BY <2>1, <2>3 DEF UploadBlob
  <2>4. CASE UNCHANGED vars
    BY <2>1, <2>4 DEF vars
  <2> QED
    BY <2>2, <2>3, <2>4, NeverDeleted DEF Next
<1> QED
  BY <1>1, <1>2, ReplyStep, Inductive, PTL DEF Spec

-----------------------------------------------------------------------------
(***************************************************************************)
(* The server implements CloudReplica.                                     *)
(***************************************************************************)
\* Past verifyUploaded, the bucket holds the blobs of the request: nothing
\* removes a blob.  At COMMIT the transaction has upserted every entry and its
\* total is the one of the manifest it publishes.
PreparedInv ==
  \A h \in Handler :
    /\ pc[h] \in {"entitle", "lock", "gateCursor", "bump", "upsert", "commit"} =>
         Verified(arg[h].man)
    /\ pc[h] = "commit" =>
         /\ tx[h].up = arg[h].man
         /\ tx[h].total = StorageOf(Overlay(files[arg[h].project], arg[h].man))

LEMMA BlobsOnlyUploaded ==
  ASSUME [Next]_vars
  PROVE  (\E c \in Client, s \in Sha : UploadBlob(c, s)) \/ UNCHANGED blobs
<1>1. ASSUME NEW h \in Handler, HandlerStep(h) \/ ClientStep(h)
      PROVE  UNCHANGED blobs
  BY <1>1 DEF HandlerStep, ClientStep, PushStep, CompleteStep, ReadStep,
     PushLoadProject, PushInsertProject, PushReadManifest, PushReadCursor,
     CompleteLoadProject, CompleteVerify, CompleteCheckCap, TxBegin, LockTimeout,
     TxGate, TxBumpCursor, TxUpsert, TxUpdateTotal, TxFail, TxCommit, Rollback,
     PullLoadProject, PullReadManifest, PullReadCursor,
     StatusLoadProject, StatusReadManifest, StatusReadCursor,
     SendPush, SendPull, SendStatus, SendComplete, Receive, Deliver, LoseReply
<1> QED
  BY <1>1 DEF Next, vars, DeleteProject

LEMMA PreparedStep == IInv /\ PreparedInv /\ [Next]_vars => PreparedInv'
<1> SUFFICES ASSUME IInv, PreparedInv, [Next]_vars PROVE PreparedInv'
  OBVIOUS
<1> DEFINE Past == {"entitle", "lock", "gateCursor", "bump", "upsert", "commit"}
           Ready(k) == /\ pc[k] \in Past => Verified(arg[k].man)
                       /\ pc[k] = "commit" =>
                            /\ tx[k].up = arg[k].man
                            /\ tx[k].total = StorageOf(Overlay(files[arg[k].project], arg[k].man))
<1>0. TypeOK /\ LockInv /\ RequestInv /\ blobs \subseteq blobs'
      /\ \A k \in Handler : Ready(k)
  BY BlobsOnlyUploaded DEF IInv, PreparedInv, UploadBlob
<1>1. ASSUME NEW k \in Handler, pc'[k] = pc[k], arg'[k] = arg[k], tx'[k] = tx[k],
             pc[k] = "commit" => UNCHANGED files
      PROVE  Ready(k)'
  BY <1>0, <1>1 DEF Verified
<1>2. ASSUME NEW h \in Handler, HandlerStep(h) \/ ClientStep(h), NEW k \in Handler
      PROVE  Ready(k)'
  <2>1. CASE k # h
    <3>1. pc[k] = "commit" => ~TxCommit(h)
      BY <1>0, <2>1 DEF LockInv, InTransaction, TxCommit
    <3> QED
      BY <1>0, <1>1, <1>2, <2>1, <3>1, OtherHandlers, OnlyCommitWrites
  <2>2. CASE k = h /\ CompleteVerify(h)
    BY <1>0, <2>2 DEF CompleteVerify, Verified, Goto, Fail, Respond, TypeOK
  <2>3. CASE k = h /\ (CompleteCheckCap(h) \/ TxBegin(h) \/ TxBumpCursor(h) \/ TxUpsert(h))
    BY <1>0, <2>3 DEF CompleteCheckCap, TxBegin, TxBumpCursor, TxUpsert, Verified,
                      Goto, Fail, Respond, TypeOK
  <2>4. CASE k = h /\ TxGate(h)
    BY <1>0, <2>4 DEF TxGate, Rollback, Verified, Goto, Fail, Respond, TypeOK
  <2>5. CASE k = h /\ TxUpdateTotal(h)
    <3>1. /\ pc[h] = "upsert" /\ pc'[h] = "commit" /\ arg' = arg /\ files' = files
          /\ tx[h].up = arg[h].man /\ tx'[h].up = tx[h].up
          /\ tx'[h].total = StorageOf(Overlay(files[arg[h].project], tx[h].up))
      BY <1>0, <2>5 DEF TxUpdateTotal, db, history, Goto, TypeOK
    <3> QED
      BY <1>0, <2>5, <3>1 DEF Verified
  <2>6. CASE k = h /\ ~(\/ CompleteVerify(h) \/ CompleteCheckCap(h) \/ TxBegin(h)
                         \/ TxBumpCursor(h) \/ TxUpsert(h) \/ TxGate(h) \/ TxUpdateTotal(h))
    <3>1. pc'[h] \notin Past
      <4>1. CASE ClientStep(h)
        BY <1>0, <4>1 DEF ClientStep, SendPush, SendPull, SendStatus, SendComplete,
                          Receive, Deliver, LoseReply, Release, Goto, TypeOK
      <4>2. CASE PushStep(h) \/ ReadStep(h)
        BY <1>0, <4>2 DEF PushStep, ReadStep, PushLoadProject, PushInsertProject,
           PushReadManifest, PushReadCursor, PullLoadProject, PullReadManifest,
           PullReadCursor, StatusLoadProject, StatusReadManifest, StatusReadCursor,
           Goto, Respond, Fail, TypeOK
      <4>3. CASE CompleteStep(h)
        BY <1>0, <2>6, <4>3 DEF CompleteStep, CompleteLoadProject, LockTimeout,
           TxCommit, TxFail, Rollback, Goto, Respond, Fail, TypeOK
      <4> QED
        BY <1>2, <4>1, <4>2, <4>3 DEF HandlerStep
    <3> QED
      BY <2>6, <3>1
  <2> QED
    BY <2>1, <2>2, <2>3, <2>4, <2>5, <2>6
<1>3. CASE \E c \in Client, s \in Sha : UploadBlob(c, s)
  BY <1>1, <1>3 DEF UploadBlob, db, history, PreparedInv
<1>4. CASE UNCHANGED vars
  BY <1>1, <1>4 DEF vars, PreparedInv
<1>5. CASE \E c \in Client, p \in Project : DeleteProject(c, p)
  <2>1. \A h \in Handler : pc[h] # "commit"
    BY <1>0, <1>5, NilIsNoMember DEF DeleteProject, LockInv, InTransaction
  <2> QED
    BY <1>1, <1>5, <2>1 DEF DeleteProject, PreparedInv
<1> QED
  BY <1>2, <1>3, <1>4, <1>5 DEF Next, PreparedInv

\* CloudReplica's operators on manifests are SyncServer's.
LEMMA SameOperators ==
  ASSUME NEW m, NEW up
  PROVE  /\ Replica!ShasOf(m) = ShasOf(m)
         /\ Replica!Overlay(m, up) = Overlay(m, up)
         /\ Replica!StorageOf(m) = StorageOf(m)
<1>1. Replica!PathsOf(m) = PathsOf(m) /\ Replica!Overlay(m, up) = Overlay(m, up)
  BY DEF Replica!PathsOf, PathsOf, Replica!Overlay, Overlay
<1>2. Replica!ShasOf(m) = ShasOf(m)
  BY <1>1 DEF Replica!ShasOf, ShasOf
<1>3. Replica!StorageOf(m) = StorageOf(m)
  BY <1>1 DEF Replica!StorageOf, StorageOf, Replica!MapThenSumSet, MapThenSumSet,
              Replica!MapThenFoldSet, MapThenFoldSet
<1> QED
  BY <1>1, <1>2, <1>3

\* A COMMIT is the abstract commit of the request's entries.
LEMMA CommitRefines ==
  ASSUME IInv, PreparedInv, [Next]_vars, NEW h \in Handler, TxCommit(h)
  PROVE  Replica!Commit(arg[h].project, arg[h].man) /\ arg[h].man \in Manifest
<1> DEFINE p == arg[h].project
           up == arg[h].man
           m == Overlay(files[p], up)
<1>1. TypeOK /\ CursorsInv /\ CursorsInv' /\ cursors' \in [Project -> Seq(Nat)]
  BY CursorsStep, TypeStep DEF IInv, TypeOK
<1>2. /\ pc[h] = "commit" /\ tx[h].up = up /\ Verified(up)
      /\ tx[h].total = StorageOf(m)
  BY DEF TxCommit, PreparedInv
<1>3. p \in Project /\ up \in Manifest
  BY <1>1, <1>2 DEF IInv, RequestInv, TypeOK, Request
<1>4. ASSUME NEW r \in Project
      PROVE  CurrentCursor(r) = Len(log[r]) /\ CurrentCursor(r)' = Len(log'[r])
  <2>1. CurrentCursor(r) = Len(log[r])
    BY <1>1, CurrentCursorIsLen
  <2>2. /\ cursors'[r] \in Seq(Nat) /\ Len(cursors'[r]) = Len(log'[r])
        /\ \A i \in 1 .. Len(cursors'[r]) : cursors'[r][i] = i
    BY <1>1 DEF CursorsInv
  <2>3. CurrentCursor(r)' = Len(cursors'[r])
    BY <2>2, MaxOfCount DEF CurrentCursor, SeqsOf
  <2> QED
    BY <2>1, <2>2, <2>3
<1>5. /\ Len(log'[p]) = Len(log[p]) + 1
      /\ \A r \in Project : r # p => log'[r] = log[r]
  BY CommitAppends
<1>6. [r \in Project |-> CurrentCursor(r)]'
        = [[r \in Project |-> CurrentCursor(r)] EXCEPT ![p] = @ + 1]
  BY <1>3, <1>4, <1>5
<1>7. files' = [files EXCEPT ![p] = m] /\ total' = [total EXCEPT ![p] = StorageOf(m)]
      /\ UNCHANGED blobs
  BY <1>2 DEF TxCommit
<1> QED
  BY <1>2, <1>3, <1>6, <1>7, SameOperators DEF Replica!Commit, Verified

\* A deletion is the abstract one.
LEMMA DeleteRefines ==
  ASSUME IInv, NEW c \in Client, NEW p \in Project, DeleteProject(c, p)
  PROVE  Replica!Delete(p)
<1> DEFINE version == [r \in Project |-> CurrentCursor(r)]
<1>1. cursors' = [cursors EXCEPT ![p] = << >>] /\ DOMAIN cursors = Project
  BY DEF DeleteProject, IInv, TypeOK
<1>2. CurrentCursor(p)' = 0 /\ \A r \in Project : r # p => CurrentCursor(r)' = CurrentCursor(r)
  BY <1>1 DEF CurrentCursor, SeqsOf
<1>3. version' = [version EXCEPT ![p] = 0]
  BY <1>2
<1>4. Replica!EmptyManifest = EmptyManifest
  BY DEF Replica!EmptyManifest, EmptyManifest
<1> QED
  BY <1>3, <1>4 DEF Replica!Delete, DeleteProject

LEMMA InitRefines == Init => Replica!Init
<1> SUFFICES ASSUME Init PROVE Replica!Init
  OBVIOUS
<1>1. ASSUME NEW p \in Project PROVE CurrentCursor(p) = 0
  BY DEF Init, CurrentCursor, SeqsOf
<1>2. Replica!EmptyManifest = EmptyManifest
  BY DEF Replica!EmptyManifest, EmptyManifest
<1> QED
  BY <1>1, <1>2 DEF Init, Replica!Init

LEMMA StepRefines ==
  ASSUME IInv, PreparedInv, [Next]_vars
  PROVE  [Replica!Next]_(Replica!vars)
<1>1. Replica!Manifest = Manifest
  BY DEF Replica!Manifest, Manifest
<1>2. ASSUME NEW h \in Handler, TxCommit(h) PROVE Replica!Next
  <2>1. arg[h].project \in Project
    BY <1>2, CommitAppends
  <2> QED
    BY <1>1, <1>2, <2>1, CommitRefines DEF Replica!Next
<1>3. CASE UNCHANGED <<files, cursors, total, log>>
  <2>1. UNCHANGED <<[p \in Project |-> CurrentCursor(p)], files, total>>
    BY <1>3 DEF CurrentCursor, SeqsOf
  <2>2. ASSUME NEW c \in Client, NEW s \in Sha, UploadBlob(c, s)
        PROVE  Replica!Next
    BY <2>1, <2>2 DEF UploadBlob, Replica!Next, Replica!StoreBlob
  <2>3. CASE UNCHANGED blobs
    BY <2>1, <2>3 DEF Replica!vars
  <2>4. (\E c \in Client, s \in Sha : UploadBlob(c, s)) \/ UNCHANGED blobs
    BY BlobsOnlyUploaded
  <2> QED
    BY <2>2, <2>3, <2>4
<1>4. CASE \E c \in Client, p \in Project : DeleteProject(c, p)
  BY <1>4, DeleteRefines DEF Replica!Next
<1> QED
  BY <1>2, <1>3, <1>4, CommitOrNot

\* The server implements CloudReplica: whatever the clients send and lose, the
\* tables go from one whole commit to the next, each numbered one above the
\* last, naming stored blobs only and accounting their bytes.
THEOREM Refinement == Spec => ImplementsReplica
<1>1. Init => PreparedInv
  BY DEF Init, PreparedInv
<1>2. IInv /\ PreparedInv /\ [Next]_vars => [Replica!Next]_(Replica!vars)
  BY StepRefines
<1> QED
  BY <1>1, <1>2, InitRefines, PreparedStep, Inductive, PTL DEF Spec, Replica!Spec, ImplementsReplica

-----------------------------------------------------------------------------
(***************************************************************************)
(* Readers see whole commits.                                              *)
(***************************************************************************)
\* project_files is what the last commit left.
FilesInv == \A p \in Project : files[p] = StateAt(p, Len(log[p]))

\* What reader h holds or answered is what some commit left.
SeesWhole(h) ==
  /\ HasReadManifest(h) =>
       \E i \in 0 .. Len(log[arg[h].project]) : read[h].man = StateAt(arg[h].project, i)
  /\ reply[h].status \in {"pulled", "status"} =>
       \E i \in 0 .. Len(log[arg[h].project]) : reply[h].man = StateAt(arg[h].project, i)

LEMMA FilesStep == IInv /\ FilesInv /\ [Next]_vars => FilesInv'
<1> SUFFICES ASSUME IInv, FilesInv, [Next]_vars PROVE FilesInv'
  OBVIOUS
<1>1. CASE UNCHANGED <<files, log>>
  BY <1>1 DEF FilesInv, StateAt
<1>2. ASSUME NEW h \in Handler, TxCommit(h) PROVE FilesInv'
  <2> DEFINE p == arg[h].project
             m == Overlay(files[p], tx[h].up)
  <2>1. /\ p \in Project /\ Len(log[p]) \in Nat /\ Len(log'[p]) = Len(log[p]) + 1
        /\ log'[p][Len(log[p]) + 1].after = m /\ files'[p] = m
        /\ \A r \in Project : r # p => log'[r] = log[r] /\ files'[r] = files[r]
    BY <1>2, CommitAppends
  <2> QED
    BY <2>1 DEF FilesInv, StateAt
<1>3. CASE \E c \in Client, p \in Project : DeleteProject(c, p)
  BY <1>3 DEF DeleteProject, FilesInv, StateAt, IInv, TypeOK
<1> QED
  BY <1>1, <1>2, <1>3, CommitOrNot

\* While there is no deletion, what was the state of a project stays one of its states.
LEMMA StatesStay ==
  ASSUME NoDeletion, IInv, [Next]_vars, NEW p \in Project, NEW i \in 0 .. Len(log[p])
  PROVE  i \in 0 .. Len(log'[p]) /\ StateAt(p, i)' = StateAt(p, i)
<1>1. log[p] \in Seq(Entry) /\ log'[p] \in Seq(Entry)
  BY HistoryTypes
<1>2. CASE i = 0
  BY <1>1, <1>2 DEF StateAt
<1>3. CASE i # 0
  <2>1. i \in DOMAIN log[p]
    BY <1>1, <1>3
  <2>2. i \in DOMAIN log'[p] /\ log'[p][i] = log[p][i]
    BY <2>1, HistoryGrows
  <2> QED
    BY <1>1, <1>3, <2>2 DEF StateAt
<1> QED
  BY <1>2, <1>3

\* A reader's step: it reads project_files, answers what it has read, or
\* answers without having read.
LEMMA ReaderMoves ==
  ASSUME IInv, ReplyInv, NEW h \in Handler, HandlerStep(h) \/ ClientStep(h), pc[h] # "idle"
  PROVE  /\ HasReadManifest(h)' =>
              \/ read'[h].man = files[arg[h].project]
              \/ read'[h].man = read[h].man /\ HasReadManifest(h)
         /\ reply'[h].status \in {"pulled", "status"} =>
              \/ reply'[h].man \in {EmptyManifest, files[arg[h].project]}
              \/ reply'[h].man = read[h].man /\ HasReadManifest(h)
<1>0. TypeOK /\ (pc[h] # "replied" => reply[h].status = "")
  BY DEF IInv, ReplyInv
<1> DEFINE p == arg[h].project
           Reads == HasReadManifest(h)' =>
              \/ read'[h].man = files[p]
              \/ read'[h].man = read[h].man /\ HasReadManifest(h)
           Says == reply'[h].status \in {"pulled", "status"} =>
              \/ reply'[h].man \in {EmptyManifest, files[p]}
              \/ reply'[h].man = read[h].man /\ HasReadManifest(h)
<1>1. ASSUME NEW s, NEW m, NEW c, Respond(h, s, m, c)
      PROVE  ~HasReadManifest(h)' /\ reply'[h].status = s /\ reply'[h].man = m
  BY <1>0, <1>1 DEF Respond, Goto, TypeOK, HasReadManifest
<1>2. ASSUME NEW s, Fail(h, s)
      PROVE  ~HasReadManifest(h)' /\ reply'[h].status = s /\ reply'[h].man = EmptyManifest
  BY <1>1, <1>2 DEF Fail
<1>3. ASSUME NEW step, Goto(h, step)
      PROVE  pc'[h] = step
  BY <1>0, <1>3 DEF Goto, TypeOK
<1>4. ASSUME NEW step \in Steps \ {"pushCursor", "pullCursor", "statusCursor"},
             Goto(h, step), UNCHANGED reply, pc[h] # "replied"
      PROVE  Reads /\ Says
  BY <1>0, <1>3, <1>4 DEF HasReadManifest
<1>5. CASE ClientStep(h)
  <2>1. CASE Deliver(h) \/ LoseReply(h)
    <3>1. NoReply.status = ""
      BY DEF NoReply
    <3> QED
      BY <1>0, <1>3, <2>1, <3>1 DEF Deliver, LoseReply, Release, TypeOK, HasReadManifest
  <2>2. CASE ~Deliver(h) /\ ~LoseReply(h)
    BY <1>5, <2>2 DEF ClientStep, SendPush, SendPull, SendStatus, SendComplete, Receive
  <2> QED
    BY <2>1, <2>2
<1>6. CASE PushStep(h)
  <2>1. CASE PushLoadProject(h) \/ PushInsertProject(h)
    BY <1>2, <1>4, <2>1 DEF PushLoadProject, PushInsertProject, Steps
  <2>2. CASE PushReadManifest(h)
    BY <1>0, <1>3, <2>2 DEF PushReadManifest, TypeOK
  <2>3. CASE PushReadCursor(h)
    BY <1>1, <2>3 DEF PushReadCursor
  <2> QED
    BY <1>6, <2>1, <2>2, <2>3 DEF PushStep
<1>7. CASE CompleteStep(h)
  <2>1. CASE \/ CompleteLoadProject(h) \/ CompleteVerify(h) \/ CompleteCheckCap(h)
             \/ TxBegin(h) \/ LockTimeout(h) \/ TxBumpCursor(h) \/ TxUpdateTotal(h)
    BY <1>2, <1>4, <2>1 DEF CompleteLoadProject, CompleteVerify, CompleteCheckCap,
       TxBegin, LockTimeout, TxBumpCursor, TxUpdateTotal, Steps
  <2>2. CASE TxGate(h) \/ TxFail(h)
    BY <1>2, <1>4, <2>2 DEF TxGate, TxFail, Rollback, Steps
  <2>3. CASE TxUpsert(h)
    BY <1>0, <2>3 DEF TxUpsert, HasReadManifest
  <2>4. CASE TxCommit(h)
    BY <1>1, <1>2, <2>4 DEF TxCommit
  <2> QED
    BY <1>7, <2>1, <2>2, <2>3, <2>4 DEF CompleteStep
<1>8. CASE ReadStep(h)
  <2>1. CASE PullLoadProject(h) \/ StatusLoadProject(h)
    BY <1>1, <1>2, <1>4, <2>1 DEF PullLoadProject, StatusLoadProject, Steps
  <2>2. CASE PullReadManifest(h)
    BY <1>0, <1>3, <2>2 DEF PullReadManifest, TypeOK
  <2>3. CASE PullReadCursor(h)
    BY <1>1, <2>3 DEF PullReadCursor, HasReadManifest
  <2>4. CASE StatusReadManifest(h)
    <3>1. CASE Goto(h, "statusCursor") /\ UNCHANGED reply /\ pc[h] = "statusRead"
      BY <1>0, <2>4, <3>1 DEF StatusReadManifest, TypeOK
    <3>2. CASE Respond(h, "status", files[p], read[h].cursor)
      BY <1>1, <3>2
    <3> QED
      BY <2>4, <3>1, <3>2 DEF StatusReadManifest
  <2>5. CASE StatusReadCursor(h)
    <3>1. CASE Goto(h, "statusManifest") /\ UNCHANGED reply /\ pc[h] = "statusRead"
      BY <1>4, <3>1 DEF Steps
    <3>2. CASE /\ Respond(h, "status", read[h].man, CurrentCursor(p))
               /\ pc[h] = "statusCursor"
      BY <1>1, <3>2 DEF HasReadManifest
    <3> QED
      BY <2>5, <3>1, <3>2 DEF StatusReadCursor
  <2> QED
    BY <1>8, <2>1, <2>2, <2>3, <2>4, <2>5 DEF ReadStep
<1> QED
  BY <1>5, <1>6, <1>7, <1>8 DEF HandlerStep

LEMMA SeesStep ==
  ASSUME NoDeletion, IInv, ReplyInv, FilesInv, \A k \in Handler : SeesWhole(k), [Next]_vars,
         NEW k \in Handler
  PROVE  SeesWhole(k)'
<1>0. TypeOK /\ RequestInv /\ SeesWhole(k)
      /\ (pc[k] # "idle" => arg[k].project \in Project)
      /\ (reply[k].status # "" => pc[k] = "replied")
  BY DEF IInv, RequestInv, ReplyInv
<1>1. ASSUME arg'[k] = arg[k], read'[k] = read[k], reply'[k] = reply[k], pc'[k] = pc[k]
      PROVE  SeesWhole(k)'
  <2>1. CASE pc[k] = "idle"
    BY <1>0, <1>1, <2>1 DEF SeesWhole, HasReadManifest
  <2>2. CASE pc[k] # "idle"
    BY <1>0, <1>1, <2>2, StatesStay DEF SeesWhole, HasReadManifest
  <2> QED
    BY <2>1, <2>2
<1>2. ASSUME NEW h \in Handler, HandlerStep(h) \/ ClientStep(h)
      PROVE  SeesWhole(k)'
  <2> DEFINE p == arg[h].project
             Past(m) == \E i \in 0 .. Len(log[p]) : m = StateAt(p, i)
  <2>1. CASE k # h
    BY <1>0, <1>1, <1>2, <2>1, OtherHandlers
  <2>2. CASE k = h /\ (HasReadManifest(h)' \/ reply'[h].status \in {"pulled", "status"})
    <3>1. pc[h] # "idle"
      <4>1. CASE Deliver(h) \/ LoseReply(h)
        BY <4>1 DEF Deliver, LoseReply
      <4>2. CASE \E kind \in {"push", "pull", "status", "complete"} : \E r : Receive(h, kind, r)
        BY <1>0, <2>2, <4>2 DEF Receive, Goto, TypeOK, HasReadManifest
      <4>3. CASE HandlerStep(h)
        BY <4>3 DEF HandlerStep, PushStep, CompleteStep, ReadStep,
           PushLoadProject, PushInsertProject, PushReadManifest, PushReadCursor,
           CompleteLoadProject, CompleteVerify, CompleteCheckCap, TxBegin, LockTimeout,
           TxGate, TxBumpCursor, TxUpsert, TxUpdateTotal, TxFail, TxCommit, InTransaction,
           PullLoadProject, PullReadManifest, PullReadCursor,
           StatusLoadProject, StatusReadManifest, StatusReadCursor
      <4> QED
        BY <1>2, <4>1, <4>2, <4>3
           DEF ClientStep, SendPush, SendPull, SendStatus, SendComplete
    <3>2. p \in Project /\ (pc'[h] = "idle" \/ arg'[h] = arg[h])
      BY <1>0, <1>2, <2>2, <3>1, RequestIsFixed
    <3>3. Past(files[p]) /\ Past(EmptyManifest)
      <4>1. Len(log[p]) \in Nat
        BY <3>2, HistoryTypes
      <4> QED
        BY <3>2, <4>1 DEF FilesInv, StateAt
    <3>4. (HasReadManifest(h)' => Past(read'[h].man))
          /\ (reply'[h].status \in {"pulled", "status"} => Past(reply'[h].man))
      BY ReaderMoves, <1>0, <1>2, <2>2, <3>1, <3>3 DEF SeesWhole
    <3> DEFINE Later(i) == IF i = 0 THEN EmptyManifest ELSE log'[p][i].after
    <3>5. \A i \in 0 .. Len(log[p]) : i \in 0 .. Len(log'[p]) /\ Later(i) = StateAt(p, i)
      BY <3>2, StatesStay DEF StateAt
    <3>6. arg'[h] = arg[h]
      BY <1>2, <2>2, <3>2, ReplyStep DEF HasReadManifest, ReplyInv
    <3>7. HasReadManifest(h)' => \E i \in 0 .. Len(log'[p]) : read'[h].man = Later(i)
      BY <3>4, <3>5
    <3>8. reply'[h].status \in {"pulled", "status"} =>
            \E i \in 0 .. Len(log'[p]) : reply'[h].man = Later(i)
      BY <3>4, <3>5
    <3> QED
      BY <2>2, <3>6, <3>7, <3>8 DEF SeesWhole, StateAt
  <2>3. CASE k = h /\ ~HasReadManifest(h)' /\ reply'[h].status \notin {"pulled", "status"}
    BY <2>3 DEF SeesWhole
  <2> QED
    BY <2>1, <2>2, <2>3
<1>3. CASE \E c \in Client, s \in Sha : UploadBlob(c, s)
  BY <1>1, <1>3 DEF UploadBlob
<1>4. CASE UNCHANGED vars
  BY <1>1, <1>4 DEF vars
<1> QED
  BY <1>2, <1>3, <1>4, NeverDeleted DEF Next

\* While no project is deleted, no request sees half of a commit: push, pull and
\* status read project_files in one statement, and COMMIT writes it in one step.
THEOREM ReadsAreWhole ==
  ASSUME NoDeletion
  PROVE  Spec => []NoTornManifest
<1> DEFINE AllSee == \A k \in Handler : SeesWhole(k)
<1>1. Init => ReplyInv /\ FilesInv /\ AllSee
  <2> SUFFICES ASSUME Init PROVE ReplyInv /\ FilesInv /\ AllSee
    OBVIOUS
  <2>1. \A h \in Handler : reply[h].status = "" /\ pc[h] = "idle"
    BY DEF Init, NoReply
  <2>2. FilesInv
    BY DEF Init, FilesInv, StateAt
  <2> QED
    BY <2>1, <2>2 DEF ReplyInv, SeesWhole, HasReadManifest
<1>2. IInv /\ ReplyInv /\ FilesInv /\ AllSee /\ [Next]_vars => AllSee'
  BY SeesStep
<1>3. AllSee => NoTornManifest
  BY DEF SeesWhole, NoTornManifest
<1> QED
  BY <1>1, <1>2, <1>3, ReplyStep, FilesStep, Inductive, PTL DEF Spec

-----------------------------------------------------------------------------
(***************************************************************************)
(* The cap.  It is asked before the lock is taken, of the manifest that is *)
(* then in the table.  A commit that its cursor lets pass replaces that    *)
(* manifest: any commit in between has taken the cursor away, and a cursor *)
(* is never handed out before the commit it names.                         *)
(***************************************************************************)
GatedClients == MayOmitCursor = FALSE

Completing == {"complete", "verify", "entitle", "lock", "gateCursor", "bump", "upsert", "commit"}
PastCap    == {"lock", "gateCursor", "bump", "upsert", "commit"}

\* The cursor names a commit of the project, or none so far.
Names(cursor, p) == cursor \in Nat /\ cursor <= Len(log[p])

\* The cursors that clients hold and send have been issued.
IssuedInv ==
  /\ \A h \in Handler : reply[h].status = "pushed" => Names(reply[h].cursor, arg[h].project)
  /\ \A c \in Client : held[c] # NoPush => Names(held[c].cursor, held[c].project)
  /\ \A h \in Handler : pc[h] \in Completing => Names(arg[h].cursor, arg[h].project)

\* What the cap was asked of is still there, unless the cursor is stale.
CapInv ==
  \A h \in Handler :
    pc[h] \in PastCap /\ arg[h].cursor = Len(log[arg[h].project]) => WithinCap(h)

\* Where nobody owns a project, it has no files.
UnownedInv == \A p \in Project : owner[p] = Nil => files[p] = EmptyManifest

\* A history grows by one commit, or it and the manifest stay.
LEMMA OneCommit ==
  ASSUME NoDeletion, IInv, [Next]_vars, NEW p \in Project
  PROVE  /\ Len(log[p]) \in Nat
         /\ \/ log'[p] = log[p] /\ files'[p] = files[p]
            \/ Len(log'[p]) = Len(log[p]) + 1
<1>1. log[p] \in Seq(Entry)
  BY HistoryTypes
<1>2. ASSUME NEW h \in Handler, TxCommit(h)
      PROVE  \/ log'[p] = log[p] /\ files'[p] = files[p]
             \/ Len(log'[p]) = Len(log[p]) + 1
  BY <1>2, CommitAppends
<1> QED
  BY <1>1, <1>2, CommitOrNot, NeverDeleted

\* A cursor that was issued stays so.
LEMMA IssuedStays ==
  ASSUME NoDeletion, IInv, [Next]_vars, NEW p \in Project, NEW cursor, Names(cursor, p)
  PROVE  cursor \in Nat /\ cursor <= Len(log'[p])
  BY OneCommit DEF Names

\* Who answers a push, who keeps the answer, who starts a completion.
LEMMA CursorMoves ==
  ASSUME GatedClients, IInv, ReplyInv, NEW h \in Handler, HandlerStep(h) \/ ClientStep(h)
  PROVE  /\ reply'[h].status = "pushed" =>
              \/ PushReadCursor(h)
              \/ reply'[h] = reply[h] /\ arg'[h] = arg[h] /\ pc[h] # "idle"
         /\ UNCHANGED held \/ Deliver(h)
         /\ pc'[h] \in Completing =>
              \/ pc[h] \in Completing /\ arg'[h] = arg[h]
              \/ \E c \in Client : SendComplete(h, c, held[c].cursor)
<1>0. TypeOK /\ (pc[h] # "replied" => reply[h].status = "")
  BY DEF IInv, ReplyInv
<1>1. CASE ClientStep(h)
  <2>1. CASE Deliver(h) \/ LoseReply(h)
    <3>1. reply'[h].status = "" /\ pc'[h] = "idle" /\ (Deliver(h) \/ UNCHANGED held)
      <4>1. NoReply.status = ""
        BY DEF NoReply
      <4> QED
        BY <1>0, <2>1, <4>1 DEF Deliver, LoseReply, Release, Goto, TypeOK
    <3> QED
      BY <3>1 DEF Completing
  <2>2. CASE ~Deliver(h) /\ ~LoseReply(h)
    <3>1. reply'[h].status = "" /\ UNCHANGED held
      BY <1>0, <1>1, <2>2 DEF ClientStep, SendPush, SendPull, SendStatus, SendComplete, Receive
    <3>2. ASSUME pc'[h] \in Completing
          PROVE  \E c \in Client : \E cursor \in {held[c].cursor, NoCursor} :
                    SendComplete(h, c, cursor)
      BY <1>0, <1>1, <2>2, <3>2 DEF ClientStep, SendPush, SendPull, SendStatus, Receive, Goto,
         TypeOK, Completing
    <3>3. ASSUME NEW c \in Client, NEW cursor, SendComplete(h, c, cursor)
          PROVE  cursor = held[c].cursor
      BY <3>3 DEF SendComplete, GatedClients
    <3> QED
      BY <3>1, <3>2, <3>3
  <2> QED
    BY <2>1, <2>2
<1>2. CASE HandlerStep(h)
  <2>1. UNCHANGED <<held, arg>> /\ pc[h] # "idle" /\ pc[h] # "replied"
    BY <1>2 DEF HandlerStep, PushStep, CompleteStep, ReadStep,
       PushLoadProject, PushInsertProject, PushReadManifest, PushReadCursor,
       CompleteLoadProject, CompleteVerify, CompleteCheckCap, TxBegin, LockTimeout,
       TxGate, TxBumpCursor, TxUpsert, TxUpdateTotal, TxFail, TxCommit, Rollback, InTransaction,
       PullLoadProject, PullReadManifest, PullReadCursor,
       StatusLoadProject, StatusReadManifest, StatusReadCursor
  <2>2. ASSUME pc'[h] \in Completing PROVE pc[h] \in Completing
    <3>1. CASE PushStep(h) \/ ReadStep(h)
      BY <1>0, <2>2, <3>1 DEF PushStep, ReadStep, PushLoadProject, PushInsertProject,
         PushReadManifest, PushReadCursor, PullLoadProject, PullReadManifest,
         PullReadCursor, StatusLoadProject, StatusReadManifest, StatusReadCursor,
         Goto, Respond, Fail, TypeOK, Completing
    <3>2. CASE CompleteStep(h)
      BY <3>2 DEF CompleteStep, CompleteLoadProject, CompleteVerify,
         CompleteCheckCap, TxBegin, LockTimeout, TxGate, TxBumpCursor, TxUpsert,
         TxUpdateTotal, TxFail, TxCommit, InTransaction, Completing
    <3> QED
      BY <1>2, <3>1, <3>2 DEF HandlerStep
  <2>3. ASSUME reply'[h].status = "pushed" PROVE PushReadCursor(h)
    <3> DEFINE Other == \E s \in Statuses \ {"pushed"} : \E m, n : Respond(h, s, m, n)
    <3>1. ASSUME NEW s \in Statuses \ {"pushed"}, Fail(h, s) PROVE Other
      BY <3>1 DEF Fail
    <3>2. ASSUME Other PROVE FALSE
      <4>1. PICK s \in Statuses \ {"pushed"} : \E m, n : Respond(h, s, m, n)
        BY <3>2
      <4>2. PICK m, n : Respond(h, s, m, n)
        BY <4>1
      <4>3. reply'[h].status = s
        BY <1>0, <4>2 DEF Respond, TypeOK
      <4> QED
        BY <2>3, <4>3
    <3>3. ~UNCHANGED reply
      BY <1>0, <2>1, <2>3
    <3> SUFFICES ASSUME ~PushReadCursor(h) PROVE UNCHANGED reply \/ Other
      BY <3>2, <3>3
    <3> HIDE DEF Other
    <3>4. CASE PushStep(h)
      BY <3>1, <3>4 DEF PushStep, PushLoadProject, PushInsertProject, PushReadManifest, Statuses
    <3>5. CASE CompleteStep(h) /\ ~TxCommit(h)
      BY <3>1, <3>5 DEF CompleteStep, CompleteLoadProject, CompleteVerify,
         CompleteCheckCap, TxBegin, LockTimeout, TxGate, TxBumpCursor, TxUpsert,
         TxUpdateTotal, TxFail, Rollback, InTransaction, Statuses
    <3>6. CASE TxCommit(h)
      BY <3>1, <3>6 DEF TxCommit, Other, Statuses
    <3>7. CASE PullLoadProject(h) \/ PullReadManifest(h) \/ PullReadCursor(h)
      BY <3>1, <3>7 DEF PullLoadProject, PullReadManifest, PullReadCursor, Other, Statuses
    <3>8. CASE StatusLoadProject(h)
      BY <3>1, <3>8 DEF StatusLoadProject, Other, Statuses
    <3>9. CASE StatusReadManifest(h) \/ StatusReadCursor(h)
      BY <3>9 DEF StatusReadManifest, StatusReadCursor, Other, Statuses
    <3> QED
      BY <1>2, <3>4, <3>5, <3>6, <3>7, <3>8, <3>9 DEF HandlerStep, ReadStep
  <2> QED
    BY <2>1, <2>2, <2>3
<1> QED
  BY <1>1, <1>2

\* What clients hold and send stays issued.
LEMMA IssuedStep ==
  ASSUME NoDeletion, GatedClients
  PROVE  IInv /\ ReplyInv /\ IssuedInv /\ [Next]_vars => IssuedInv'
<1> SUFFICES ASSUME IInv, ReplyInv, IssuedInv, [Next]_vars PROVE IssuedInv'
  OBVIOUS
<1>0. TypeOK /\ CursorsInv /\ RequestInv
  BY DEF IInv
<1> DEFINE Good(cursor, p) == cursor \in Nat /\ cursor <= Len(log'[p])
<1>1. ASSUME NEW p \in Project, NEW cursor, Names(cursor, p) PROVE Good(cursor, p)
  BY <1>1, IssuedStays
<1>2. ASSUME NEW k \in Handler, reply'[k] = reply[k], arg'[k] = arg[k],
             reply[k].status = "pushed"
      PROVE  Good(reply'[k].cursor, arg'[k].project)
  <2>1. arg[k].project \in Project /\ Names(reply[k].cursor, arg[k].project)
    BY <1>0, <1>2 DEF ReplyInv, RequestInv, IssuedInv
  <2> QED
    BY <1>1, <1>2, <2>1
<1>3. ASSUME NEW k \in Handler, pc[k] \in Completing, arg'[k] = arg[k]
      PROVE  Good(arg'[k].cursor, arg'[k].project)
  <2>1. arg[k].project \in Project /\ Names(arg[k].cursor, arg[k].project)
    BY <1>0, <1>3 DEF RequestInv, IssuedInv, Completing
  <2> QED
    BY <1>1, <1>3, <2>1
<1>4. ASSUME NEW c \in Client, held'[c] = held[c], held[c] # NoPush
      PROVE  Good(held'[c].cursor, held'[c].project)
  <2>1. held[c].project \in Project /\ Names(held[c].cursor, held[c].project)
    BY <1>0, <1>4 DEF RequestInv, IssuedInv
  <2> QED
    BY <1>1, <1>4, <2>1
<1> HIDE DEF Good
<1>5. ASSUME NEW h \in Handler, HandlerStep(h) \/ ClientStep(h)
      PROVE  IssuedInv'
  <2>1. ASSUME NEW k \in Handler, reply'[k].status = "pushed"
        PROVE  Good(reply'[k].cursor, arg'[k].project)
    <3>1. CASE k # h \/ ~PushReadCursor(h)
      BY <1>0, <1>2, <1>5, <2>1, <3>1, OtherHandlers, CursorMoves
    <3>2. CASE k = h /\ PushReadCursor(h)
      <4>1. arg[h].project \in Project /\ arg' = arg
        BY <1>0, <3>2 DEF PushReadCursor, RequestInv
      <4>2. reply'[h].cursor = CurrentCursor(arg[h].project)
        BY <1>0, <3>2 DEF PushReadCursor, Respond, TypeOK
      <4>3. Names(reply'[h].cursor, arg[h].project)
        BY <1>0, <4>1, <4>2, CurrentCursorIsLen DEF Names
      <4> QED
        BY <1>1, <3>2, <4>1, <4>3
    <3> QED
      BY <3>1, <3>2
  <2>2. ASSUME NEW c \in Client, held'[c] # NoPush
        PROVE  Good(held'[c].cursor, held'[c].project)
    <3>1. CASE held'[c] = held[c]
      BY <1>4, <2>2, <3>1
    <3>2. CASE held'[c] # held[c]
      <4>1. Deliver(h)
        BY <1>5, <3>2, CursorMoves
      <4>2. /\ reply[h].status = "pushed" /\ arg[h].project \in Project
            /\ held'[c].project = arg[h].project /\ held'[c].cursor = reply[h].cursor
        BY <1>0, <2>2, <3>2, <4>1 DEF Deliver, RequestInv, TypeOK
      <4>3. Names(reply[h].cursor, arg[h].project)
        BY <4>2 DEF IssuedInv
      <4> QED
        BY <1>1, <4>2, <4>3
    <3> QED
      BY <3>1, <3>2
  <2>3. ASSUME NEW k \in Handler, pc'[k] \in Completing
        PROVE  Good(arg'[k].cursor, arg'[k].project)
    <3>1. CASE pc[k] \in Completing /\ arg'[k] = arg[k]
      BY <1>3, <3>1
    <3>2. CASE ~(pc[k] \in Completing /\ arg'[k] = arg[k])
      <4>1. k = h
        BY <1>0, <1>5, <2>3, <3>2, OtherHandlers
      <4>2. PICK c \in Client : SendComplete(h, c, held[c].cursor)
        BY <1>5, <2>3, <3>2, <4>1, CursorMoves
      <4>3. /\ held[c] # NoPush /\ arg'[h].project = held[c].project
            /\ arg'[h].cursor = held[c].cursor
        BY <1>0, <4>2 DEF SendComplete, Receive, TypeOK
      <4>4. held[c].project \in Project /\ Names(held[c].cursor, held[c].project)
        BY <1>0, <4>3 DEF RequestInv, IssuedInv
      <4> QED
        BY <1>1, <4>1, <4>3, <4>4
    <3> QED
      BY <3>1, <3>2
  <2> QED
    BY <2>1, <2>2, <2>3 DEF IssuedInv, Names, Good
<1>6. ASSUME UNCHANGED <<pc, arg, reply, held>> PROVE IssuedInv'
  <2>1. \A k \in Handler : reply'[k].status = "pushed" => Good(reply'[k].cursor, arg'[k].project)
    BY <1>2, <1>6
  <2>2. \A c \in Client : held'[c] # NoPush => Good(held'[c].cursor, held'[c].project)
    BY <1>4, <1>6
  <2>3. \A k \in Handler : pc'[k] \in Completing => Good(arg'[k].cursor, arg'[k].project)
    BY <1>3, <1>6
  <2> QED
    BY <2>1, <2>2, <2>3 DEF IssuedInv, Names, Good
<1>7. CASE \E c \in Client, s \in Sha : UploadBlob(c, s)
  BY <1>6, <1>7 DEF UploadBlob
<1>8. CASE UNCHANGED vars
  BY <1>6, <1>8 DEF vars
<1> QED
  BY <1>5, <1>7, <1>8, NeverDeleted DEF Next

\* A step into the lines after the cap is the check of the cap.
LEMMA CapMoves ==
  ASSUME IInv, NEW h \in Handler, HandlerStep(h) \/ ClientStep(h), pc'[h] \in PastCap
  PROVE  \/ pc[h] \in PastCap /\ arg'[h] = arg[h]
         \/ CompleteCheckCap(h) /\ WithinCap(h)
<1>0. TypeOK
  BY DEF IInv
<1>1. CASE ClientStep(h)
  BY <1>0, <1>1 DEF ClientStep, SendPush, SendPull, SendStatus, SendComplete, Receive,
     Deliver, LoseReply, Release, Goto, TypeOK, PastCap
<1>2. CASE PushStep(h) \/ ReadStep(h)
  BY <1>0, <1>2 DEF PushStep, ReadStep, PushLoadProject, PushInsertProject,
     PushReadManifest, PushReadCursor, PullLoadProject, PullReadManifest,
     PullReadCursor, StatusLoadProject, StatusReadManifest, StatusReadCursor,
     Goto, Respond, Fail, TypeOK, PastCap
<1>3. CASE CompleteStep(h)
  BY <1>0, <1>3 DEF CompleteStep, CompleteLoadProject, CompleteVerify,
     CompleteCheckCap, TxBegin, LockTimeout, TxGate, TxBumpCursor, TxUpsert,
     TxUpdateTotal, TxFail, TxCommit, Rollback, InTransaction, Goto, Respond, Fail, TypeOK,
     PastCap
<1> QED
  BY <1>1, <1>2, <1>3 DEF HandlerStep

\* The check of the cap holds until the commit.
LEMMA CapStep ==
  ASSUME NoDeletion, GatedClients
  PROVE  IInv /\ IssuedInv /\ CapInv /\ [Next]_vars => CapInv'
<1> SUFFICES ASSUME IInv, IssuedInv, CapInv, [Next]_vars, NEW k \in Handler,
                    pc'[k] \in PastCap, arg'[k].cursor = Len(log'[arg'[k].project])
             PROVE  WithinCap(k)'
  BY DEF CapInv
<1>0. TypeOK /\ RequestInv
  BY DEF IInv
<1>1. ASSUME pc[k] \in PastCap, arg'[k] = arg[k] PROVE WithinCap(k)'
  <2> DEFINE p == arg[k].project
  <2>1. p \in Project /\ Names(arg[k].cursor, p)
    BY <1>0, <1>1 DEF RequestInv, IssuedInv, PastCap, Completing
  <2>2. log'[p] = log[p] /\ files'[p] = files[p]
    BY <1>1, <2>1, OneCommit DEF Names
  <2>3. WithinCap(k)
    BY <1>1, <2>2 DEF CapInv
  <2> QED
    BY <1>1, <2>2, <2>3 DEF WithinCap, AccountOfRequest
<1>2. ASSUME NEW h \in Handler, HandlerStep(h) \/ ClientStep(h) PROVE WithinCap(k)'
  <2>1. CASE k # h
    BY <1>0, <1>1, <1>2, <2>1, OtherHandlers
  <2>2. CASE k = h /\ CompleteCheckCap(h) /\ WithinCap(h)
    BY <2>2 DEF CompleteCheckCap, WithinCap, AccountOfRequest, db
  <2> QED
    BY <1>1, <1>2, <2>1, <2>2, CapMoves
<1>3. CASE \E c \in Client, s \in Sha : UploadBlob(c, s)
  BY <1>1, <1>3 DEF UploadBlob
<1>4. CASE UNCHANGED vars
  BY <1>1, <1>4 DEF vars
<1> QED
  BY <1>2, <1>3, <1>4, NeverDeleted DEF Next

\* What a commit writes: a project of its client, within the cap.
LEMMA CommitWithinCap ==
  ASSUME IInv, OwnedInv, PreparedInv, IssuedInv, CapInv, NEW h \in Handler, TxCommit(h)
  PROVE  LET p == arg[h].project
         IN  /\ p \in Project /\ UNCHANGED owner
             /\ owner[p] = AccountOfRequest(h) /\ owner[p] # Nil
             /\ StorageOf(files'[p]) <= Cap[owner[p]]
             /\ \A r \in Project : r # p => files'[r] = files[r]
<1> DEFINE p == arg[h].project
<1>1. pc[h] = "commit" /\ UNCHANGED owner
  BY DEF TxCommit
<1>2. /\ p \in Project /\ arg[h].client \in Client /\ files'[p] = Overlay(files[p], tx[h].up)
      /\ \A r \in Project : r # p => files'[r] = files[r]
  BY <1>1, CommitAppends DEF IInv, RequestInv
<1>3. tx[h].up = arg[h].man
  BY <1>1 DEF PreparedInv
<1>4. arg[h].cursor = Len(log[p])
  <2>1. arg[h].cursor \in Nat
    BY <1>1 DEF IssuedInv, Names, Completing
  <2>2. arg[h].cursor \in {NoCursor, Len(log[p])}
    BY <1>1 DEF IInv, GateInv
  <2> QED
    BY <2>1, <2>2 DEF NoCursor
<1>5. WithinCap(h) /\ owner[p] = AccountOfRequest(h)
  BY <1>1, <1>4 DEF CapInv, PastCap, OwnedInv, Owns
<1>6. owner[p] # Nil
  BY <1>2, <1>5, ClientAssumption, NilIsNoMember DEF AccountOfRequest
<1> QED
  BY <1>1, <1>2, <1>3, <1>5, <1>6 DEF WithinCap, ProjectedStorageBytes

\* The cap is kept.
LEMMA WithinStep ==
  ASSUME NoDeletion
  PROVE  IInv /\ OwnedInv /\ PreparedInv /\ IssuedInv /\ CapInv
           /\ UnownedInv /\ ProjectWithinCap /\ [Next]_vars
           => UnownedInv' /\ ProjectWithinCap'
<1> DEFINE Un(q) == owner[q] = Nil => files[q] = EmptyManifest
           In(q) == owner[q] # Nil => StorageOf(files[q]) <= Cap[owner[q]]
<1> SUFFICES ASSUME IInv, OwnedInv, PreparedInv, IssuedInv, CapInv, UnownedInv,
                    ProjectWithinCap, [Next]_vars
             PROVE  UnownedInv' /\ ProjectWithinCap'
  OBVIOUS
<1> SUFFICES ASSUME NEW p \in Project PROVE Un(p)' /\ In(p)'
  <2>1. (\A p \in Project : Un(p)') => UnownedInv'
    BY DEF UnownedInv
  <2>2. (\A p \in Project : In(p)') => ProjectWithinCap'
    BY DEF ProjectWithinCap
  <2> QED
    BY <2>1, <2>2
<1>0. DOMAIN owner = Project
  BY DEF IInv, TypeOK
<1>1. ASSUME NEW h \in Handler, TxCommit(h)
      PROVE  Un(p)' /\ In(p)'
  BY <1>1, CommitWithinCap DEF UnownedInv, ProjectWithinCap
<1>2. ASSUME UNCHANGED files
      PROVE  Un(p)' /\ In(p)'
  <2>1. CASE owner'[p] = owner[p]
    BY <1>2, <2>1 DEF UnownedInv, ProjectWithinCap
  <2>2. CASE owner'[p] # owner[p]
    <3>1. owner[p] = Nil /\ owner'[p] \in Account
      BY <1>0, <2>2, OwnerSet, NeverDeleted
    <3>2. files'[p] = EmptyManifest /\ StorageOf(files'[p]) = 0
      BY <1>2, <3>1, EmptyStorage DEF UnownedInv
    <3>3. Cap[owner'[p]] \in Nat
      BY <3>1, ClientAssumption
    <3> QED
      BY <3>2, <3>3
  <2> QED
    BY <2>1, <2>2
<1> QED
  BY <1>1, <1>2, CommitOrNot, NeverDeleted

\* While nothing is deleted and clients send the cursor they were given, no project
\* holds more than its owner's cap: what the entitlement gate found outside of the
\* lock is still right at COMMIT.
THEOREM WithinCapAlways ==
  ASSUME NoDeletion, GatedClients
  PROVE  Spec => []ProjectWithinCap
<1>1. Init => ReplyInv /\ OwnedInv /\ PreparedInv /\ IssuedInv /\ CapInv /\ UnownedInv
              /\ ProjectWithinCap
  <2> SUFFICES ASSUME Init
               PROVE  ReplyInv /\ OwnedInv /\ PreparedInv /\ IssuedInv /\ CapInv /\ UnownedInv
                      /\ ProjectWithinCap
    OBVIOUS
  <2>1. /\ \A h \in Handler : pc[h] = "idle" /\ reply[h].status = ""
        /\ \A c \in Client : held[c] = NoPush
        /\ \A p \in Project : owner[p] = Nil /\ files[p] = EmptyManifest
    BY DEF Init, NoReply
  <2> QED
    BY <2>1 DEF ReplyInv, OwnedInv, PreparedInv, IssuedInv, CapInv, UnownedInv,
                ProjectWithinCap, Completing, PastCap
<1>2. ReplyInv /\ IInv /\ [Next]_vars => ReplyInv'
  BY ReplyStep
<1>3. OwnedInv /\ IInv /\ [Next]_vars => OwnedInv'
  BY OwnedStep
<1>4. PreparedInv /\ IInv /\ [Next]_vars => PreparedInv'
  BY PreparedStep
<1>5. IInv /\ ReplyInv /\ IssuedInv /\ [Next]_vars => IssuedInv'
  BY IssuedStep
<1>6. IInv /\ IssuedInv /\ CapInv /\ [Next]_vars => CapInv'
  BY CapStep
<1>7. IInv /\ OwnedInv /\ PreparedInv /\ IssuedInv /\ CapInv
        /\ UnownedInv /\ ProjectWithinCap /\ [Next]_vars
        => UnownedInv' /\ ProjectWithinCap'
  BY WithinStep
<1> QED
  BY <1>1, <1>2, <1>3, <1>4, <1>5, <1>6, <1>7, Inductive, PTL DEF Spec
=============================================================================
