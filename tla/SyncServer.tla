----------------------------- MODULE SyncServer -----------------------------
(***************************************************************************)
(* The cloud sync API: POST push, push/complete, pull and GET status of    *)
(* apps/cloud/src/api/sync/index.ts over the tables projects,              *)
(* project_files and sync_cursors and the R2 bucket.                       *)
(*                                                                         *)
(* A handler runs one request.  Handlers interleave at every await that    *)
(* reads or writes the database; a commit runs inside the libSQL write     *)
(* transaction of concurrency.ts, whose statements see the committed       *)
(* tables and whose writes stay private until COMMIT.                      *)
(*                                                                         *)
(* A client holds the answer of its last push (what it may upload and      *)
(* complete, and with which cursor).  Answers can be lost, after which the *)
(* client may send the same request again, also while the first one still  *)
(* runs.  Auth, JSON parsing and presigning touch none of this state.      *)
(*                                                                         *)
(* The owner of a project may delete it from the dashboard at any time     *)
(* (deleteProject of apps/cloud/src/server/queries/projects.ts): its rows  *)
(* cascade away, and a later push of the same id starts a new life.        *)
(***************************************************************************)
EXTENDS Manifests, Sequences

CONSTANTS
  Project,         \* project ids
  Account,         \* accounts
  Client,          \* devices and agents
  AccountOf,       \* the account a client's API key belongs to
  Cap,             \* accounts.max_hosted_storage_bytes
  Handler,         \* request slots: how many requests run at once
  ClientManifest,  \* the manifests clients send
  Requests,        \* the kinds of request a run considers
  MayOmitCursor,   \* TRUE: a client may send push/complete without a cursor
  MaxCommits,      \* bound: no push/complete is sent after this many commits
  MaxDeletes       \* bound: deletions of each project

ASSUME ClientAssumption ==
  /\ AccountOf \in [Client -> Account]
  /\ Cap \in [Account -> Nat]
  /\ ClientManifest \subseteq Manifest
  /\ MayOmitCursor \in BOOLEAN
  /\ MaxCommits \in Nat /\ MaxDeletes \in Nat
ASSUME NilIsNoMember == Nil \notin Account \union Handler \union Client

VARIABLES
  owner,      \* projects.account_id, Nil while the row does not exist
  total,      \* projects.total_storage_bytes
  files,      \* project_files: the cloud manifest of each project
  cursors,    \* sync_cursors.seq, in insertion order
  blobs,      \* keys of the objects in the bucket
  writeLock,  \* the handler inside BEGIN IMMEDIATE, Nil if none
  pc,         \* next step of each handler
  arg,        \* its request
  read,       \* what it has read outside the transaction
  tx,         \* the private writes of its transaction
  reply,      \* its response
  held,       \* what each client kept from its last push
  log,        \* history: the commits of each project, oldest first
  life        \* history: how often each project was deleted

db   == <<owner, total, files, cursors>>
vars == <<owner, total, files, cursors, blobs, writeLock,
          pc, arg, read, tx, reply, held, log, life>>
history == <<log, life>>

NoCursor == -1
NoArg    == [client |-> Nil, project |-> Nil, man |-> EmptyManifest,
             sent |-> EmptyManifest, cursor |-> NoCursor, life |-> 0]
NoRead   == [man |-> EmptyManifest, cursor |-> NoCursor, total |-> 0]
NoTx     == [seq |-> 0, up |-> EmptyManifest, total |-> 0]
NoReply  == [status |-> "", man |-> EmptyManifest, cursor |-> NoCursor, life |-> 0]
NoPush   == [project |-> Nil, man |-> EmptyManifest,
             up |-> EmptyManifest, cursor |-> NoCursor, life |-> 0]

AccountOfRequest(h) == AccountOf[arg[h].client]

-----------------------------------------------------------------------------
(***************************************************************************)
(* Reads shared by the handlers.                                           *)
(***************************************************************************)
SeqsOf(p) == {cursors[p][i] : i \in DOMAIN cursors[p]}

\* max(seq), 0 without rows: currentCursor and currentCursorTx.
CurrentCursor(p) == IF SeqsOf(p) = {} THEN 0 ELSE Max(SeqsOf(p))

\* Variant: max(seq) + 1 without coalesce, NULL on a project without commits.
NextSeqNull(p) == IF SeqsOf(p) = {} THEN NoCursor ELSE CurrentCursor(p) + 1

\* Variant: the new row repeats the current cursor.
NextSeqRepeated(p) == CurrentCursor(p)

\* bumpCursorTx: coalesce(max(seq), 0) + 1.
NextSeq(p) == CurrentCursor(p) + 1

Exists(p) == owner[p] # Nil

\* Variant: no ownership check.
OwnsUnchecked(h) == TRUE

Owns(h) == owner[arg[h].project] = AccountOfRequest(h)

\* projectedStorageBytes
ProjectedStorageBytes(cloud, up) == StorageOf(Overlay(cloud, up))

\* verifyUploaded of every entry.  Blobs are never removed, so verifying them
\* one after the other decides what verifying them at once decides.
Verified(up) == ShasOf(up) \subseteq blobs

\* Variant: the gate weighs what is stored, not what would be.
WithinCapBefore(h) == StorageOf(files[arg[h].project]) <= Cap[AccountOfRequest(h)]

\* The entitlement gate of push/complete, on the manifest it loads.
WithinCap(h) ==
  ProjectedStorageBytes(files[arg[h].project], arg[h].man) <= Cap[AccountOfRequest(h)]

\* Variant: any cursor the project has reached passes.
CursorIsKnown(h) == arg[h].cursor <= CurrentCursor(arg[h].project)

\* The optimistic gate: no cursor, or the one that is current.
CursorIsFresh(h) ==
  \/ arg[h].cursor = NoCursor
  \/ arg[h].cursor = CurrentCursor(arg[h].project)

\* Variant: BEGIN in deferred mode waits for nobody.
LockIgnored(h) == TRUE

\* BEGIN IMMEDIATE succeeds only while no other write transaction is open.
LockIsFree(h) == writeLock = Nil

-----------------------------------------------------------------------------
Init ==
  /\ owner   = [p \in Project |-> Nil]
  /\ total   = [p \in Project |-> 0]
  /\ files   = [p \in Project |-> EmptyManifest]
  /\ cursors = [p \in Project |-> << >>]
  /\ blobs = {}
  /\ writeLock = Nil
  /\ pc    = [h \in Handler |-> "idle"]
  /\ arg   = [h \in Handler |-> NoArg]
  /\ read  = [h \in Handler |-> NoRead]
  /\ tx    = [h \in Handler |-> NoTx]
  /\ reply = [h \in Handler |-> NoReply]
  /\ held  = [c \in Client |-> NoPush]
  /\ log   = [p \in Project |-> << >>]
  /\ life  = [p \in Project |-> 0]

Goto(h, step) == pc' = [pc EXCEPT ![h] = step]

Respond(h, status, man, cursor) ==
  /\ Goto(h, "replied")
  /\ reply' = [reply EXCEPT ![h] = [status |-> status, man |-> man, cursor |-> cursor,
                                    life |-> life[arg[h].project]]]

Fail(h, status) == Respond(h, status, EmptyManifest, NoCursor)

Receive(h, kind, request) ==
  /\ kind \in Requests
  /\ pc[h] = "idle"
  /\ Goto(h, kind)
  /\ arg' = [arg EXCEPT ![h] = request]
  /\ UNCHANGED <<db, blobs, writeLock, read, tx, reply, held, history>>

-----------------------------------------------------------------------------
(***************************************************************************)
(* Clients.                                                                *)
(***************************************************************************)
SendPush(h, c, p, m) ==
  Receive(h, "push", [NoArg EXCEPT !.client = c, !.project = p, !.man = m])

\* Between push and complete the client PUTs the blobs it was asked for.
UploadBlob(c, s) ==
  /\ s \in ShasOf(held[c].up)
  /\ blobs' = blobs \union {s}
  /\ UNCHANGED <<db, writeLock, pc, arg, read, tx, reply, held, history>>

SendComplete(h, c, cursor) ==
  /\ held[c] # NoPush
  /\ Len(log[held[c].project]) < MaxCommits
  /\ cursor \in {held[c].cursor} \union (IF MayOmitCursor THEN {NoCursor} ELSE {})
  /\ Receive(h, "complete", [client |-> c, project |-> held[c].project,
                             man |-> held[c].up, sent |-> held[c].man,
                             cursor |-> cursor, life |-> held[c].life])

SendPull(h, c, p, m) ==
  Receive(h, "pull", [NoArg EXCEPT !.client = c, !.project = p, !.man = m])

SendStatus(h, c, p) ==
  Receive(h, "status", [NoArg EXCEPT !.client = c, !.project = p])

Release(h) ==
  /\ Goto(h, "idle")
  /\ arg'   = [arg   EXCEPT ![h] = NoArg]
  /\ read'  = [read  EXCEPT ![h] = NoRead]
  /\ tx'    = [tx    EXCEPT ![h] = NoTx]
  /\ reply' = [reply EXCEPT ![h] = NoReply]

\* The answer arrives: a push answer is kept, a complete answer ends the push.
Deliver(h) ==
  /\ pc[h] = "replied"
  /\ held' = [held EXCEPT ![arg[h].client] =
       CASE reply[h].status = "pushed" ->
              [project |-> arg[h].project, man |-> arg[h].man,
               up |-> reply[h].man, cursor |-> reply[h].cursor,
               life |-> reply[h].life]
         [] reply[h].status = "completed" -> NoPush
         [] OTHER -> @]
  /\ Release(h)
  /\ UNCHANGED <<db, blobs, writeLock, history>>

\* The answer is lost, or the client timed out: it still holds its push.
LoseReply(h) ==
  /\ pc[h] = "replied"
  /\ Release(h)
  /\ UNCHANGED <<db, blobs, writeLock, held, history>>

-----------------------------------------------------------------------------
(***************************************************************************)
(* POST /push                                                              *)
(***************************************************************************)
\* ensureProject, first half, and assertOwns of an existing row.
PushLoadProject(h) ==
  /\ pc[h] = "push"
  /\ \/ /\ ~Exists(arg[h].project)
        /\ Goto(h, "insert")
        /\ UNCHANGED reply
     \/ /\ Exists(arg[h].project)
        /\ Owns(h)
        /\ Goto(h, "pushDiff")
        /\ UNCHANGED reply
     \/ /\ Exists(arg[h].project)
        /\ ~Owns(h)
        /\ Fail(h, "forbidden")
  /\ UNCHANGED <<db, blobs, writeLock, arg, read, tx, held, history>>

\* ensureProject, second half: INSERT, which the primary key refuses when
\* another first push of the same id came between.
PushInsertProject(h) ==
  /\ pc[h] = "insert"
  /\ \/ /\ ~Exists(arg[h].project)
        /\ owner' = [owner EXCEPT ![arg[h].project] = AccountOfRequest(h)]
        /\ Goto(h, "pushDiff")
        /\ UNCHANGED reply
     \/ /\ Exists(arg[h].project)
        /\ Fail(h, "error")
        /\ UNCHANGED owner
  /\ UNCHANGED <<total, files, cursors, blobs, writeLock, arg, read, tx, held, history>>

PushReadManifest(h) ==
  /\ pc[h] = "pushDiff"
  /\ read' = [read EXCEPT ![h].man = files[arg[h].project]]
  /\ Goto(h, "pushCursor")
  /\ UNCHANGED <<db, blobs, writeLock, arg, tx, reply, held, history>>

\* The cursor is read by a second query, after the manifest.
PushReadCursor(h) ==
  /\ pc[h] = "pushCursor"
  /\ Respond(h, "pushed", DiffPushTargets(arg[h].man, read[h].man),
             CurrentCursor(arg[h].project))
  /\ UNCHANGED <<db, blobs, writeLock, arg, read, tx, held, history>>

-----------------------------------------------------------------------------
(***************************************************************************)
(* POST /push/complete                                                     *)
(***************************************************************************)
CompleteLoadProject(h) ==
  /\ pc[h] = "complete"
  /\ \/ /\ ~Exists(arg[h].project)
        /\ Fail(h, "conflict")
     \/ /\ Exists(arg[h].project)
        /\ ~Owns(h)
        /\ Fail(h, "forbidden")
     \/ /\ Exists(arg[h].project)
        /\ Owns(h)
        /\ Goto(h, "verify")
        /\ UNCHANGED reply
  /\ UNCHANGED <<db, blobs, writeLock, arg, read, tx, held, history>>

CompleteVerify(h) ==
  /\ pc[h] = "verify"
  /\ \/ /\ Verified(arg[h].man)
        /\ Goto(h, "entitle")
        /\ UNCHANGED reply
     \/ /\ ~Verified(arg[h].man)
        /\ Fail(h, "conflict")
  /\ UNCHANGED <<db, blobs, writeLock, arg, read, tx, held, history>>

\* Outside the lock: other commits may land before this one.
CompleteCheckCap(h) ==
  /\ pc[h] = "entitle"
  /\ \/ /\ WithinCap(h)
        /\ Goto(h, "lock")
        /\ UNCHANGED reply
     \/ /\ ~WithinCap(h)
        /\ Fail(h, "paymentRequired")
  /\ UNCHANGED <<db, blobs, writeLock, arg, read, tx, held, history>>

TxBegin(h) ==
  /\ pc[h] = "lock"
  /\ LockIsFree(h)
  /\ writeLock' = h
  /\ Goto(h, "gateCursor")
  /\ UNCHANGED <<db, blobs, arg, read, tx, reply, held, history>>

\* Variant: the wait for the lock never times out.
LockWaitsForever(h) == FALSE

\* The wait for the write lock timed out.  A driver that begins with the first
\* statement fails inside the try of acquireWriteLock, which answers 503
\* concurrency_locked; one that begins at once fails before it: 500.
LockTimeout(h) ==
  /\ pc[h] = "lock"
  /\ ~LockIsFree(h)
  /\ \E status \in {"locked", "error"} : Fail(h, status)
  /\ UNCHANGED <<db, blobs, writeLock, arg, read, tx, held, history>>

\* ROLLBACK: the private writes are dropped and the lock is given back.
Rollback(h, status) ==
  /\ writeLock' = Nil
  /\ tx' = [tx EXCEPT ![h] = NoTx]
  /\ Fail(h, status)
  /\ UNCHANGED <<db, blobs, arg, read, held, history>>

TxGate(h) ==
  /\ pc[h] = "gateCursor"
  /\ \/ /\ CursorIsFresh(h)
        /\ Goto(h, "bump")
        /\ UNCHANGED <<db, blobs, writeLock, arg, read, tx, reply, held, history>>
     \/ /\ ~CursorIsFresh(h)
        /\ Rollback(h, "conflict")

\* The row of sync_cursors references its project: without it, see TxFail.
TxBumpCursor(h) ==
  /\ pc[h] = "bump"
  /\ Exists(arg[h].project)
  /\ tx' = [tx EXCEPT ![h].seq = NextSeq(arg[h].project)]
  /\ Goto(h, "upsert")
  /\ UNCHANGED <<db, blobs, writeLock, arg, read, reply, held, history>>

\* Variant: the upserts run outside the transaction.
UpsertCommitted(h) ==
  /\ pc[h] = "upsert"
  /\ \E q \in PathsOf(arg[h].man) \ PathsOf(tx[h].up) :
       /\ tx' = [tx EXCEPT ![h].up[q] = arg[h].man[q]]
       /\ files' = [files EXCEPT ![arg[h].project][q] = arg[h].man[q]]
  /\ UNCHANGED <<owner, total, cursors, blobs, writeLock, pc, arg, read, reply, held, history>>

\* One INSERT ... ON CONFLICT DO UPDATE per uploaded entry.
TxUpsert(h) ==
  /\ pc[h] = "upsert"
  /\ \E q \in PathsOf(arg[h].man) \ PathsOf(tx[h].up) :
       tx' = [tx EXCEPT ![h].up[q] = arg[h].man[q]]
  /\ UNCHANGED <<db, blobs, writeLock, pc, arg, read, reply, held, history>>

\* SELECT sum(size_bytes), inside the transaction, then UPDATE projects.
TxUpdateTotal(h) ==
  /\ pc[h] = "upsert"
  /\ tx[h].up = arg[h].man
  /\ tx' = [tx EXCEPT ![h].total =
              StorageOf(Overlay(files[arg[h].project], tx[h].up))]
  /\ Goto(h, "commit")
  /\ UNCHANGED <<db, blobs, writeLock, arg, read, reply, held, history>>

\* COMMIT publishes the private writes.  The transaction can be committed and
\* its acknowledgement lost; the handler then answers with an error.
TxCommit(h) ==
  LET p == arg[h].project
      m == Overlay(files[p], tx[h].up)
  IN /\ pc[h] = "commit"
     /\ cursors' = [cursors EXCEPT ![p] = Append(@, tx[h].seq)]
     /\ files'   = [files EXCEPT ![p] = m]
     /\ total'   = [total EXCEPT ![p] = tx[h].total]
     /\ writeLock' = Nil
     /\ \/ Respond(h, "completed", m, tx[h].seq)
        \/ Fail(h, "error")
     /\ log' = [log EXCEPT ![p] = Append(@,
                  [client |-> arg[h].client, sent |-> arg[h].sent,
                   up |-> arg[h].man, base |-> arg[h].cursor,
                   life |-> arg[h].life, after |-> m])]
     /\ tx' = [tx EXCEPT ![h] = NoTx]
     /\ UNCHANGED <<owner, blobs, arg, read, held, life>>

InTransaction(h) == pc[h] \in {"gateCursor", "bump", "upsert", "commit"}

\* Any statement of the transaction fails, or the worker is stopped in it.
TxFail(h) ==
  /\ InTransaction(h)
  /\ Rollback(h, "error")

-----------------------------------------------------------------------------
(***************************************************************************)
(* POST /pull and GET /status                                              *)
(***************************************************************************)
PullLoadProject(h) ==
  /\ pc[h] = "pull"
  /\ \/ /\ ~Exists(arg[h].project)
        /\ Respond(h, "pulled", EmptyManifest, 0)
     \/ /\ Exists(arg[h].project)
        /\ ~Owns(h)
        /\ Fail(h, "forbidden")
     \/ /\ Exists(arg[h].project)
        /\ Owns(h)
        /\ Goto(h, "pullDiff")
        /\ UNCHANGED reply
  /\ UNCHANGED <<db, blobs, writeLock, arg, read, tx, held, history>>

PullReadManifest(h) ==
  /\ pc[h] = "pullDiff"
  /\ read' = [read EXCEPT ![h].man = files[arg[h].project]]
  /\ Goto(h, "pullCursor")
  /\ UNCHANGED <<db, blobs, writeLock, arg, tx, reply, held, history>>

\* The answer carries the manifest; files[] and removed[] are its diffs
\* (DiffPullTargets, DiffRemoved) against the client's.
PullReadCursor(h) ==
  /\ pc[h] = "pullCursor"
  /\ Respond(h, "pulled", read[h].man, CurrentCursor(arg[h].project))
  /\ UNCHANGED <<db, blobs, writeLock, arg, read, tx, held, history>>

StatusLoadProject(h) ==
  /\ pc[h] = "status"
  /\ \/ /\ ~Exists(arg[h].project)
        /\ Respond(h, "status", EmptyManifest, 0)
        /\ UNCHANGED read
     \/ /\ Exists(arg[h].project)
        /\ ~Owns(h)
        /\ Fail(h, "forbidden")
        /\ UNCHANGED read
     \/ /\ Exists(arg[h].project)
        /\ Owns(h)
        /\ read' = [read EXCEPT ![h].total = total[arg[h].project]]
        /\ Goto(h, "statusRead")
        /\ UNCHANGED reply
  /\ UNCHANGED <<db, blobs, writeLock, arg, tx, held, history>>

\* Promise.all starts the queries together: the manifest is read before or
\* after the cursor.
StatusReadManifest(h) ==
  /\ pc[h] \in {"statusRead", "statusManifest"}
  /\ read' = [read EXCEPT ![h].man = files[arg[h].project]]
  /\ \/ /\ pc[h] = "statusRead"
        /\ Goto(h, "statusCursor")
        /\ UNCHANGED reply
     \/ /\ pc[h] = "statusManifest"
        /\ Respond(h, "status", files[arg[h].project], read[h].cursor)
  /\ UNCHANGED <<db, blobs, writeLock, arg, tx, held, history>>

StatusReadCursor(h) ==
  /\ pc[h] \in {"statusRead", "statusCursor"}
  /\ read' = [read EXCEPT ![h].cursor = CurrentCursor(arg[h].project)]
  /\ \/ /\ pc[h] = "statusRead"
        /\ Goto(h, "statusManifest")
        /\ UNCHANGED reply
     \/ /\ pc[h] = "statusCursor"
        /\ Respond(h, "status", read[h].man, CurrentCursor(arg[h].project))
  /\ UNCHANGED <<db, blobs, writeLock, arg, tx, held, history>>

-----------------------------------------------------------------------------
(***************************************************************************)
(* deleteProject, from the dashboard: one DELETE, for which SQLite takes   *)
(* the write lock too; project_files and sync_cursors cascade.             *)
(***************************************************************************)
DeleteProject(c, p) ==
  /\ "delete" \in Requests
  /\ owner[p] = AccountOf[c]
  /\ life[p] < MaxDeletes
  /\ writeLock = Nil
  /\ owner'   = [owner   EXCEPT ![p] = Nil]
  /\ total'   = [total   EXCEPT ![p] = 0]
  /\ files'   = [files   EXCEPT ![p] = EmptyManifest]
  /\ cursors' = [cursors EXCEPT ![p] = << >>]
  /\ log'     = [log     EXCEPT ![p] = << >>]
  /\ life'    = [life    EXCEPT ![p] = @ + 1]
  /\ UNCHANGED <<blobs, writeLock, pc, arg, read, tx, reply, held>>

-----------------------------------------------------------------------------
PushStep(h) ==
  \/ PushLoadProject(h)  \/ PushInsertProject(h)
  \/ PushReadManifest(h) \/ PushReadCursor(h)

CompleteStep(h) ==
  \/ CompleteLoadProject(h)  \/ CompleteVerify(h)
  \/ CompleteCheckCap(h)
  \/ TxBegin(h) \/ LockTimeout(h) \/ TxGate(h) \/ TxBumpCursor(h)
  \/ TxUpsert(h) \/ TxUpdateTotal(h) \/ TxCommit(h) \/ TxFail(h)

ReadStep(h) ==
  \/ PullLoadProject(h)   \/ PullReadManifest(h)   \/ PullReadCursor(h)
  \/ StatusLoadProject(h) \/ StatusReadManifest(h) \/ StatusReadCursor(h)

HandlerStep(h) == PushStep(h) \/ CompleteStep(h) \/ ReadStep(h)

ClientStep(h) ==
  \/ \E c \in Client :
       \/ \E p \in Project, m \in ClientManifest : SendPush(h, c, p, m)
       \/ \E p \in Project, m \in ClientManifest : SendPull(h, c, p, m)
       \/ \E p \in Project : SendStatus(h, c, p)
       \/ \E cursor \in {held[c].cursor, NoCursor} : SendComplete(h, c, cursor)
  \/ Deliver(h)
  \/ LoseReply(h)

Next ==
  \/ \E h \in Handler : HandlerStep(h) \/ ClientStep(h)
  \/ \E c \in Client, s \in Sha : UploadBlob(c, s)
  \/ \E c \in Client, p \in Project : DeleteProject(c, p)

Spec == Init /\ [][Next]_vars

\* The Worker runtime runs a handler to its answer; nothing obliges clients.
FairSpec == Spec /\ \A h \in Handler : WF_vars(HandlerStep(h))

-----------------------------------------------------------------------------
Steps == {"idle", "push", "insert", "pushDiff", "pushCursor",
          "complete", "verify", "entitle", "lock",
          "gateCursor", "bump", "upsert", "commit",
          "pull", "pullDiff", "pullCursor",
          "status", "statusRead", "statusManifest", "statusCursor", "replied"}
Statuses == {"", "pushed", "completed", "pulled", "status", "forbidden",
             "conflict", "paymentRequired", "locked", "error"}
\* The values a total can take.
Bytes   == {0} \union {StorageOf(m) : m \in Manifest}
Cursor  == Nat \union {NoCursor}
Request == [client : Client \union {Nil}, project : Project \union {Nil},
            man : Manifest, sent : Manifest, cursor : Cursor, life : Nat]
Reply   == [status : Statuses, man : Manifest, cursor : Cursor, life : Nat]
Push    == [project : Project \union {Nil}, man : Manifest,
            up : Manifest, cursor : Cursor, life : Nat]
Entry   == [client : Client, sent : Manifest, up : Manifest,
            base : Cursor, life : Nat, after : Manifest]

\* Every variable has its type.  The totals have that of StorageOf.
TypeOK ==
  /\ owner   \in [Project -> Account \union {Nil}]
  /\ files   \in [Project -> Manifest]
  /\ cursors \in [Project -> Seq(Nat)]
  /\ blobs \subseteq Sha
  /\ writeLock \in Handler \union {Nil}
  /\ pc    \in [Handler -> Steps]
  /\ arg   \in [Handler -> Request]
  /\ reply \in [Handler -> Reply]
  /\ held  \in [Client -> Push]
  /\ log   \in [Project -> Seq(Entry)]
  /\ life  \in [Project -> Nat]
  /\ total \in [Project -> Bytes]
  /\ read  \in [Handler -> [man : Manifest, cursor : Cursor, total : Bytes]]
  /\ tx    \in [Handler -> [seq : Nat, up : Manifest, total : Bytes]]

-----------------------------------------------------------------------------
(***************************************************************************)
(* Properties.                                                             *)
(***************************************************************************)
\* The manifest of project p after its first i commits.
StateAt(p, i) == IF i = 0 THEN EmptyManifest ELSE log[p][i].after

\* Steps at which a handler holds a manifest it read.
HasReadManifest(h) == pc[h] \in {"pushCursor", "pullCursor", "statusCursor"}

\* A request never sees half of a commit: what push, pull and status
\* read, and what pull and status answer, is the manifest some prefix of the
\* commits left (loadCloudManifest against the write transaction).
NoTornManifest ==
  \A h \in Handler :
    /\ HasReadManifest(h) =>
         \E i \in 0 .. Len(log[arg[h].project]) :
            read[h].man = StateAt(arg[h].project, i)
    /\ reply[h].status \in {"pulled", "status"} =>
         \E i \in 0 .. Len(log[arg[h].project]) :
            reply[h].man = StateAt(arg[h].project, i)

\* The optimistic gate: a push/complete that carried a cursor was committed
\* directly on top of the commit that cursor names, so it is also committed at
\* most once, however often it is sent.
GatedCommitExtendsBase ==
  \A p \in Project : \A i \in DOMAIN log[p] :
    log[p][i].base # NoCursor => log[p][i].base = i - 1

\* An answered push/complete names its own commit: the cursor it returns is
\* the position of that commit and no other, and the manifest is the one that
\* commit left (bumpCursorTx and loadCloudManifestTx inside the lock).
NamesItsCommit(h) ==
  LET p == arg[h].project
      n == reply[h].cursor
  IN /\ n \in DOMAIN log[p]
     /\ log[p][n].client = arg[h].client
     /\ log[p][n].after = reply[h].man
CompletedIsOwnCommit ==
  \A h \in Handler : reply[h].status = "completed" => NamesItsCommit(h)

\* Every commit to a project came from the account that owns it, also when two
\* accounts race on the first push (ensureProject, assertOwns).  Where projects
\* are deleted, it fails: see the documentation's statements below.
OnlyOwnerCommits ==
  \A p \in Project : \A i \in DOMAIN log[p] :
    AccountOf[log[p][i].client] = owner[p]

\* A project never changes hands: only its owner's deletion frees the id
\* (ensureProject inserts, never replaces).
OwnerIsForever ==
  [][\A p \in Project : owner[p] # Nil => owner'[p] \in {owner[p], Nil}]_vars

\* No project holds more bytes than its owner's cap (the entitlement gate is
\* read before the lock is taken and must still be right inside it).
ProjectWithinCap ==
  \A p \in Project : owner[p] # Nil => StorageOf(files[p]) <= Cap[owner[p]]

\* Every request is answered, whoever holds the write lock.
EveryRequestAnswered ==
  \A h \in Handler : (pc[h] \notin {"idle", "replied"}) ~> (pc[h] = "replied")

\* The server implements CloudReplica: commits are atomic, numbered without
\* gap or repetition, name stored blobs only and account their bytes exactly.
Replica == INSTANCE CloudReplica WITH
  version  <- [p \in Project |-> CurrentCursor(p)],
  manifest <- files,
  storage  <- total
ImplementsReplica == Replica!Spec

(***************************************************************************)
(* Statements of the documentation that the code does not keep.            *)
(***************************************************************************)
\* "a contended commit is either retried cleanly (503) or resolved with a
\* fresh diff (409), never silently dropped": a gated commit carries the diff
\* against the very manifest it replaces.
CommitHasFreshDiff ==
  \A p \in Project : \A i \in DOMAIN log[p] :
    log[p][i].base # NoCursor =>
      log[p][i].up = DiffPushTargets(log[p][i].sent, StateAt(p, i - 1))

\* "If the client supplied a baseCursor that is now stale (another agent
\* committed since push), we reject with 409": the cursor of a gated commit was
\* issued by the project it is committed to, not by a deleted one of that id.
GateKnowsDeletion ==
  \A p \in Project : \A i \in DOMAIN log[p] :
    log[p][i].base # NoCursor => log[p][i].life = life[p]
=============================================================================
