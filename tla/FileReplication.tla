--------------------------- MODULE FileReplication ---------------------------
(***************************************************************************)
(* The client half of sync: createFileSyncLayer of                         *)
(* packages/tekmemo/src/tekmemo/sync/file-replication.ts, the pushFull and *)
(* pull that the hybrid runtime hands to the session hooks, each preceded  *)
(* by a pre-sync snapshot (createSnapshotImpl of local-strategy.ts) and,   *)
(* after a pull, followed by the re-creation of missing files              *)
(* (bootstrapMemoryStore).                                                 *)
(*                                                                         *)
(* Every client keeps one local store.  Its tools go on editing documents  *)
(* while a sync runs; every await of a sync can fail, or the process stop  *)
(* there, and the store keeps what was written.  The cloud is the          *)
(* CloudReplica that SyncServer implements: a commit is one step, the two  *)
(* queries of a push are two.                                              *)
(***************************************************************************)
EXTENDS Manifests

CONSTANTS
  Client,      \* the devices and agents of one project
  ProjectId,
  Doc,         \* the canonical files other than the snapshots index
  SnapshotDoc, \* those a snapshot holds: core, notes and events
  Index,       \* .tekmemo/snapshots/index.jsonl: its content is the set of
               \* the snapshots it records
  Snapshot,    \* snapshot files, each with a content of its own; their
               \* number bounds the syncs of a run
  Template,    \* what bootstrap writes into a missing document
  Version,     \* what tools write into documents
  MaxEdits     \* bound: edits of all clients together

ASSUME PathAssumption ==
  /\ Path = Doc \union {Index} \union Snapshot
  /\ Index \notin Doc \union Snapshot
  /\ Doc \intersect Snapshot = {}
  /\ SnapshotDoc \subseteq Doc
ASSUME ContentAssumption ==
  {Template} \union Version \union Snapshot \union SUBSET Snapshot \subseteq Sha
ASSUME BoundAssumption == MaxEdits \in Nat

VARIABLES
  version, manifest, storage, blobs,   \* the cloud, see CloudReplica
  exists,    \* the project has a row in the cloud
  local,     \* local[c]: path -> content of client c's store
  run,       \* run[c]: its sync in progress
  used,      \* snapshots ever taken: their ids carry a timestamp
  edits      \* number of edits so far, for the bound

cloud   == <<version, manifest, storage, blobs, exists>>
vars    == <<version, manifest, storage, blobs, exists, local, run, used, edits>>

Cloud == INSTANCE CloudReplica WITH Project <- {ProjectId}

Canonical == Doc \union {Index}
Docs(m) == [d \in SnapshotDoc |-> m[d]]
TemplateOf(q) == IF q = Index THEN {} ELSE Template
Bootstrapped == [q \in Path |-> IF q \in Canonical THEN TemplateOf(q) ELSE Nil]

\* A sync: its next step; the manifest it computed; the cloud's manifest as
\* the server read it, and the number of commits then; the cursor of a push;
\* the files still to hash, upload or download; what a push uploads; what a
\* pull has to delete; its snapshot.  As history: what that snapshot holds, and
\* whether a tool wrote to the store since the sync began.
Idle == [step |-> "idle", op |-> "none", man |-> EmptyManifest,
         answer |-> EmptyManifest, base |-> 0, cursor |-> 0,
         todo |-> EmptyManifest, up |-> EmptyManifest, removed |-> {}, snap |-> Nil,
         saved |-> Docs(Bootstrapped), dirty |-> FALSE]

Init ==
  /\ Cloud!Init
  /\ exists = FALSE
  /\ local  = [c \in Client |-> Bootstrapped]
  /\ run    = [c \in Client |-> Idle]
  /\ used   = {}
  /\ edits  = 0

Write(c, q, content) == local' = [local EXCEPT ![c][q] = content]

-----------------------------------------------------------------------------
\* A tool of the same process writes a document, also during a sync.
Edit(c, d, v) ==
  /\ edits < MaxEdits
  /\ Write(c, d, v)
  /\ edits' = edits + 1
  /\ run' = [run EXCEPT ![c].dirty = run[c].step # "idle"]
  /\ UNCHANGED <<cloud, used>>

\* Variant: no pre-sync snapshot.
StartUnsaved(c, op) ==
  /\ run[c].step = "idle"
  /\ run' = [run EXCEPT ![c] = [Idle EXCEPT !.step = "list", !.op = op]]
  /\ UNCHANGED <<cloud, local, used, edits>>

Start(c, op) ==
  /\ run[c].step = "idle"
  /\ run' = [run EXCEPT ![c] = [Idle EXCEPT !.step = "snapshot", !.op = op]]
  /\ UNCHANGED <<cloud, local, used, edits>>

\* createSnapshotImpl: the documents go into a new snapshot file ...
WriteSnapshot(c, s) ==
  /\ run[c].step = "snapshot"
  /\ s \notin used
  /\ used' = used \union {s}
  /\ Write(c, s, s)
  /\ run' = [run EXCEPT ![c].snap = s, ![c].saved = Docs(local[c]), ![c].step = "record"]
  /\ UNCHANGED <<cloud, edits>>

Recorded(c) == IF local[c][Index] = Nil THEN {} ELSE local[c][Index]

\* ... and its record is appended to the index.
RecordSnapshot(c) ==
  /\ run[c].step = "record"
  /\ Write(c, Index, Recorded(c) \union {run[c].snap})
  /\ run' = [run EXCEPT ![c].step = "list"]
  /\ UNCHANGED <<cloud, used, edits>>

\* listPresentPaths: the canonical files and the recorded snapshots that exist.
PresentPaths(c) == PathsOf(local[c]) \intersect (Canonical \union Recorded(c))

ListPaths(c) ==
  /\ run[c].step = "list"
  /\ run' = [run EXCEPT ![c].todo =
               [q \in Path |-> IF q \in PresentPaths(c) THEN local[c][q] ELSE Nil],
               ![c].step = "hash"]
  /\ UNCHANGED <<cloud, local, used, edits>>

\* computeLocalManifest reads one file after the other, the canonical ones first.
HashFile(c, q) ==
  /\ run[c].step = "hash"
  /\ run[c].todo[q] # Nil
  /\ q \in Snapshot => PathsOf(run[c].todo) \subseteq Snapshot
  /\ run' = [run EXCEPT ![c].man[q] = local[c][q], ![c].todo[q] = Nil]
  /\ UNCHANGED <<cloud, local, used, edits>>

Hashed(c, op) ==
  run[c].step = "hash" /\ run[c].op = op /\ PathsOf(run[c].todo) = {}

-----------------------------------------------------------------------------
(***************************************************************************)
(* pushFull                                                                *)
(***************************************************************************)
\* The server creates the project if need be, and reads its manifest.
PushSendManifest(c) ==
  /\ Hashed(c, "push")
  /\ exists' = TRUE
  /\ run' = [run EXCEPT ![c].answer = manifest[ProjectId],
                        ![c].base = version[ProjectId], ![c].step = "cursor"]
  /\ UNCHANGED <<version, manifest, storage, blobs, local, used, edits>>

\* It reads the cursor and answers with what to upload.
PushReceiveTargets(c) ==
  LET targets == DiffPushTargets(run[c].man, run[c].answer)
  IN /\ run[c].step = "cursor"
     /\ run' = [run EXCEPT ![c].cursor = version[ProjectId], ![c].up = targets,
                           ![c].todo = targets, ![c].step = "upload"]
     /\ UNCHANGED <<cloud, local, used, edits>>

\* upload reads the file again; if it changed since it was hashed, the sync
\* fails (see Stop).
UploadFile(c, q) ==
  /\ run[c].step = "upload"
  /\ run[c].todo[q] # Nil
  /\ local[c][q] = run[c].todo[q]
  /\ Cloud!StoreBlob(local[c][q])
  /\ run' = [run EXCEPT ![c].todo[q] = Nil]
  /\ UNCHANGED <<exists, local, used, edits>>

\* Variant: the server commits whatever the cursor.
CursorAlwaysFresh(c) == TRUE

CursorIsFresh(c) == run[c].cursor = version[ProjectId]

\* complete: the server commits if the cursor is current.  Otherwise, or if the
\* answer is lost, the sync fails (see Stop).
PushComplete(c) ==
  /\ run[c].step = "upload"
  /\ PathsOf(run[c].todo) = {}
  /\ CursorIsFresh(c)
  /\ Cloud!Commit(ProjectId, run[c].up)
  /\ \/ run' = [run EXCEPT ![c].answer = manifest'[ProjectId], ![c].step = "done"]
     \/ run' = [run EXCEPT ![c] = Idle]
  /\ UNCHANGED <<exists, local, used, edits>>

-----------------------------------------------------------------------------
(***************************************************************************)
(* pull                                                                    *)
(***************************************************************************)
\* A project without a row is answered with nothing to fetch or delete.
PullSendManifest(c) ==
  /\ Hashed(c, "pull")
  /\ \/ /\ exists
        /\ run' = [run EXCEPT
             ![c].answer = manifest[ProjectId], ![c].base = version[ProjectId],
             ![c].todo = DiffPullTargets(manifest[ProjectId], run[c].man),
             ![c].removed = DiffRemoved(run[c].man, manifest[ProjectId]),
             ![c].step = "download"]
     \/ /\ ~exists
        /\ run' = [run EXCEPT ![c].answer = EmptyManifest, ![c].step = "download"]
  /\ UNCHANGED <<cloud, local, used, edits>>

DownloadFile(c, q) ==
  /\ run[c].step = "download"
  /\ run[c].todo[q] # Nil
  /\ run[c].todo[q] \in blobs
  /\ Write(c, q, run[c].todo[q])
  /\ run' = [run EXCEPT ![c].todo[q] = Nil]
  /\ UNCHANGED <<cloud, used, edits>>

\* Variant: deletions run although downloads are missing.
DownloadedAny(c) == run[c].step = "download"

Downloaded(c) == run[c].step = "download" /\ PathsOf(run[c].todo) = {}

RemoveFile(c, q) ==
  /\ Downloaded(c)
  /\ q \in run[c].removed
  /\ Write(c, q, Nil)
  /\ run' = [run EXCEPT ![c].removed = @ \ {q}]
  /\ UNCHANGED <<cloud, used, edits>>

\* bootstrapMemoryStore re-creates missing canonical files; should it fail on
\* the way, the pull succeeds nevertheless.
Reindex(c, created) ==
  /\ Downloaded(c)
  /\ run[c].removed = {}
  /\ created \subseteq Canonical \ PathsOf(local[c])
  /\ local' = [local EXCEPT ![c] =
                 [q \in Path |-> IF q \in created THEN TemplateOf(q) ELSE @[q]]]
  /\ run' = [run EXCEPT ![c].step = "done"]
  /\ UNCHANGED <<cloud, used, edits>>

-----------------------------------------------------------------------------
\* The sync returns, or fails at any await, or the process stops.
Stop(c) ==
  /\ run[c].step # "idle"
  /\ run' = [run EXCEPT ![c] = Idle]
  /\ UNCHANGED <<cloud, local, used, edits>>

Next ==
  \E c \in Client :
    \/ \E d \in Doc, v \in Version : Edit(c, d, v)
    \/ \E o \in {"push", "pull"} : Start(c, o)
    \/ \E s \in Snapshot : WriteSnapshot(c, s)
    \/ RecordSnapshot(c)
    \/ ListPaths(c)
    \/ \E q \in Path : HashFile(c, q) \/ UploadFile(c, q) \/ DownloadFile(c, q) \/ RemoveFile(c, q)
    \/ PushSendManifest(c) \/ PushReceiveTargets(c) \/ PushComplete(c)
    \/ PullSendManifest(c)
    \/ \E created \in SUBSET Canonical : Reindex(c, created)
    \/ Stop(c)

Spec == Init /\ [][Next]_vars

-----------------------------------------------------------------------------
Run == [step : {"idle", "snapshot", "record", "list", "hash", "cursor", "upload",
                "download", "done"},
        op : {"none", "push", "pull"}, man : Manifest, answer : Manifest,
        base : Nat, cursor : Nat, todo : Manifest, up : Manifest,
        removed : SUBSET Path, snap : Snapshot \union {Nil},
        saved : [SnapshotDoc -> Sha \union {Nil}], dirty : BOOLEAN]

\* Every variable has its type; the index of a store holds a set of snapshots.
TypeOK ==
  /\ version  \in [{ProjectId} -> Nat]
  /\ manifest \in [{ProjectId} -> Manifest]
  /\ blobs \subseteq Sha
  /\ exists \in BOOLEAN
  /\ local \in [Client -> Manifest]
  /\ run   \in [Client -> Run]
  /\ used \subseteq Snapshot
  /\ edits \in 0 .. MaxEdits
  /\ \A c \in Client : local[c][Index] # Nil => local[c][Index] \subseteq Snapshot

-----------------------------------------------------------------------------
(***************************************************************************)
(* Properties.                                                             *)
(***************************************************************************)
\* What a finished pull leaves: every file the cloud listed, in that version,
\* and of the files it did not list only those the client did not report
\* (snapshots its index had lost) and re-created canonical files.
Mirrors(c) ==
  \A q \in Path :
    \/ local[c][q] = run[c].answer[q]
    \/ run[c].answer[q] = Nil /\ run[c].man[q] = Nil
    \/ run[c].answer[q] = Nil /\ q \in Canonical /\ local[c][q] = TemplateOf(q)

\* A pull of a project with commits, during which no tool wrote, makes the
\* store a replica of one manifest of the cloud, whatever an earlier sync that
\* was cut off left behind and whatever is committed meanwhile.
PullMirrors ==
  \A c \in Client :
    (run[c].step = "done" /\ run[c].op = "pull" /\ run[c].base > 0 /\ ~run[c].dirty)
      => Mirrors(c)

\* A push that returns has published everything it hashed, unless a commit fell
\* between the server's two reads: nobody else's commit comes between the
\* manifest it was diffed against and its own (the cursor of the push).
PushPublishes ==
  \A c \in Client :
    (run[c].step = "done" /\ run[c].op = "push" /\ run[c].base = run[c].cursor)
      => \A q \in PathsOf(run[c].man) : run[c].answer[q] = run[c].man[q]

\* A sync, not a tool, replaces or deletes document d of client c.
Overwrites(c, d) ==
  local'[c][d] # local[c][d] /\ local[c][d] # Nil /\ edits' = edits

\* The snapshot precedes the damage: when a sync changes or deletes a document
\* that snapshots hold, its pre-sync snapshot holds the replaced version, unless
\* a tool wrote since the sync began (createPreSyncSnapshot in pull).
OverwritesAreSaved ==
  [][\A c \in Client, d \in SnapshotDoc :
       (Overwrites(c, d) /\ ~run[c].dirty) => run[c].saved[d] = local[c][d]]_vars

(***************************************************************************)
(* Statements of the documentation that the code does not keep.            *)
(***************************************************************************)
\* "if snapshot creation is configured and throws, the sync aborts so the user
\* keeps a rollback point": after a pull its pre-sync snapshot is there.
RollbackPointKept ==
  \A c \in Client :
    (run[c].step = "done" /\ run[c].op = "pull" /\ run[c].base > 0)
      => local[c][run[c].snap] # Nil

\* "Paths the client holds that the cloud has deleted": a pull of a project
\* nothing was ever committed to deletes nothing.
UncommittedPullKeepsFiles ==
  \A c \in Client :
    (run[c].step = "download" /\ run[c].base = 0) => run[c].removed = {}
=============================================================================
