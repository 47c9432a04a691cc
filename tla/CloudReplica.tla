---------------------------- MODULE CloudReplica ----------------------------
(***************************************************************************)
(* What the cloud promises its clients (ADR 0010, the header of            *)
(* apps/cloud/src/api/sync/index.ts): per project, one manifest that only  *)
(* changes by whole commits, each numbered one above the last, or by the   *)
(* project's deletion; every manifest entry names a blob the bucket holds; *)
(* the stored total is the total of the manifest.  No requests, locks or   *)
(* transactions appear here: SyncServer implements this specification.     *)
(***************************************************************************)
EXTENDS Manifests

CONSTANT Project    \* project ids

VARIABLES
  version,    \* version[p]: the cursor, the number of commits so far
  manifest,   \* manifest[p]: path -> digest, Nil where the cloud has no file
  storage,    \* storage[p]: bytes accounted to the project
  blobs       \* digests of the objects in the bucket

vars == <<version, manifest, storage, blobs>>

Init ==
  /\ version  = [p \in Project |-> 0]
  /\ manifest = [p \in Project |-> EmptyManifest]
  /\ storage  = [p \in Project |-> 0]
  /\ blobs    = {}

StoreBlob(s) ==
  /\ blobs' = blobs \union {s}
  /\ UNCHANGED <<version, manifest, storage>>

Commit(p, up) ==
  /\ ShasOf(up) \subseteq blobs
  /\ version'  = [version EXCEPT ![p] = @ + 1]
  /\ manifest' = [manifest EXCEPT ![p] = Overlay(@, up)]
  /\ storage'  = [storage EXCEPT ![p] = StorageOf(Overlay(manifest[p], up))]
  /\ UNCHANGED blobs

\* The owner deletes the project: it starts again from nothing.  Blobs stay.
Delete(p) ==
  /\ version'  = [version EXCEPT ![p] = 0]
  /\ manifest' = [manifest EXCEPT ![p] = EmptyManifest]
  /\ storage'  = [storage EXCEPT ![p] = 0]
  /\ UNCHANGED blobs

Next ==
  \/ \E s \in Sha : StoreBlob(s)
  \/ \E p \in Project, up \in Manifest : Commit(p, up)
  \/ \E p \in Project : Delete(p)

Spec == Init /\ [][Next]_vars
=============================================================================
