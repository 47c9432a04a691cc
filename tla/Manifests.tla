----------------------------- MODULE Manifests ------------------------------
(***************************************************************************)
(* File manifests, path -> sha256, and the operations the sync code does   *)
(* on them: the diffs of apps/cloud/src/api/sync/shared.ts, the upsert of a *)
(* commit and the sum of the stored sizes.                                 *)
(***************************************************************************)
EXTENDS Integers, FiniteSetsExt

CONSTANTS
  Path,       \* canonical .tekmemo/ paths
  Sha,        \* content digests; the bucket key of a blob is its digest
  Nil,        \* "no entry"
  SizeOf      \* size in bytes of the content with a given digest

ASSUME NilAssumption  == Nil \notin Sha
ASSUME SizeAssumption == SizeOf \in [Sha -> Nat]

(***************************************************************************)
(* A partial map from paths to digests: a manifest, an upload list, a diff.*)
(***************************************************************************)
Manifest == [Path -> Sha \union {Nil}]
EmptyManifest == [q \in Path |-> Nil]
PathsOf(m) == {q \in Path : m[q] # Nil}
ShasOf(m)  == {m[q] : q \in PathsOf(m)}

\* The manifest m after the entries of up are inserted or replaced in it.
Overlay(m, up) == [q \in Path |-> IF up[q] # Nil THEN up[q] ELSE m[q]]

\* What a push must upload: the client's entries the cloud lacks or has in
\* another version.
DiffPushTargets(client, cloud) ==
  [q \in Path |-> IF client[q] # cloud[q] THEN client[q] ELSE Nil]

\* What a pull must download.
DiffPullTargets(cloud, client) ==
  [q \in Path |-> IF cloud[q] # client[q] THEN cloud[q] ELSE Nil]

\* The client's paths the cloud does not list: a pull deletes them locally.
DiffRemoved(client, cloud) == PathsOf(client) \ PathsOf(cloud)

\* The sum of size_bytes over the entries of a manifest.
StorageOf(m) == MapThenSumSet(LAMBDA q : SizeOf[m[q]], PathsOf(m))
=============================================================================
