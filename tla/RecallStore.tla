----------------------------- MODULE RecallStore -----------------------------
(***************************************************************************)
(* The recall store of a local project: an index of embedded chunks in     *)
(* memory (InMemoryRecallStore, last write wins) that FsRecallStore        *)
(* mirrors to indexes/embeddings.jsonl.  Every write is a full rewrite of  *)
(* the file from a snapshot; the file is read back only when the process   *)
(* first queries or counts.  A document stands for the chunks of one       *)
(* memory: their ids are made from its text, so a document is put again,   *)
(* never changed.  The snapshot is taken before the store asks for the     *)
(* locks, so that rewrites may land in any order: PathLock serves the      *)
(* writes of a path in the order in which they come to it, and no await    *)
(* before it says that this is the order of the snapshots.                 *)
(***************************************************************************)
EXTENDS Naturals, Sequences, FiniteSets, SequencesExt

CONSTANT Docs          \* what can be indexed

VARIABLES inner,       \* documents in memory
          hydration,   \* "none", "flagged" (the flag is set), "loaded"
          embeddings,  \* documents in embeddings.jsonl
          writes,      \* rewrites under way, the oldest snapshot first
          stored,      \* history: what this process was told is stored
          atBoot,      \* history: what the file held when it started
          early,       \* history: it rewrote the file before it had read it
          behind       \* history: an older snapshot landed over a newer one

recallVars ==
  <<inner, hydration, embeddings, writes, stored, atBoot, early, behind>>

\* A rewrite carries the snapshot it was given and the document that caused it.
\* History: a newer snapshot has landed since.
Rewrite == [doc: Docs, docs: SUBSET Docs, late: BOOLEAN]

RecallTypeOK ==
  /\ inner \in SUBSET Docs
  /\ hydration \in {"none", "flagged", "loaded"}
  /\ embeddings \in SUBSET Docs
  /\ writes \in Seq(Rewrite)
  /\ stored \in SUBSET Docs
  /\ atBoot \in SUBSET Docs
  /\ early \in BOOLEAN
  /\ behind \in BOOLEAN

RecallInit ==
  /\ inner = {}
  /\ hydration = "none"
  /\ embeddings = {}
  /\ writes = <<>>
  /\ stored = {}
  /\ atBoot = {}
  /\ early = FALSE
  /\ behind = FALSE

\* The process ends, with whatever was in memory or on its way to the file.
RecallBoot ==
  /\ inner' = {}
  /\ hydration' = "none"
  /\ writes' = <<>>
  /\ stored' = {}
  /\ atBoot' = embeddings
  /\ early' = FALSE
  /\ behind' = FALSE
  /\ UNCHANGED embeddings

\* persist is given the whole index.
Snapshot(d) ==
  writes' = Append(writes, [doc |-> d, docs |-> inner, late |-> FALSE])

\* upsert, first half: the index takes the document.
Index(d) ==
  /\ inner' = inner \cup {d}
  /\ UNCHANGED <<hydration, embeddings, writes, stored, atBoot, early, behind>>

\* upsert, second half: persist takes its snapshot and asks for the rewrite.
Persist(d) ==
  /\ Snapshot(d)
  /\ early' = (early \/ hydration # "loaded")
  /\ UNCHANGED <<inner, hydration, embeddings, stored, atBoot, behind>>

\* What a landing makes of the rewrites under way: the older ones are late.
Overtaken(i) ==
  [j \in DOMAIN writes |-> [writes[j] EXCEPT !.late = @ \/ j < i]]

\* A rewrite is done, whichever comes through the locks first.
Land(i) ==
  /\ embeddings' = writes[i].docs
  /\ stored' = stored \cup {writes[i].doc}
  /\ behind' = writes[i].late
  /\ writes' = RemoveAt(Overtaken(i), i)
  /\ UNCHANGED <<inner, hydration, atBoot, early>>

\* A rewrite fails: the file stays as it was.
LandFails(i) ==
  /\ writes' = RemoveAt(writes, i)
  /\ UNCHANGED <<inner, hydration, embeddings, stored, atBoot, early, behind>>

\* query and count hydrate first: the flag is set before the file is read, so
\* that the calls that follow do not wait for it.
Flag ==
  /\ hydration = "none"
  /\ hydration' = "flagged"
  /\ UNCHANGED <<inner, embeddings, writes, stored, atBoot, early, behind>>

\* Variant: what is in memory already is taken for the newer state.
LoadUnlessUsed ==
  /\ hydration = "flagged"
  /\ hydration' = "loaded"
  /\ inner' = IF inner = {} THEN embeddings ELSE inner
  /\ UNCHANGED <<embeddings, writes, stored, atBoot, early, behind>>

\* The file has been read, its documents are put into the index.
Load ==
  /\ hydration = "flagged"
  /\ hydration' = "loaded"
  /\ inner' = inner \cup embeddings
  /\ UNCHANGED <<embeddings, writes, stored, atBoot, early, behind>>

\* What the class comment promises, "embeddings survive process restarts", as
\* far as the code keeps it.  Whatever this process was told is stored is in the
\* file, through overlapping rewrites, queries and failures of others, unless
\* the last rewrite to land was one that a newer had overtaken; and what the
\* process found there stays there, in whatever order the rewrites land, if it
\* read the file before it first rewrote it.
EmbeddingsKept ==
  /\ ~behind => stored \subseteq embeddings
  /\ ~early => atBoot \subseteq embeddings

\* What an awaited upsert says without the first condition: its document is in
\* the file.  Two overlapping upserts that reach the lock in the other order
\* break it.
StoredStays == stored \subseteq embeddings

\* What the class comment says without the second condition: what the file held
\* when the process started is still there.
EmbeddingsSurvive == atBoot \subseteq embeddings
==============================================================================
