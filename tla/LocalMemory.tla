----------------------------- MODULE LocalMemory -----------------------------
(***************************************************************************)
(* One process with the local strategy: writeMemory, updateCoreMemory and  *)
(* recall, called by several callers at a time over one set of files.  A   *)
(* write is a chain of awaits: notes.md is read and then written whole,    *)
(* the event is appended to the ledger, and a durable memory goes into the *)
(* recall store and into the lexical index, which lives in memory only.    *)
(* Any await may fail, and the process may end between any two.            *)
(*                                                                         *)
(* A memory is its id.  Graph extraction ends a write without changing     *)
(* anything here: what it does to the graph is in GraphStore.              *)
(***************************************************************************)
EXTENDS RecallStore

CONSTANTS
  Callers,
  Notes,        \* ids of memories to write
  Cores,        \* versions of core memory
  None,         \* no core memory yet
  Inputs,       \* what writeMemory is given: records [id, tier, unsure, brief, kind]
  Records,      \* the inputs that come from the outside system of a connector
  Asks,         \* the notes and core versions that each caller may write
  MaxFails,     \* failing calls considered
  MaxCrashes    \* process ends considered

ASSUME InputsAssumption ==
  /\ Docs = Notes \cup Cores
  /\ Notes \cap Cores = {}
  /\ None \notin Docs
  /\ \A m \in Inputs : m.id \in Notes
  /\ \A m, n \in Inputs : m.id = n.id => m = n
  /\ Records \subseteq Inputs
  /\ Asks \in [Callers -> SUBSET Docs]
  /\ MaxFails \in Nat /\ MaxCrashes \in Nat

VARIABLES
  notes,     \* notes.md: ids in their order
  ledger,    \* memory-events.jsonl
  core,      \* core.md
  lexical,   \* ids in the BM25 index
  call,      \* what each caller is doing
  given,     \* direct inputs that were used
  fails, crashes,
  acked,     \* history: durable notes acknowledged by this process
  noted,     \* history: notes ever written
  torn       \* history: a note was written over a text that was not current

fileVars == <<notes, ledger, core>>
history == <<acked, noted, torn>>
memoryVars == <<notes, ledger, core, lexical, call, given, fails, crashes,
                acked, noted, torn, recallVars>>

Idle == [pc |-> "idle", id |-> None, durable |-> FALSE, seen |-> <<>>]

Steps == {"idle", "read", "write", "log", "embed", "persist", "landing",
          "index", "ok", "failed", "query", "hydrating"}

Calls == [pc: Steps, id: Docs \cup {None}, durable: BOOLEAN, seen: Seq(Notes)]

MemoryTypeOK ==
  /\ RecallTypeOK
  /\ notes \in Seq(Notes)
  /\ ledger \in Seq(Docs)
  /\ core \in Cores \cup {None}
  /\ lexical \in SUBSET Docs
  /\ call \in [Callers -> Calls]
  /\ given \in SUBSET Docs
  /\ fails \in 0 .. MaxFails
  /\ crashes \in 0 .. MaxCrashes
  /\ acked \in SUBSET Notes
  /\ noted \in SUBSET Notes
  /\ torn \in BOOLEAN

MemoryInit ==
  /\ RecallInit
  /\ notes = <<>>
  /\ ledger = <<>>
  /\ core = None
  /\ lexical = {}
  /\ call = [c \in Callers |-> Idle]
  /\ given = {}
  /\ fails = 0
  /\ crashes = 0
  /\ acked = {}
  /\ noted = {}
  /\ torn = FALSE

At(c, pc) == call[c].pc = pc

Go(c, pc) == call' = [call EXCEPT ![c].pc = pc]

\* The call ends with an error.
Fail(c) ==
  /\ fails < MaxFails
  /\ fails' = fails + 1
  /\ Go(c, "failed")

\* How long a memory steers retrieval: the first rule that applies decides.
DurableKinds == {"decision", "constraint", "goal", "preference", "reference"}

ClassifyDurability(m) ==
  IF m.tier # "none" THEN m.tier = "durable"
  ELSE ~m.unsure /\ ~m.brief /\ (m.kind = "none" \/ m.kind \in DurableKinds)

------------------------------------------------------------------------------
\* writeMemory, past the write gate.
Begin(c, m) ==
  /\ At(c, "idle")
  /\ call' = [call EXCEPT ![c] =
       [pc |-> "read", id |-> m.id, durable |-> ClassifyDurability(m),
        seen |-> <<>>]]
  /\ UNCHANGED <<fileVars, lexical, fails, crashes, history, recallVars>>

\* A direct call: the id of its memory comes from the clock, so it is new.
WriteMemory(c, m) ==
  /\ m.id \notin given
  /\ given' = given \cup {m.id}
  /\ Begin(c, m)

\* The event follows, and core memory is always indexed.
CoreWritten(c, v) == call' = [call EXCEPT ![c] =
  [pc |-> "log", id |-> v, durable |-> TRUE, seen |-> <<>>]]

\* updateCoreMemory, past the write gate: the whole document is written.
UpdateCore(c, v) ==
  /\ At(c, "idle")
  /\ v \notin given
  /\ core' = v
  /\ CoreWritten(c, v)
  /\ given' = given \cup {v}
  /\ UNCHANGED <<notes, ledger, lexical, fails, crashes, history, recallVars>>

\* appendTimestampedNote reads the notes as they are now ...
ReadNotes(c) ==
  /\ At(c, "read")
  /\ call' = [call EXCEPT ![c].pc = "write", ![c].seen = notes]
  /\ UNCHANGED <<fileVars, lexical, given, fails, crashes, history, recallVars>>

\* ... takes any error of the read for a file that is not there ...
ReadNotesFails(c) ==
  /\ At(c, "read")
  /\ fails < MaxFails
  /\ fails' = fails + 1
  /\ call' = [call EXCEPT ![c].pc = "write", ![c].seen = <<>>]
  /\ UNCHANGED <<fileVars, lexical, given, crashes, history, recallVars>>

\* Variant: the note replaces what was read.
NoteAlone(c) == notes' = <<call[c].id>>

Noted(c) == notes' = Append(call[c].seen, call[c].id)

\* ... and writes what it read with the note behind it.
WriteNotes(c) ==
  /\ At(c, "write")
  /\ Noted(c)
  /\ noted' = noted \cup {call[c].id}
  /\ torn' = (torn \/ call[c].seen # notes)
  /\ call' = [call EXCEPT ![c].pc = "log", ![c].seen = <<>>]
  /\ UNCHANGED <<ledger, core, lexical, given, fails, crashes, acked, recallVars>>

\* What follows the event: a transient memory is done.
Logged(c) == Go(c, IF call[c].durable THEN "embed" ELSE "ok")

\* appendMemoryEvent
LogEvent(c) ==
  /\ At(c, "log")
  /\ ledger' = Append(ledger, call[c].id)
  /\ Logged(c)
  /\ UNCHANGED <<notes, core, lexical, given, fails, crashes, history, recallVars>>

\* Writing the notes or the event fails: so does the call.
FileFails(c) ==
  /\ call[c].pc \in {"write", "log"}
  /\ Fail(c)
  /\ UNCHANGED <<fileVars, lexical, given, crashes, history, recallVars>>

------------------------------------------------------------------------------
\* indexDocument: the embeddings have come, the recall store takes them ...
Embed(c) ==
  /\ At(c, "embed")
  /\ Index(call[c].id)
  /\ Go(c, "persist")
  /\ UNCHANGED <<fileVars, lexical, given, fails, crashes, history>>

\* ... and mirrors its index to the file.
PersistIndex(c) ==
  /\ At(c, "persist")
  /\ Persist(call[c].id)
  /\ Go(c, "landing")
  /\ UNCHANGED <<fileVars, lexical, given, fails, crashes, history>>

\* The rewrite under way that the caller awaits: no other has its document.
Waits(c, i) == At(c, "landing") /\ writes[i].doc = call[c].id

Lands(c) == \E i \in DOMAIN writes : Waits(c, i) /\ Land(i)

LandIndex(c) ==
  /\ Lands(c)
  /\ Go(c, "index")
  /\ UNCHANGED <<fileVars, lexical, given, fails, crashes, history>>

\* Variant: a write that could not be embedded ends there.
EmbedFailsForGood(c) == Go(c, "ok")

\* No embedder, or a failing one, must not break the write.
SwallowsError(c) == Go(c, "index")

EmbedFails(c) ==
  /\ \/ At(c, "embed") /\ UNCHANGED recallVars
     \/ \E i \in DOMAIN writes : Waits(c, i) /\ LandFails(i)
  /\ fails < MaxFails
  /\ fails' = fails + 1
  /\ SwallowsError(c)
  /\ UNCHANGED <<fileVars, lexical, given, crashes, history>>

\* indexLexical: the core document has one entry, a note one of its own.
IndexLexical(c) ==
  /\ At(c, "index")
  /\ lexical' = {call[c].id} \cup
       IF call[c].id \in Cores THEN lexical \ Cores ELSE lexical
  /\ Go(c, "ok")
  /\ UNCHANGED <<fileVars, given, fails, crashes, history, recallVars>>

\* The caller has its answer.
Return(c) ==
  /\ call[c].pc \in {"ok", "failed"}
  /\ call' = [call EXCEPT ![c] = Idle]
  /\ acked' = IF At(c, "ok") /\ call[c].durable /\ call[c].id \in Notes
                THEN acked \cup {call[c].id} ELSE acked
  /\ UNCHANGED <<fileVars, lexical, given, fails, crashes, noted, torn, recallVars>>

------------------------------------------------------------------------------
\* recall: the lexical part changes nothing; the vector part hydrates.
Recall(c) ==
  /\ At(c, "idle")
  /\ Flag
  /\ Go(c, "hydrating")
  /\ UNCHANGED <<fileVars, lexical, given, fails, crashes, history>>

Hydrate(c) ==
  /\ At(c, "hydrating")
  /\ Load
  /\ call' = [call EXCEPT ![c] = Idle]
  /\ UNCHANGED <<fileVars, lexical, given, fails, crashes, history>>

\* The file cannot be read: recall goes on without it, and the flag stays.
HydrateFails(c) ==
  /\ At(c, "hydrating")
  /\ fails < MaxFails
  /\ fails' = fails + 1
  /\ call' = [call EXCEPT ![c] = Idle]
  /\ UNCHANGED <<fileVars, lexical, given, crashes, history, recallVars>>

\* What the lexical part of recall can find: the index, and the files it reads.
Recallable == lexical \cup ToSet(notes) \cup ({core} \ {None})

\* The process ends and is started again.
Restart ==
  /\ crashes < MaxCrashes
  /\ crashes' = crashes + 1
  /\ call' = [c \in Callers |-> Idle]
  /\ lexical' = {}
  /\ acked' = {}
  /\ RecallBoot
  /\ UNCHANGED <<fileVars, given, fails, noted, torn>>

MemoryStep(c) ==
  \/ ReadNotes(c) \/ ReadNotesFails(c) \/ WriteNotes(c)
  \/ LogEvent(c) \/ FileFails(c)
  \/ Embed(c) \/ PersistIndex(c) \/ LandIndex(c) \/ EmbedFails(c)
  \/ IndexLexical(c)
  \/ Hydrate(c) \/ HydrateFails(c)

\* What callers other than connector runs ask for.
Direct(c) ==
  \/ \E m \in Inputs \ Records : m.id \in Asks[c] /\ WriteMemory(c, m)
  \/ \E v \in Cores \cap Asks[c] : UpdateCore(c, v)
  \/ Recall(c)
  \/ Return(c)

------------------------------------------------------------------------------
\* A note gets lost only when a write went over a text it had not read: unless
\* two writes overlapped or a read failed, the file keeps every note.
NotesKeptInTurn == torn \/ noted \subseteq ToSet(notes)

\* security/durability-tier.ts: "The file keeps everything that passes the
\* blocklist".  Every note whose event is in the ledger is in notes.md.
NotesKeepEveryWrite == \A id \in ToSet(ledger) \cap Notes : id \in ToSet(notes)

\* An acknowledged durable memory is found by the process that wrote it, with
\* and without an embedder, also when its note was lost.
RecallFinds == acked \subseteq Recallable
==============================================================================
