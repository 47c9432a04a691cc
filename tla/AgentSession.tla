---------------------------- MODULE AgentSession ----------------------------
(***************************************************************************)
(* Agent sessions over AgentFS (packages/tekmemo/src/agentfs):             *)
(* createTekMemoAgentSession of session/agent-session.ts, its notes in an  *)
(* AgentfsMemoryStore (store/agentfs-memory-store.ts), the sync hooks of   *)
(* sync/, and callers that complete a session under a memory lease.        *)
(*                                                                         *)
(* A session is a Worker of MemoryLease.  Sessions of one process or of    *)
(* several interleave at every await; every await can fail, or never       *)
(* return.  The agent writes its durable-memory file whenever it likes.    *)
(* Of the canonical documents only notes.md matters here, as the sequence  *)
(* of the notes that sessions appended; of the workspace, the file whose   *)
(* content is extracted.  pull and push replace a document as a whole      *)
(* (FileReplication has their detail), if the client of the process syncs: *)
(* one without sync operations, or the local one, whose operations do      *)
(* nothing, prepares and completes sessions without them.                  *)
(***************************************************************************)
EXTENDS MemoryLease, Sequences, SequencesExt

CONSTANTS
  Store,       \* AgentfsMemoryStores, one of each process
  Native,      \* those that append with the client's appendText
  Syncing,     \* those whose client pulls and pushes
  Text,        \* what an agent can write as durable memory
  Secret,      \* those texts in which the write gate finds secret material
  Preparing,   \* bound: the sessions that prepare and whose agent still works;
               \* the others have done so and left a text that may pass
  MaxAttempts  \* bound: calls of complete per session

ASSUME TextAssumption == Secret \subseteq Text /\ {"scaffold", Nil} \intersect Text = {}
ASSUME SyncingAssumption == Syncing \subseteq Store
ASSUME PreparingAssumption == Preparing \subseteq Worker
ASSUME AttemptAssumption == MaxAttempts \in Nat

VARIABLES
  notes,       \* notes.md: the notes of sessions, in order
  remote,      \* its copy behind sync
  work,        \* work[s]: the durable-memory file: Nil, "scaffold" or a text
  session      \* session[s]: its call in progress

files   == <<notes, remote, work>>
vars    == <<leaseVars, files, session>>

\* A session: its step; the store it appends to; the owner id under which
\* its caller waits for the lease; the text it extracted; what its store or its
\* push read of notes.md; whether the append succeeded; calls of complete.
\* As history: whether the call has had its lease extended, and whether, since
\* its append began, its note was exposed to another writer of notes.md.
New == [step |-> "new", store |-> Nil, owner |-> Nil, text |-> Nil, seen |-> << >>,
        wrote |-> FALSE, attempts |-> 0, extended |-> FALSE, exposed |-> FALSE]

Init ==
  /\ LeaseInit
  /\ notes = << >> /\ remote = << >>
  /\ work \in [Worker -> {Nil} \union (Text \ Secret)]
  /\ \A s \in Worker : work[s] = Nil <=> s \in Preparing
  /\ session = [s \in Worker |-> New]

At(s, step)   == session[s].step = step
Goto(s, step) == session' = [session EXCEPT ![s].step = step]

\* An append of s under way, or done in this call, becomes exposed if b.
Exposed(r, b) == [r EXCEPT !.exposed = @ \/ (b /\ (r.wrote \/ r.step = "write"))]
NoteOf(s)     == <<s, session[s].text>>

-----------------------------------------------------------------------------
\* The agent writes its durable memory.
AgentWrite(s, t) ==
  /\ s \in Preparing
  /\ work' = [work EXCEPT ![s] = t]
  /\ UNCHANGED <<leaseVars, notes, remote, session>>

\* prepare, also of a session that exists: pull, if the client does, then the
\* context files.
Prepares(s) == s \in Preparing /\ session[s].step \in {"new", "ready"}

PullSkipped(s) ==
  /\ Prepares(s) /\ Store # Syncing
  /\ Goto(s, "look")
  /\ UNCHANGED <<leaseVars, files>>

Pull(s) ==
  /\ Prepares(s) /\ Syncing # {}
  /\ notes' = remote
  /\ session' = [v \in Worker |-> IF v = s THEN [session[s] EXCEPT !.step = "look"]
                                 ELSE Exposed(session[v], TRUE)]
  /\ UNCHANGED <<leaseVars, remote, work>>

\* writeWorkspaceScaffold: does the file exist? ...
Look(s) ==
  /\ At(s, "look")
  /\ Goto(s, IF work[s] = Nil THEN "scaffold" ELSE "ready")
  /\ UNCHANGED <<leaseVars, files>>

\* ... if not, it is written.
Scaffold(s) ==
  /\ At(s, "scaffold")
  /\ work' = [work EXCEPT ![s] = "scaffold"]
  /\ Goto(s, "ready")
  /\ UNCHANGED <<leaseVars, notes, remote>>

-----------------------------------------------------------------------------
\* complete, by any process, under the lease or not.
Complete(s) ==
  /\ session[s].step \in {"new", "ready"} /\ session[s].attempts < MaxAttempts
  /\ \E store \in Store, owner \in {Nil} \union Owner :
       session' = [session EXCEPT ![s] =
         [New EXCEPT !.step = IF owner = Nil THEN "extract" ELSE "wait",
                     !.store = store, !.owner = owner,
                     !.attempts = session[s].attempts + 1]]
  /\ UNCHANGED <<leaseVars, files>>

\* The caller tries until it is granted the lease.
TakeLease(s) ==
  /\ At(s, "wait") /\ Acquire(s, session[s].owner)
  /\ session' = [session EXCEPT ![s].step = "extract", ![s].owner = Nil]
  /\ UNCHANGED files

\* The operation asks for more time, once a call.
ExtendLease(s) ==
  /\ ~session[s].extended /\ Extend(s)
  /\ session' = [session EXCEPT ![s].extended = TRUE]
  /\ UNCHANGED files

\* extractSessionMemory: an untouched scaffold counts as nothing, and so does
\* everything if extractDurableMemory was not asked for.
Extract(s) ==
  /\ At(s, "extract")
  /\ \E text \in {Nil, IF work[s] = "scaffold" THEN Nil ELSE work[s]} :
       session' = [session EXCEPT ![s].text = text, ![s].step = "append"]
  /\ UNCHANGED <<leaseVars, files>>

\* assertWriteAllowed.
Allowed(s) == session[s].text # Nil /\ session[s].text \notin Secret

\* Nothing to write, or the gate refuses: the call goes on.
Skip(s) ==
  /\ At(s, "append") /\ ~Allowed(s)
  /\ Goto(s, "push")
  /\ UNCHANGED <<leaseVars, files>>

-----------------------------------------------------------------------------
\* AgentfsMemoryStore.append.

\* Variant: no append lock.
Unlocked(s) == s \notin Worker

\* The append lock of a store: no other append of it is between its steps.
Locked(s) == \E v \in Worker : session[v].store = session[s].store /\ At(v, "write")

\* An append of s meets one of another store that has read and not written.
Meets(s, v) ==
  /\ At(v, "write") /\ session[v].store # session[s].store
  /\ ~(Covered(s) /\ Covered(v))

\* s has appended.  Another store that is between its read and its write will
\* take the note away, which a lease prevents if it covers both; and if s
\* itself read too early, its write takes notes of others away.
Appended(s) ==
  session' = [v \in Worker |->
    IF v = s THEN [session[s] EXCEPT !.step = "push", !.wrote = TRUE, !.seen = << >>,
                     !.exposed = @ \/ \E u \in Worker \ {s} : Meets(s, u)]
    ELSE Exposed(session[v], Meets(s, v) \/ session[s].exposed)]

AppendNatively(s) ==
  /\ At(s, "append") /\ Allowed(s) /\ session[s].store \in Native /\ ~Locked(s)
  /\ notes' = Append(notes, NoteOf(s))
  /\ Appended(s)
  /\ UNCHANGED <<leaseVars, remote, work>>

\* Variant: a read that fails counts as a file that is not there.
ReadNotesOrNothing(s) ==
  /\ At(s, "append") /\ Allowed(s) /\ session[s].store \notin Native /\ ~Locked(s)
  /\ \E text \in {notes, << >>} :
       session' = [session EXCEPT ![s].step = "write", ![s].seen = text]
  /\ UNCHANGED <<leaseVars, files>>

\* Without appendText: read, ...
ReadNotes(s) ==
  /\ At(s, "append") /\ Allowed(s) /\ session[s].store \notin Native /\ ~Locked(s)
  /\ session' = [session EXCEPT ![s].step = "write", ![s].seen = notes]
  /\ UNCHANGED <<leaseVars, files>>

\* ... and write everything back.
WriteNotes(s) ==
  /\ At(s, "write")
  /\ notes' = Append(session[s].seen, NoteOf(s))
  /\ Appended(s)
  /\ UNCHANGED <<leaseVars, remote, work>>

\* complete catches every error of the append and goes on.
AppendFails(s) ==
  /\ (At(s, "append") /\ Allowed(s)) \/ At(s, "write")
  /\ session' = [session EXCEPT ![s].step = "push", ![s].seen = << >>]
  /\ UNCHANGED <<leaseVars, files>>

-----------------------------------------------------------------------------
\* syncAfterSession, after a checkpoint: a client that does not sync reports a
\* push that was skipped, or one that did nothing, ...
Syncs(s) == session[s].store \in Syncing

PushSkipped(s) ==
  /\ At(s, "push") /\ ~Syncs(s)
  /\ Goto(s, "done")
  /\ UNCHANGED <<leaseVars, files>>

\* ... any other reads the store ...
PushRead(s) ==
  /\ At(s, "push") /\ Syncs(s)
  /\ session' = [session EXCEPT ![s].step = "publish", ![s].seen = notes]
  /\ UNCHANGED <<leaseVars, files>>

\* ... and publishes what it read.
Publish(s) ==
  /\ At(s, "publish")
  /\ remote' = session[s].seen
  /\ session' = [session EXCEPT ![s].step = "done", ![s].seen = << >>]
  /\ UNCHANGED <<leaseVars, notes, work>>

\* A read of the workspace, the checkpoint or the push fails, or sync is required
\* and the client has none: the call throws.
Fails(s) ==
  /\ session[s].step \in {"extract", "push", "publish"}
  /\ session' = [session EXCEPT ![s].step = "failed", ![s].seen = << >>]
  /\ UNCHANGED <<leaseVars, files>>

\* complete returns or throws; the lease, if any, is released first.
Settle(s) ==
  /\ session[s].step \in {"done", "failed"}
  /\ IF Runs(s) THEN Release(s) ELSE UNCHANGED leaseVars
  /\ session' = [session EXCEPT ![s] =
       [New EXCEPT !.step = "ready", !.attempts = session[s].attempts]]
  /\ UNCHANGED files

Time == (Tick \/ Inspect) /\ UNCHANGED <<files, session>>

Next ==
  \/ Time
  \/ \E s \in Worker :
       \/ \E t \in Text : AgentWrite(s, t)
       \/ PullSkipped(s) \/ Pull(s) \/ Look(s) \/ Scaffold(s)
       \/ Complete(s) \/ TakeLease(s) \/ ExtendLease(s) \/ Extract(s) \/ Skip(s)
       \/ AppendNatively(s) \/ ReadNotes(s) \/ WriteNotes(s) \/ AppendFails(s)
       \/ PushSkipped(s) \/ PushRead(s) \/ Publish(s) \/ Fails(s) \/ Settle(s)

\* Time passes, and callers go on asking for the lease.
Fairness ==
  /\ WF_vars(Tick /\ UNCHANGED <<files, session>>)
  /\ \A s \in Worker : WF_vars(TakeLease(s))

Spec == Init /\ [][Next]_vars /\ Fairness

-----------------------------------------------------------------------------
Note == Worker \X Text

Call == [step : {"new", "look", "scaffold", "ready", "wait", "extract", "append",
                 "write", "push", "publish", "done", "failed"},
         store : {Nil} \union Store, owner : {Nil} \union Owner,
         text : {Nil} \union Text, seen : Seq(Note), wrote : BOOLEAN, attempts : Nat,
         extended : BOOLEAN, exposed : BOOLEAN]

TypeOK ==
  /\ LeaseTypeOK
  /\ notes \in Seq(Note) /\ remote \in Seq(Note)
  /\ work \in [Worker -> {Nil, "scaffold"} \union Text]
  /\ session \in [Worker -> Call]

\* No append takes a note away: appends of one store take turns, and those of
\* two stores do so under the lease.  Only a pull does, or the write of an
\* append that another writer met without a lease that covered both
\* (AgentfsMemoryStore.append, withMemoryLease).
NotesKept ==
  [][\A n \in ToSet(notes) :
       \/ n \in ToSet(notes')
       \/ \E s \in Worker : Pull(s) \/ (At(s, "write") /\ session[s].exposed)]_vars

\* A complete that returns has published the note that it says it wrote, or, with
\* a client that does not sync, has left it in notes.md, unless the note was
\* exposed: the push comes after the append, and the appends of one store take
\* turns (syncAfterSession, appendLock).
PublishedWhenDone ==
  [][\A s \in Worker :
       /\ ~At(s, "done") /\ session'[s].step = "done"
       /\ session[s].wrote /\ ~session[s].exposed
       => NoteOf(s) \in ToSet(IF Syncs(s) THEN remote' ELSE notes')]_vars

\* No text with secret material gets into notes.md or behind sync, whatever the
\* agent writes between the extraction and the append (assertWriteAllowed).
SecretsStayOut ==
  \A n \in ToSet(notes) \union ToSet(remote) : n[2] \notin Secret

\* A caller that goes on asking gets the lease, also if its holder hangs
\* (acquire drops a lease that has run out).
WaitersGetIn == \A s \in Worker : At(s, "wait") ~> ~At(s, "wait")
=============================================================================
