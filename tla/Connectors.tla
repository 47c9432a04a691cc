------------------------------ MODULE Connectors ------------------------------
(***************************************************************************)
(* Connector runs over the local memory.  A run loads the ids that the     *)
(* ledger knows, ingests the records of the outside system and writes the  *)
(* ones whose id, made from their content, is not known yet.  A write that *)
(* fails is recorded and the run goes on; nothing but the ledger says what *)
(* earlier runs have done.  Runs follow each other; other callers write    *)
(* meanwhile.                                                              *)
(***************************************************************************)
EXTENDS LocalMemory

CONSTANT Runner   \* the caller that is the run

ASSUME RunnerAssumption == Runner \in Callers

VARIABLE run  \* [pc, known, todo]

vars == <<memoryVars, run>>

Off == [pc |-> "off", known |-> {}, todo |-> {}]

TypeOK ==
  /\ MemoryTypeOK
  /\ run \in [pc: {"off", "next", "wait"}, known: SUBSET Docs, todo: SUBSET Records]

Init == MemoryInit /\ run = Off

\* Variant: what is in the notes is known.
KnownByNote == ToSet(notes)

\* Variant: every run starts from nothing.
KnownNothing == {}

\* loadExistingNoteIds
ExistingNoteIds == ToSet(ledger)

\* runConnectors: the ids are loaded, the connector has ingested.
Start ==
  /\ run.pc = "off"
  /\ run' = [pc |-> "next", known |-> ExistingNoteIds, todo |-> Records]
  /\ UNCHANGED memoryVars

\* The secret, the connector or the outside system fails: the run has nothing.
IngestFails ==
  /\ run.pc = "off"
  /\ fails < MaxFails
  /\ fails' = fails + 1
  /\ UNCHANGED <<fileVars, lexical, call, given, crashes, history, recallVars, run>>

Skip(m) ==
  /\ run.pc = "next"
  /\ m \in run.todo
  /\ m.id \in run.known
  /\ run' = [run EXCEPT !.todo = @ \ {m}]
  /\ UNCHANGED memoryVars

\* writeConnectorRecord
WriteRecord(m) ==
  /\ run.pc = "next"
  /\ m \in run.todo
  /\ m.id \notin run.known
  /\ Begin(Runner, m)
  /\ UNCHANGED given
  /\ run' = [run EXCEPT !.pc = "wait", !.todo = @ \ {m}]

\* The write is back: written and known, or an error of the run.
RecordDone ==
  /\ run.pc = "wait"
  /\ run' = [run EXCEPT !.pc = "next",
               !.known = IF At(Runner, "ok") THEN @ \cup {call[Runner].id} ELSE @]
  /\ Return(Runner)

End ==
  /\ run.pc = "next"
  /\ run.todo = {}
  /\ run' = Off
  /\ UNCHANGED memoryVars

Running ==
  \/ Start \/ End
  \/ \E m \in Records : Skip(m) \/ WriteRecord(m)
  \/ RecordDone

Next ==
  \/ Running \/ IngestFails
  \/ \E c \in Callers : MemoryStep(c) /\ UNCHANGED run
  \/ \E c \in Callers \ {Runner} : Direct(c) /\ UNCHANGED run
  \/ Restart /\ run' = Off

\* Runs are started again and again, and the process carries out what a run has
\* begun.  Of the other callers nothing is asked.
Fairness ==
  /\ WF_vars(Running)
  /\ WF_vars(MemoryStep(Runner) /\ UNCHANGED run)

Spec == Init /\ [][Next]_vars /\ Fairness

------------------------------------------------------------------------------
Copies(id) == Cardinality({i \in DOMAIN notes : notes[i] = id})

\* A record is written twice only after a run that broke off between its note
\* and its event: as often as something failed, and no more.
DuplicatesExplained == \A id \in Notes : Copies(id) <= 1 + fails + crashes

\* Runs converge: whatever failed in the early ones, every record the outside
\* system offers gets into the ledger in the end and stays there.
RunsConverge == <>[](\A m \in Records : m.id \in ToSet(ledger))
===============================================================================
