------------------------- MODULE MemoryRuntimeProofs -------------------------
(***************************************************************************)
(* What holds of Connectors, LocalMemory and RecallStore for any callers,  *)
(* memories, records, failures and crashes: notes get lost only where a    *)
(* write goes over a text it has not read, what a call was told is stored  *)
(* is in the file of embeddings unless an older rewrite landed last, an    *)
(* acknowledged memory is found, and a note is repeated only for a run     *)
(* that broke off.                                                         *)
(*                                                                         *)
(* The argument for the embeddings: the index in memory only grows, so the *)
(* snapshots of the rewrites under way grow in the order in which they     *)
(* were taken.  Nothing is asked of the order in which they land: whatever *)
(* has been reported came with a snapshot no newer than those that no      *)
(* landing has overtaken, so each of these holds it.  As long as nothing   *)
(* was rewritten before the file was read, every rewrite, overtaken or     *)
(* not, also holds what the file held at the start.                        *)
(***************************************************************************)
EXTENDS Connectors, FiniteSetTheorems, SequenceTheorems, TLAPS

\* The rewrites under way, and what they will leave in the file.
StoreInv ==
  /\ ~behind => stored \subseteq embeddings
  /\ stored \subseteq inner
  /\ \A i \in DOMAIN writes :
       /\ ~writes[i].late => stored \subseteq writes[i].docs
       /\ writes[i].docs \subseteq inner
       /\ writes[i].doc \in writes[i].docs
  /\ \A i, j \in DOMAIN writes : i <= j => writes[i].docs \subseteq writes[j].docs
  /\ ~early =>
       /\ atBoot \subseteq embeddings
       /\ IF hydration = "loaded" THEN atBoot \subseteq inner ELSE writes = <<>>
       /\ \A i \in DOMAIN writes : atBoot \subseteq writes[i].docs

\* A caller at work has a document; a note is read and written for a note; what
\* is persisted is in the index.
CallInv ==
  \A c \in Callers :
    /\ call[c].pc \notin {"idle", "hydrating"} => call[c].id \in Docs
    /\ call[c].pc \in {"read", "write"} => call[c].id \in Notes
    /\ call[c].pc = "persist" => call[c].id \in inner

Inv == TypeOK /\ StoreInv /\ CallInv /\ NotesKeptInTurn

(***************************************************************************)
(* The recall store alone.                                                 *)
(***************************************************************************)
\* What its callers do with it, short of ending the process.
StoreStep ==
  \/ \E d \in Docs : Index(d) \/ (d \in inner /\ Persist(d))
  \/ \E i \in DOMAIN writes : Land(i) \/ LandFails(i)
  \/ Flag \/ Load
  \/ UNCHANGED recallVars

\* Chunks enter the index in memory.
LEMMA IndexKept ==
  ASSUME RecallTypeOK, StoreInv, NEW d \in Docs, Index(d)
  PROVE  RecallTypeOK' /\ StoreInv' /\ inner \subseteq inner'
<1>1. RecallTypeOK'
  BY DEF RecallTypeOK, Index
<1>2. inner \subseteq inner' /\ UNCHANGED <<hydration, embeddings, writes, stored, atBoot, early, behind>>
  BY DEF Index
<1>3. StoreInv'
  BY <1>2 DEF StoreInv
<1> QED
  BY <1>1, <1>2, <1>3

\* A snapshot of the index joins the queue of the file.
LEMMA PersistKept ==
  ASSUME RecallTypeOK, StoreInv, NEW d \in inner, Persist(d)
  PROVE  RecallTypeOK' /\ StoreInv' /\ inner \subseteq inner'
<1> DEFINE w == [doc |-> d, docs |-> inner, late |-> FALSE]
<1>1. w \in Rewrite
  BY DEF Rewrite, RecallTypeOK
<1>2. writes' = Append(writes, w) /\ UNCHANGED <<inner, hydration, embeddings, stored, atBoot, behind>>
  BY DEF Persist, Snapshot
<1>3. RecallTypeOK'
  BY <1>1, <1>2 DEF RecallTypeOK, Persist
<1>4. \A i \in DOMAIN writes' : IF i \in DOMAIN writes THEN writes'[i] = writes[i] ELSE writes'[i] = w
  BY <1>1, <1>2 DEF RecallTypeOK
<1>5. \A i, j \in DOMAIN writes' : i <= j /\ j \in DOMAIN writes => i \in DOMAIN writes
  BY <1>2 DEF RecallTypeOK
<1>6. ~early' => ~early /\ hydration = "loaded"
  BY DEF Persist, RecallTypeOK
<1>7. \A i \in DOMAIN writes' :
        /\ ~writes'[i].late => stored \subseteq writes'[i].docs
        /\ writes'[i].docs \subseteq inner
        /\ writes'[i].doc \in writes'[i].docs
        /\ ~early' => atBoot \subseteq writes'[i].docs
  BY <1>4, <1>6 DEF StoreInv
<1>8. \A i, j \in DOMAIN writes' : i <= j => writes'[i].docs \subseteq writes'[j].docs
  BY <1>4, <1>5, <1>7 DEF StoreInv
<1>9. StoreInv'
  BY <1>2, <1>6, <1>7, <1>8 DEF StoreInv
<1> QED
  BY <1>2, <1>3, <1>9

\* Without one of its elements, a sequence keeps the others in their order.
LEMMA WithoutOne ==
  ASSUME NEW S, NEW q \in Seq(S), NEW i \in DOMAIN q
  PROVE  /\ RemoveAt(q, i) \in Seq(S)
         /\ \A j \in DOMAIN RemoveAt(q, i) :
              \E o \in DOMAIN q : RemoveAt(q, i)[j] = q[o] /\ o = IF j < i THEN j ELSE j + 1
<1> DEFINE a == SubSeq(q, 1, i - 1)
           b == SubSeq(q, i + 1, Len(q))
<1>1. i \in 1 .. Len(q) /\ Len(q) \in Nat
  OBVIOUS
<1>2. /\ a \in Seq(S) /\ Len(a) = i - 1
      /\ \A j \in 1 .. i - 1 : a[j] = q[j]
  BY <1>1, SubSeqProperties
<1>3. /\ b \in Seq(S) /\ Len(b) = Len(q) - i
      /\ \A j \in 1 .. Len(q) - i : b[j] = q[i + j]
  <2>1. CASE i = Len(q)
    <3>1. b = << >>
      BY <1>1, <2>1, SubSeqProperties
    <3> QED
      BY <1>1, <2>1, <3>1
  <2>2. CASE i < Len(q)
    BY <1>1, <2>2, SubSeqProperties
  <2> QED
    BY <1>1, <2>1, <2>2
<1>4. RemoveAt(q, i) = a \o b
  BY DEF RemoveAt
<1> HIDE DEF a, b
<1>5. /\ a \o b \in Seq(S) /\ Len(a \o b) = Len(q) - 1
      /\ \A j \in 1 .. Len(q) - 1 : (a \o b)[j] = IF j < i THEN a[j] ELSE b[j - (i - 1)]
  <2>1. /\ a \o b \in Seq(S) /\ Len(a \o b) = Len(a) + Len(b)
        /\ \A j \in 1 .. Len(a) + Len(b) :
             (a \o b)[j] = IF j <= Len(a) THEN a[j] ELSE b[j - Len(a)]
    BY <1>2, <1>3, ConcatProperties
  <2>2. Len(a) + Len(b) = Len(q) - 1
    BY <1>1, <1>2, <1>3
  <2>3. \A j \in 1 .. Len(q) - 1 : j <= Len(a) <=> j < i
    BY <1>1, <1>2
  <2>4. Len(a) = i - 1
    BY <1>2
  <2>5. \A j \in 1 .. Len(q) - 1 : (a \o b)[j] = IF j < i THEN a[j] ELSE b[j - (i - 1)]
    BY <2>1, <2>2, <2>3, <2>4
  <2> QED
    BY <2>1, <2>2, <2>5
<1>6. \A j \in 1 .. Len(q) - 1 : (a \o b)[j] = q[IF j < i THEN j ELSE j + 1]
  <2> TAKE j \in 1 .. Len(q) - 1
  <2>1. CASE j < i
    BY <1>1, <1>2, <1>5, <2>1
  <2>2. CASE ~(j < i)
    <3>1. j - (i - 1) \in 1 .. Len(q) - i /\ i + (j - (i - 1)) = j + 1
      BY <1>1, <2>2
    <3>2. b[j - (i - 1)] = q[j + 1]
      BY <1>3, <3>1
    <3> QED
      BY <1>5, <2>2, <3>2
  <2> QED
    BY <2>1, <2>2
<1>7. DOMAIN (a \o b) = 1 .. Len(q) - 1
  BY <1>5
<1>8. \A j \in DOMAIN (a \o b) : (IF j < i THEN j ELSE j + 1) \in DOMAIN q
  BY <1>1, <1>7
<1> QED
  BY <1>4, <1>5, <1>6, <1>7, <1>8

\* A rewrite lands, whichever it is: those taken before it are late from now on.
LEMMA LandKept ==
  ASSUME RecallTypeOK, StoreInv, NEW k \in DOMAIN writes, Land(k) \/ LandFails(k)
  PROVE  RecallTypeOK' /\ StoreInv' /\ inner \subseteq inner'
<1>1. UNCHANGED <<inner, hydration, atBoot, early>>
  BY DEF Land, LandFails
<1>2. /\ \A i \in DOMAIN writes : writes[i] \in Rewrite /\ i \in Nat
      /\ writes # << >>
  BY DEF RecallTypeOK
<1>3. /\ writes' \in Seq(Rewrite)
      /\ \A j \in DOMAIN writes' :
           /\ j \in Nat
           /\ \E o \in DOMAIN writes :
                /\ o = IF j < k THEN j ELSE j + 1
                /\ writes'[j].doc = writes[o].doc
                /\ writes'[j].docs = writes[o].docs
                /\ ~writes'[j].late => ~writes[o].late /\ (Land(k) => k < o)
  <2>1. CASE ~Land(k)
    <3>1. writes' = RemoveAt(writes, k) /\ writes \in Seq(Rewrite)
      BY <2>1 DEF LandFails, RecallTypeOK
    <3>2. /\ writes' \in Seq(Rewrite)
          /\ \A j \in DOMAIN writes' :
               \E o \in DOMAIN writes : writes'[j] = writes[o] /\ o = IF j < k THEN j ELSE j + 1
      BY <3>1, WithoutOne
    <3>3. \A j \in DOMAIN writes' : j \in Nat
      BY <3>2
    <3>4. ASSUME NEW j \in DOMAIN writes'
          PROVE  \E o \in DOMAIN writes :
                   /\ o = IF j < k THEN j ELSE j + 1
                   /\ writes'[j].doc = writes[o].doc
                   /\ writes'[j].docs = writes[o].docs
                   /\ ~writes'[j].late => ~writes[o].late /\ (Land(k) => k < o)
      BY <2>1, <3>2
    <3> QED
      BY <3>2, <3>3, <3>4
  <2>2. CASE Land(k)
    <3> DEFINE q == Overtaken(k)
    <3>1. /\ DOMAIN q = DOMAIN writes /\ q \in Seq(Rewrite)
          /\ \A o \in DOMAIN writes :
               /\ q[o].doc = writes[o].doc /\ q[o].docs = writes[o].docs
               /\ q[o].late = (writes[o].late \/ o < k)
      <4>1. \A o \in DOMAIN writes :
              /\ q[o] \in Rewrite
              /\ q[o].doc = writes[o].doc /\ q[o].docs = writes[o].docs
              /\ q[o].late = (writes[o].late \/ o < k)
        BY <1>2 DEF Overtaken, Rewrite
      <4>2. DOMAIN q = 1 .. Len(writes) /\ DOMAIN writes = 1 .. Len(writes) /\ Len(writes) \in Nat
        BY DEF Overtaken, RecallTypeOK
      <4>3. q = [o \in 1 .. Len(writes) |-> q[o]]
        BY <4>2 DEF Overtaken
      <4> HIDE DEF q
      <4>4. q \in Seq(Rewrite)
        BY <4>1, <4>2, <4>3
      <4> QED
        BY <4>1, <4>2, <4>4
    <3>2. writes' = RemoveAt(q, k)
      BY <2>2 DEF Land
    <3> HIDE DEF q
    <3>3. /\ writes' \in Seq(Rewrite)
          /\ \A j \in DOMAIN writes' :
               \E o \in DOMAIN writes : writes'[j] = q[o] /\ o = IF j < k THEN j ELSE j + 1
      BY <3>1, <3>2, WithoutOne
    <3>4. \A j \in DOMAIN writes' : j \in Nat
      BY <3>3
    <3>5. ASSUME NEW j \in DOMAIN writes'
          PROVE  \E o \in DOMAIN writes :
                   /\ o = IF j < k THEN j ELSE j + 1
                   /\ writes'[j].doc = writes[o].doc
                   /\ writes'[j].docs = writes[o].docs
                   /\ ~writes'[j].late => ~writes[o].late /\ (Land(k) => k < o)
      <4>1. PICK o \in DOMAIN writes : writes'[j] = q[o] /\ o = IF j < k THEN j ELSE j + 1
        BY <3>3
      <4>2. o # k /\ o \in Nat /\ k \in Nat
        BY <1>2, <3>4, <4>1
      <4>3. o < k \/ k < o
        BY <4>2
      <4>4. /\ writes'[j].doc = writes[o].doc /\ writes'[j].docs = writes[o].docs
            /\ writes'[j].late = (writes[o].late \/ o < k)
        BY <3>1, <4>1
      <4>5. ~writes'[j].late => ~writes[o].late /\ k < o
        BY <4>3, <4>4
      <4> QED
        BY <4>1, <4>4, <4>5
    <3> QED
      BY <3>3, <3>4, <3>5
  <2> QED
    BY <2>1, <2>2
<1>4. \/ /\ Land(k)
         /\ embeddings' = writes[k].docs /\ stored' = stored \cup {writes[k].doc}
         /\ behind' = writes[k].late
      \/ UNCHANGED <<embeddings, stored, behind>>
  BY DEF Land, LandFails
<1>5. RecallTypeOK'
  BY <1>1, <1>2, <1>3, <1>4 DEF RecallTypeOK, Rewrite
<1>6. (~behind' => stored' \subseteq embeddings') /\ stored' \subseteq inner
  BY <1>2, <1>4 DEF StoreInv
<1>7. \A j \in DOMAIN writes' : ~writes'[j].late => stored' \subseteq writes'[j].docs
  <2> TAKE j \in DOMAIN writes'
  <2> HAVE ~writes'[j].late
  <2>1. PICK o \in DOMAIN writes :
          /\ writes'[j].docs = writes[o].docs /\ ~writes[o].late
          /\ Land(k) => k < o
    BY <1>3
  <2>2. stored \subseteq writes[o].docs
    BY <2>1 DEF StoreInv
  <2>3. Land(k) => writes[k].doc \in writes[o].docs
    <3>1. Land(k) => k <= o
      BY <1>2, <2>1
    <3> QED
      BY <3>1 DEF StoreInv
  <2> QED
    BY <1>4, <2>1, <2>2, <2>3
<1>8. \A j \in DOMAIN writes' :
        /\ writes'[j].docs \subseteq inner
        /\ writes'[j].doc \in writes'[j].docs
        /\ ~early => atBoot \subseteq writes'[j].docs
  BY <1>3 DEF StoreInv
<1>9. \A i, j \in DOMAIN writes' : i <= j => writes'[i].docs \subseteq writes'[j].docs
  <2> SUFFICES ASSUME NEW i \in DOMAIN writes', NEW j \in DOMAIN writes', i <= j
               PROVE  writes'[i].docs \subseteq writes'[j].docs
    OBVIOUS
  <2>1. PICK o \in DOMAIN writes :
          o = (IF i < k THEN i ELSE i + 1) /\ writes'[i].docs = writes[o].docs
    BY <1>3
  <2>2. PICK p \in DOMAIN writes :
          p = (IF j < k THEN j ELSE j + 1) /\ writes'[j].docs = writes[p].docs
    BY <1>3
  <2>3. o <= p
    BY <1>2, <1>3, <2>1, <2>2
  <2> QED
    BY <2>1, <2>2, <2>3 DEF StoreInv
<1>10. ~early => hydration = "loaded" /\ atBoot \subseteq embeddings' /\ atBoot \subseteq inner
  BY <1>1, <1>2, <1>4 DEF StoreInv
<1>11. StoreInv'
  BY <1>1, <1>6, <1>7, <1>8, <1>9, <1>10 DEF StoreInv
<1> QED
  BY <1>1, <1>5, <1>11

\* The file is read, or the flag is set before that.
LEMMA LoadKept ==
  ASSUME RecallTypeOK, StoreInv, Flag \/ Load
  PROVE  RecallTypeOK' /\ StoreInv' /\ inner \subseteq inner'
<1>1. RecallTypeOK'
  BY DEF RecallTypeOK, Flag, Load
<1>2. CASE Flag
  BY <1>1, <1>2 DEF StoreInv, Flag
<1>3. CASE Load
  BY <1>1, <1>3 DEF StoreInv, Load
<1> QED
  BY <1>2, <1>3

\* Every step of the store keeps it right, and its index only grows.
LEMMA StoreKept ==
  ASSUME RecallTypeOK, StoreInv, StoreStep
  PROVE  RecallTypeOK' /\ StoreInv' /\ inner \subseteq inner'
<1>1. CASE UNCHANGED recallVars
  BY <1>1 DEF recallVars, RecallTypeOK, StoreInv
<1> QED
  BY <1>1, IndexKept, PersistKept, LandKept, LoadKept DEF StoreStep

\* A process that starts finds the file and nothing else.
LEMMA BootKept ==
  ASSUME RecallTypeOK, RecallBoot
  PROVE  RecallTypeOK' /\ StoreInv'
<1>1. RecallTypeOK'
  <2>1. writes' \in Seq(Rewrite)
    BY DEF RecallBoot
  <2> QED
    BY <2>1 DEF RecallTypeOK, RecallBoot
<1>2. DOMAIN writes' = {}
  BY DEF RecallBoot
<1>3. StoreInv'
  BY <1>2 DEF StoreInv, RecallBoot
<1> QED
  BY <1>1, <1>3

(***************************************************************************)
(* The local memory.                                                       *)
(***************************************************************************)
\* MemoryTypeOK without the recall store.
LocalTypes ==
  /\ notes \in Seq(Notes) /\ ledger \in Seq(Docs)
  /\ core \in Cores \cup {None} /\ lexical \in SUBSET Docs
  /\ call \in [Callers -> Calls]
  /\ given \in SUBSET Docs
  /\ fails \in 0 .. MaxFails /\ crashes \in 0 .. MaxCrashes
  /\ acked \in SUBSET Notes /\ noted \in SUBSET Notes /\ torn \in BOOLEAN

\* What a step keeps: the types, the calls, the store, the notes.
Kept == RecallTypeOK /\ LocalTypes /\ StoreInv /\ CallInv /\ NotesKeptInTurn

\* The invariant is what the local memory keeps and the types of a run.
LEMMA KeptIsInv == Inv <=> Kept /\ run \in [pc: {"off", "next", "wait"}, known: SUBSET Docs, todo: SUBSET Records]
  BY DEF Inv, Kept, TypeOK, MemoryTypeOK, LocalTypes

\* A caller goes on to another step and changes nothing else of its call.
LEMMA GoTypes ==
  ASSUME LocalTypes, NEW c \in Callers, NEW pc \in Steps, Go(c, pc)
  PROVE  /\ call' \in [Callers -> Calls]
         /\ call'[c].pc = pc /\ call'[c].id = call[c].id
         /\ \A b \in Callers \ {c} : call'[b] = call[b]
  BY DEF LocalTypes, Calls, Go

\* A caller without a call.
LEMMA IdleTypes == Idle \in Calls
  BY DEF Idle, Calls, Steps

\* A step of one call that leaves the store alone or keeps it, and whose call is
\* right afterwards, keeps the calls right.
LEMMA OthersKept ==
  ASSUME CallInv, NEW c \in Callers, inner \subseteq inner',
         \A b \in Callers \ {c} : call'[b] = call[b],
         call'[c].pc \notin {"idle", "hydrating"} => call'[c].id \in Docs,
         call'[c].pc \in {"read", "write"} => call'[c].id \in Notes,
         call'[c].pc = "persist" => call'[c].id \in inner'
  PROVE  CallInv'
  BY DEF CallInv

\* writeMemory begins.
LEMMA BeginKept ==
  ASSUME Kept, NEW c \in Callers, NEW m \in Inputs, Begin(c, m),
         given' \in SUBSET Docs
  PROVE  Kept'
<1>1. m.id \in Notes /\ m.id \in Docs
  BY InputsAssumption
<1>2. ClassifyDurability(m) \in BOOLEAN
  BY DEF ClassifyDurability
<1>3. [pc |-> "read", id |-> m.id, durable |-> ClassifyDurability(m), seen |-> << >>] \in Calls
  BY <1>1, <1>2 DEF Calls, Steps
<1>4. LocalTypes'
  BY <1>3 DEF Kept, LocalTypes, Begin, fileVars, history
<1>5. UNCHANGED recallVars
  BY DEF Begin
<1>6. CallInv'
  <2>1. call'[c].pc = "read" /\ call'[c].id = m.id /\ \A b \in Callers \ {c} : call'[b] = call[b]
    BY DEF Kept, LocalTypes, Begin
  <2> QED
    BY <1>1, <1>5, <2>1, OthersKept DEF Kept, recallVars
<1>7. RecallTypeOK' /\ StoreInv'
  BY <1>5, StoreKept DEF StoreStep, Kept
<1>8. NotesKeptInTurn'
  BY DEF Kept, NotesKeptInTurn, Begin, fileVars, history
<1> QED
  BY <1>4, <1>6, <1>7, <1>8 DEF Kept
\* The steps of a write on the files, before the recall store is used.
LEMMA FilesKept ==
  ASSUME Kept, NEW c \in Callers,
         \/ ReadNotes(c) \/ ReadNotesFails(c) \/ WriteNotes(c)
         \/ LogEvent(c) \/ FileFails(c) \/ IndexLexical(c)
  PROVE  Kept'
<1>1. UNCHANGED recallVars
  BY DEF ReadNotes, ReadNotesFails, WriteNotes, LogEvent, FileFails, IndexLexical
<1>2. RecallTypeOK' /\ StoreInv'
  BY <1>1, StoreKept DEF StoreStep, Kept
<1>3. inner' = inner
  BY <1>1 DEF recallVars
<1>4. call[c] \in Calls /\ DOMAIN call = Callers
  BY DEF Kept, LocalTypes
<1>5. CASE ReadNotes(c) \/ ReadNotesFails(c)
  <2>1. PICK s \in Seq(Notes) : call' = [call EXCEPT ![c].pc = "write", ![c].seen = s]
    <3>1. notes \in Seq(Notes) /\ << >> \in Seq(Notes)
      BY DEF Kept, LocalTypes
    <3> QED
      BY <1>5, <3>1 DEF ReadNotes, ReadNotesFails
  <2>2. call[c].pc = "read" /\ call[c].id \in Notes /\ call[c].id \in Docs
    BY <1>5, InputsAssumption DEF ReadNotes, ReadNotesFails, At, Kept, CallInv
  <2>3. /\ call' \in [Callers -> Calls]
        /\ call'[c].pc = "write" /\ call'[c].id = call[c].id
        /\ \A b \in Callers \ {c} : call'[b] = call[b]
    <3>1. call'[c] = [call[c] EXCEPT !.pc = "write", !.seen = s] /\ DOMAIN call' = Callers
      BY <1>4, <2>1
    <3>2. \A b \in Callers \ {c} : call'[b] = call[b]
      BY <1>4, <2>1
    <3>3. call'[c] \in Calls
      BY <1>4, <3>1 DEF Calls, Steps
    <3>4. call' = [b \in Callers |-> call'[b]]
      BY <1>4, <2>1
    <3>5. \A b \in Callers : call'[b] \in Calls
      BY <3>2, <3>3 DEF Kept, LocalTypes
    <3> QED
      BY <1>4, <3>1, <3>2, <3>4, <3>5 DEF Calls
  <2>4. CallInv'
    BY <1>3, <2>2, <2>3, OthersKept DEF Kept
  <2>5. LocalTypes'
    <3>1. fails' \in 0 .. MaxFails
      BY <1>5, InputsAssumption DEF Kept, LocalTypes, ReadNotes, ReadNotesFails
    <3>2. UNCHANGED <<fileVars, lexical, given, crashes, history>>
      BY <1>5 DEF ReadNotes, ReadNotesFails
    <3> QED
      BY <2>3, <3>1, <3>2 DEF Kept, LocalTypes, fileVars, history
  <2>6. NotesKeptInTurn'
    BY <1>5 DEF Kept, NotesKeptInTurn, ReadNotes, ReadNotesFails, fileVars, history
  <2> QED
    BY <1>2, <2>4, <2>5, <2>6 DEF Kept
<1>6. CASE WriteNotes(c)
  <2>1. call[c].pc = "write" /\ call[c].id \in Notes /\ call[c].id \in Docs
    BY <1>6, InputsAssumption DEF WriteNotes, At, Kept, CallInv
  <2>2. /\ call' \in [Callers -> Calls]
        /\ call'[c].pc = "log" /\ call'[c].id = call[c].id
        /\ \A b \in Callers \ {c} : call'[b] = call[b]
    <3>1. << >> \in Seq(Notes)
      OBVIOUS
    <3> QED
      BY <1>4, <1>6, <3>1 DEF WriteNotes, Calls, Steps, Kept, LocalTypes
  <2>3. CallInv'
    BY <1>3, <2>1, <2>2, OthersKept DEF Kept
  <2>4. call[c].seen \in Seq(Notes) /\ notes' = Append(call[c].seen, call[c].id)
    BY <1>4, <1>6 DEF WriteNotes, Noted, Calls
  <2>5. LocalTypes'
    BY <1>6, <2>1, <2>2, <2>4 DEF Kept, LocalTypes, WriteNotes
  <2>6. ToSet(notes') = ToSet(call[c].seen) \cup {call[c].id}
    BY <2>1, <2>4 DEF ToSet
  <2>7. NotesKeptInTurn'
    BY <1>6, <2>6 DEF Kept, NotesKeptInTurn, WriteNotes
  <2> QED
    BY <1>2, <2>3, <2>5, <2>7 DEF Kept
<1>7. CASE LogEvent(c) \/ FileFails(c) \/ IndexLexical(c)
  <2>1. PICK pc \in {"embed", "ok", "failed"} : Go(c, pc)
    BY <1>7 DEF LogEvent, Logged, FileFails, Fail, IndexLexical
  <2>2. call[c].pc \in {"log", "write", "index"} /\ call[c].id \in Docs
    BY <1>7 DEF LogEvent, FileFails, IndexLexical, At, Kept, CallInv
  <2>3. /\ call' \in [Callers -> Calls]
        /\ call'[c].pc = pc /\ call'[c].id = call[c].id
        /\ \A b \in Callers \ {c} : call'[b] = call[b]
    BY <2>1, GoTypes DEF Kept, Steps
  <2>4. CallInv'
    BY <1>3, <2>2, <2>3, OthersKept DEF Kept
  <2>5. ledger' \in Seq(Docs) /\ lexical' \in SUBSET Docs /\ fails' \in 0 .. MaxFails
    <3>1. CASE LogEvent(c)
      BY <2>2, <3>1 DEF Kept, LocalTypes, LogEvent
    <3>2. CASE FileFails(c)
      BY <3>2, InputsAssumption DEF Kept, LocalTypes, FileFails, Fail, fileVars
    <3>3. CASE IndexLexical(c)
      BY <2>2, <3>3 DEF Kept, LocalTypes, IndexLexical, fileVars
    <3> QED
      BY <1>7, <3>1, <3>2, <3>3
  <2>6. UNCHANGED <<notes, core, given, crashes, history>>
    BY <1>7 DEF LogEvent, FileFails, IndexLexical, fileVars
  <2>7. LocalTypes'
    BY <2>3, <2>5, <2>6 DEF Kept, LocalTypes, history
  <2>8. NotesKeptInTurn'
    BY <2>6 DEF Kept, NotesKeptInTurn, history
  <2> QED
    BY <1>2, <2>4, <2>7, <2>8 DEF Kept
<1> QED
  BY <1>5, <1>6, <1>7
\* Core memory is written as a whole.
LEMMA CoreKept ==
  ASSUME Kept, NEW c \in Callers, NEW v \in Cores, UpdateCore(c, v)
  PROVE  Kept'
<1>1. v \in Docs
  BY InputsAssumption
<1>2. UNCHANGED recallVars /\ inner' = inner
  BY DEF UpdateCore, recallVars
<1>3. RecallTypeOK' /\ StoreInv'
  BY <1>2, StoreKept DEF StoreStep, Kept
<1>4. [pc |-> "log", id |-> v, durable |-> TRUE, seen |-> << >>] \in Calls
  BY <1>1 DEF Calls, Steps
<1>5. LocalTypes'
  BY <1>1, <1>4 DEF Kept, LocalTypes, UpdateCore, CoreWritten, history
<1>6. /\ call'[c].pc = "log" /\ call'[c].id = v
      /\ \A b \in Callers \ {c} : call'[b] = call[b]
  BY DEF Kept, LocalTypes, UpdateCore, CoreWritten
<1>7. CallInv'
  BY <1>1, <1>2, <1>6, OthersKept DEF Kept
<1>8. NotesKeptInTurn'
  BY DEF Kept, NotesKeptInTurn, UpdateCore, history
<1> QED
  BY <1>3, <1>5, <1>7, <1>8 DEF Kept

\* The steps of a write on the recall store.
LEMMA EmbeddingKept ==
  ASSUME Kept, NEW c \in Callers,
         Embed(c) \/ PersistIndex(c) \/ LandIndex(c) \/ EmbedFails(c)
  PROVE  Kept'
<1>1. call[c].pc \in {"embed", "persist", "landing"} /\ call[c].id \in Docs
  BY DEF Embed, PersistIndex, LandIndex, Lands, Waits, EmbedFails, At, Kept, CallInv
<1>2. StoreStep
  <2>1. CASE Embed(c)
    BY <1>1, <2>1 DEF Embed, StoreStep
  <2>2. CASE PersistIndex(c)
    <3>1. call[c].id \in inner
      BY <2>2 DEF PersistIndex, At, Kept, CallInv
    <3> QED
      BY <1>1, <2>2, <3>1 DEF PersistIndex, StoreStep
  <2>3. CASE LandIndex(c)
    BY <2>3 DEF LandIndex, Lands, StoreStep
  <2>4. CASE EmbedFails(c)
    BY <2>4 DEF EmbedFails, StoreStep
  <2> QED
    BY <2>1, <2>2, <2>3, <2>4
<1>3. RecallTypeOK' /\ StoreInv' /\ inner \subseteq inner'
  BY <1>2, StoreKept DEF Kept
<1>4. PICK pc \in {"persist", "landing", "index"} : Go(c, pc) /\ (pc = "persist" => Embed(c))
  BY DEF Embed, PersistIndex, LandIndex, EmbedFails, SwallowsError
<1>5. /\ call' \in [Callers -> Calls]
      /\ call'[c].pc = pc /\ call'[c].id = call[c].id
      /\ \A b \in Callers \ {c} : call'[b] = call[b]
  BY <1>4, GoTypes DEF Kept, Steps
<1>6. CallInv'
  <2>1. pc = "persist" => call[c].id \in inner'
    BY <1>4 DEF Embed, Index
  <2> QED
    BY <1>1, <1>3, <1>5, <2>1, OthersKept DEF Kept
<1>7. fails' \in 0 .. MaxFails
  BY InputsAssumption DEF Kept, LocalTypes, Embed, PersistIndex, LandIndex, EmbedFails
<1>8. UNCHANGED <<fileVars, lexical, given, crashes, history>>
  BY DEF Embed, PersistIndex, LandIndex, EmbedFails
<1>9. LocalTypes'
  BY <1>5, <1>7, <1>8 DEF Kept, LocalTypes, fileVars, history
<1>10. NotesKeptInTurn'
  BY <1>8 DEF Kept, NotesKeptInTurn, fileVars, history
<1> QED
  BY <1>3, <1>6, <1>9, <1>10 DEF Kept

\* A call ends, or recall hydrates.
LEMMA EndsKept ==
  ASSUME Kept, NEW c \in Callers,
         Return(c) \/ Recall(c) \/ Hydrate(c) \/ HydrateFails(c)
  PROVE  Kept'
<1>1. StoreStep
  BY DEF Return, Recall, Hydrate, HydrateFails, StoreStep
<1>2. RecallTypeOK' /\ StoreInv' /\ inner \subseteq inner'
  BY <1>1, StoreKept DEF Kept
<1>3. /\ call' \in [Callers -> Calls]
      /\ call'[c].pc \in {"idle", "hydrating"}
      /\ \A b \in Callers \ {c} : call'[b] = call[b]
  <2>1. CASE call' = [call EXCEPT ![c] = Idle]
    <3>1. Idle.pc = "idle"
      BY DEF Idle
    <3> QED
      BY <2>1, <3>1, IdleTypes DEF Kept, LocalTypes
  <2>2. CASE Go(c, "hydrating")
    BY <2>2, GoTypes DEF Kept, Steps
  <2> QED
    BY <2>1, <2>2 DEF Return, Recall, Hydrate, HydrateFails
<1>4. CallInv'
  BY <1>2, <1>3, OthersKept DEF Kept
<1>5. acked' \in SUBSET Notes
  BY DEF Kept, LocalTypes, Return, Recall, Hydrate, HydrateFails, history
<1>6. fails' \in 0 .. MaxFails
  BY InputsAssumption DEF Kept, LocalTypes, Return, Recall, Hydrate, HydrateFails
<1>7. UNCHANGED <<fileVars, lexical, given, crashes, noted, torn>>
  BY DEF Return, Recall, Hydrate, HydrateFails, history
<1>8. LocalTypes'
  BY <1>3, <1>5, <1>6, <1>7 DEF Kept, LocalTypes, fileVars
<1>9. NotesKeptInTurn'
  BY <1>7 DEF Kept, NotesKeptInTurn, fileVars
<1> QED
  BY <1>2, <1>4, <1>8, <1>9 DEF Kept

\* The process starts again with empty memory.
LEMMA RestartKept ==
  ASSUME Kept, Restart
  PROVE  Kept'
<1>1. RecallTypeOK' /\ StoreInv'
  BY BootKept DEF Kept, Restart
<1>2. call' = [c \in Callers |-> Idle] /\ Idle.pc = "idle"
  BY DEF Restart, Idle
<1>3. CallInv'
  BY <1>2 DEF CallInv
<1>4. crashes' \in 0 .. MaxCrashes
  BY InputsAssumption DEF Kept, LocalTypes, Restart
<1>5. LocalTypes'
  BY <1>2, <1>4, IdleTypes DEF Kept, LocalTypes, Restart, fileVars
<1>6. NotesKeptInTurn'
  BY DEF Kept, NotesKeptInTurn, Restart, fileVars
<1> QED
  BY <1>1, <1>3, <1>5, <1>6 DEF Kept

\* A step of a run alone.
LEMMA StutterKept ==
  ASSUME Kept, UNCHANGED memoryVars
  PROVE  Kept'
<1>1. RecallTypeOK' /\ StoreInv' /\ inner' = inner
  BY StoreKept DEF StoreStep, Kept, memoryVars, recallVars
<1>2. LocalTypes' /\ NotesKeptInTurn' /\ CallInv'
  BY <1>1 DEF Kept, LocalTypes, NotesKeptInTurn, CallInv, memoryVars
<1> QED
  BY <1>1, <1>2 DEF Kept

(***************************************************************************)
(* Connector runs, and the whole.                                          *)
(***************************************************************************)
\* The types of a connector run.
RunTypes == run \in [pc: {"off", "next", "wait"}, known: SUBSET Docs, todo: SUBSET Records]

\* It holds of an empty memory before any run.
LEMMA InitInv == Init => Inv
<1> SUFFICES ASSUME Init PROVE Inv
  OBVIOUS
<1>1. RecallTypeOK
  <2>1. << >> \in Seq(Rewrite)
    OBVIOUS
  <2> QED
    BY <2>1 DEF Init, MemoryInit, RecallInit, RecallTypeOK
<1>2. StoreInv
  <2>1. DOMAIN writes = {}
    BY DEF Init, MemoryInit, RecallInit
  <2> QED
    BY <2>1 DEF Init, MemoryInit, RecallInit, StoreInv
<1>3. LocalTypes
  <2>1. << >> \in Seq(Notes) /\ << >> \in Seq(Docs)
    OBVIOUS
  <2>2. call \in [Callers -> Calls]
    BY IdleTypes DEF Init, MemoryInit
  <2>3. fails \in 0 .. MaxFails /\ crashes \in 0 .. MaxCrashes
    BY InputsAssumption DEF Init, MemoryInit
  <2> QED
    BY <2>1, <2>2, <2>3 DEF Init, MemoryInit, LocalTypes
<1>4. CallInv
  BY DEF Init, MemoryInit, CallInv, Idle
<1>5. NotesKeptInTurn
  BY DEF Init, MemoryInit, NotesKeptInTurn
<1>6. RunTypes
  BY DEF Init, Off, RunTypes
<1> QED
  BY <1>1, <1>2, <1>3, <1>4, <1>5, <1>6, KeptIsInv DEF Kept, RunTypes

\* The steps of the runner.
LEMMA RunningKept ==
  ASSUME Kept, RunTypes, Running \/ IngestFails
  PROVE  Kept' /\ RunTypes'
<1>1. CASE Start \/ End \/ \E m \in Records : Skip(m)
  <2>1. Kept'
    BY <1>1, StutterKept DEF Start, End, Skip
  <2>2. ToSet(ledger) \in SUBSET Docs
    BY DEF ToSet, Kept, LocalTypes
  <2>3. RunTypes'
    BY <1>1, <2>2 DEF RunTypes, Start, End, Skip, Off, ExistingNoteIds
  <2> QED
    BY <2>1, <2>3
<1>2. CASE \E m \in Records : WriteRecord(m)
  <2>1. PICK m \in Records : WriteRecord(m)
    BY <1>2
  <2>2. Runner \in Callers /\ m \in Inputs /\ given' \in SUBSET Docs
    BY <2>1, RunnerAssumption, InputsAssumption DEF WriteRecord, Kept, LocalTypes
  <2>3. Kept'
    BY <2>1, <2>2, BeginKept DEF WriteRecord
  <2>4. RunTypes'
    BY <2>1 DEF RunTypes, WriteRecord
  <2> QED
    BY <2>3, <2>4
<1>3. CASE RecordDone
  <2>1. Kept'
    BY <1>3, EndsKept, RunnerAssumption DEF RecordDone
  <2>2. At(Runner, "ok") => call[Runner].id \in Docs
    BY RunnerAssumption DEF At, Kept, CallInv
  <2>3. RunTypes'
    BY <1>3, <2>2 DEF RunTypes, RecordDone
  <2> QED
    BY <2>1, <2>3
<1>4. CASE IngestFails
  <2>1. UNCHANGED <<fileVars, lexical, call, given, crashes, history, recallVars, run>>
    BY <1>4 DEF IngestFails
  <2>2. fails' \in 0 .. MaxFails
    BY <1>4, InputsAssumption DEF Kept, LocalTypes, IngestFails
  <2>3. RecallTypeOK' /\ StoreInv' /\ inner' = inner
    BY <2>1, StoreKept DEF StoreStep, Kept, recallVars
  <2>4. LocalTypes' /\ NotesKeptInTurn' /\ CallInv'
    BY <2>1, <2>2, <2>3 DEF Kept, LocalTypes, NotesKeptInTurn, CallInv, fileVars, history
  <2> QED
    BY <2>1, <2>3, <2>4 DEF Kept, RunTypes
<1> QED
  BY <1>1, <1>2, <1>3, <1>4 DEF Running

\* Every step of a run, a caller or the store keeps it.
LEMMA NextInv == Inv /\ [Next]_vars => Inv'
<1> SUFFICES ASSUME Inv, [Next]_vars PROVE Inv'
  OBVIOUS
<1>1. Kept /\ RunTypes
  BY KeptIsInv DEF RunTypes
<1>2. Kept' /\ RunTypes'
  <2>1. CASE Running \/ IngestFails
    BY <1>1, <2>1, RunningKept
  <2>2. CASE \E c \in Callers : MemoryStep(c) /\ UNCHANGED run
    BY <1>1, <2>2, FilesKept, EmbeddingKept, EndsKept DEF MemoryStep, RunTypes
  <2>3. CASE \E c \in Callers \ {Runner} : Direct(c) /\ UNCHANGED run
    <3>1. PICK c \in Callers : Direct(c) /\ UNCHANGED run
      BY <2>3
    <3>2. CASE \E m \in Inputs \ Records : m.id \in Asks[c] /\ WriteMemory(c, m)
      <4>1. PICK m \in Inputs : WriteMemory(c, m)
        BY <3>2
      <4>2. given' \in SUBSET Docs
        BY <1>1, <4>1, InputsAssumption DEF WriteMemory, Kept, LocalTypes
      <4> QED
        BY <1>1, <3>1, <4>1, <4>2, BeginKept DEF WriteMemory, RunTypes
    <3>3. CASE \E v \in Cores \cap Asks[c] : UpdateCore(c, v)
      BY <1>1, <3>1, <3>3, CoreKept DEF RunTypes
    <3>4. CASE Recall(c) \/ Return(c)
      BY <1>1, <3>1, <3>4, EndsKept DEF RunTypes
    <3> QED
      BY <3>1, <3>2, <3>3, <3>4 DEF Direct
  <2>4. CASE Restart /\ run' = Off
    BY <1>1, <2>4, RestartKept DEF RunTypes, Off
  <2>5. CASE UNCHANGED vars
    BY <1>1, <2>5, StutterKept DEF vars, RunTypes
  <2> QED
    BY <2>1, <2>2, <2>3, <2>4, <2>5 DEF Next
<1> QED
  BY <1>2, KeptIsInv DEF Inv, Kept, TypeOK, MemoryTypeOK, LocalTypes, RunTypes

\* The inductive invariant of connector runs over the local memory.
THEOREM RuntimeInvariant == Spec => []Inv
  BY InitInv, NextInv, PTL DEF Spec

\* The types of files, indexes, calls, rewrites and runs.
THEOREM RuntimeTypeCorrect == Spec => []TypeOK
<1>1. Inv => TypeOK
  BY DEF Inv
<1> QED
  BY <1>1, RuntimeInvariant, PTL

\* A note is lost only where a write goes over a text it has not read.
THEOREM RuntimeNotesKept == Spec => []NotesKeptInTurn
<1>1. Inv => NotesKeptInTurn
  BY DEF Inv
<1> QED
  BY <1>1, RuntimeInvariant, PTL

\* What a call was told is stored is in the file of embeddings, whatever
\* rewrites overlap, fail or meet a load, unless one that a newer had overtaken
\* landed last; and in whatever order they land, what the process found in the
\* file is there, if it read the file before it first rewrote it.
THEOREM RuntimeEmbeddingsKept == Spec => []EmbeddingsKept
<1>1. Inv => EmbeddingsKept
  BY DEF Inv, StoreInv, EmbeddingsKept
<1> QED
  BY <1>1, RuntimeInvariant, PTL

(***************************************************************************)
(* What the process acknowledged it finds again.                           *)
(***************************************************************************)
\* A durable note is in the lexical index before its call succeeds, and only
\* core memory and a restart take anything out of the index.
FoundInv ==
  /\ acked \subseteq lexical
  /\ \A c \in Callers :
       At(c, "ok") /\ call[c].durable /\ call[c].id \in Notes => call[c].id \in lexical

\* A step of one call that takes no note out of the index.
LEMMA OneFound ==
  ASSUME FoundInv, LocalTypes, NEW c \in Callers,
         \A b \in Callers \ {c} : call'[b] = call[b],
         \A n \in Notes : n \in lexical => n \in lexical',
         acked' = acked \/ acked' \subseteq lexical',
         call'[c].pc = "ok" /\ call'[c].durable /\ call'[c].id \in Notes
           => call'[c].id \in lexical'
  PROVE  FoundInv'
<1>1. acked' \subseteq lexical'
  BY DEF FoundInv, LocalTypes
<1>2. \A b \in Callers : At(b, "ok")' /\ call'[b].durable /\ call'[b].id \in Notes
                           => call'[b].id \in lexical'
  BY DEF FoundInv, At
<1> QED
  BY <1>1, <1>2 DEF FoundInv

\* Every step of a caller keeps what it acknowledged.
LEMMA CallFound ==
  ASSUME Kept, FoundInv, NEW c \in Callers,
         \/ MemoryStep(c) \/ Recall(c) \/ Return(c)
         \/ \E m \in Inputs : Begin(c, m)
         \/ \E v \in Cores : UpdateCore(c, v)
  PROVE  FoundInv'
<1>1. LocalTypes /\ call[c] \in Calls /\ DOMAIN call = Callers
  BY DEF Kept, LocalTypes
<1>2. Idle.pc = "idle"
  BY DEF Idle
<1>3. \A b \in Callers \ {c} : call'[b] = call[b]
  BY <1>1 DEF MemoryStep, ReadNotes, ReadNotesFails, WriteNotes, LogEvent, Logged, FileFails, Fail,
    Embed, PersistIndex, LandIndex, EmbedFails, SwallowsError, IndexLexical, Hydrate, HydrateFails,
    Recall, Return, Begin, UpdateCore, CoreWritten, Go
<1>4. CASE IndexLexical(c)
  <2>1. call'[c].id = call[c].id
    BY <1>1, <1>4, GoTypes DEF IndexLexical, Steps
  <2>2. \A n \in Notes : n \in lexical => n \in lexical'
    BY <1>4, InputsAssumption DEF IndexLexical
  <2>3. call[c].id \in lexical' /\ acked' = acked
    BY <1>4 DEF IndexLexical, history
  <2> QED
    BY <1>1, <1>3, <2>1, <2>2, <2>3, OneFound
<1>5. CASE Return(c)
  <2>1. call'[c].pc = "idle" /\ lexical' = lexical
    BY <1>1, <1>2, <1>5 DEF Return
  <2>2. acked' \subseteq lexical
    BY <1>5 DEF Return, FoundInv
  <2> QED
    BY <1>1, <1>3, <2>1, <2>2, OneFound
<1>6. CASE ~IndexLexical(c) /\ ~Return(c)
  <2>1. lexical' = lexical /\ acked' = acked
    BY <1>6 DEF MemoryStep, ReadNotes, ReadNotesFails, WriteNotes, LogEvent, FileFails,
      Embed, PersistIndex, LandIndex, EmbedFails, Hydrate, HydrateFails,
      Recall, Begin, UpdateCore, history
  <2>2. call'[c].pc = "ok" => ~call'[c].durable
    <3>1. CASE LogEvent(c)
      <4>1. call'[c] = [call[c] EXCEPT !.pc = IF call[c].durable THEN "embed" ELSE "ok"]
        BY <1>1, <3>1 DEF LogEvent, Logged, Go
      <4> QED
        BY <1>1, <4>1 DEF Calls
    <3>2. CASE ~LogEvent(c)
      <4>1. \/ call'[c] = Idle
            \/ \E m \in Inputs : call'[c] = [pc |-> "read", id |-> m.id,
                 durable |-> ClassifyDurability(m), seen |-> <<>>]
            \/ \E v \in Cores : call'[c] = [pc |-> "log", id |-> v, durable |-> TRUE, seen |-> <<>>]
            \/ \E pc \in Steps \ {"ok"}, s \in {notes, <<>>, call[c].seen} :
                 call'[c] = [call[c] EXCEPT !.pc = pc, !.seen = s]
        <5>1. CASE ReadNotes(c) \/ ReadNotesFails(c) \/ WriteNotes(c)
          BY <1>1, <5>1 DEF ReadNotes, ReadNotesFails, WriteNotes, Steps
        <5>2. CASE \E pc \in Steps \ {"ok"} : Go(c, pc)
          <6>1. PICK pc \in Steps \ {"ok"} : Go(c, pc)
            BY <5>2
          <6>2. call'[c] = [call[c] EXCEPT !.pc = pc]
            BY <1>1, <6>1 DEF Go
          <6>3. call'[c] = [call[c] EXCEPT !.pc = pc, !.seen = call[c].seen]
            BY <1>1, <6>2 DEF Calls
          <6> QED
            BY <6>3
        <5>3. CASE Hydrate(c) \/ HydrateFails(c)
          BY <1>1, <5>3 DEF Hydrate, HydrateFails
        <5>4. CASE \E m \in Inputs : Begin(c, m)
          BY <1>1, <5>4 DEF Begin
        <5>5. CASE \E v \in Cores : UpdateCore(c, v)
          BY <1>1, <5>5 DEF UpdateCore, CoreWritten
        <5>6. \/ ReadNotes(c) \/ ReadNotesFails(c) \/ WriteNotes(c) \/ Hydrate(c) \/ HydrateFails(c)
              \/ \E pc \in Steps \ {"ok"} : Go(c, pc)
              \/ \E m \in Inputs : Begin(c, m)
              \/ \E v \in Cores : UpdateCore(c, v)
          BY <1>6, <3>2 DEF MemoryStep, FileFails, Fail, Embed, PersistIndex, LandIndex, EmbedFails,
            SwallowsError, Recall, Steps
        <5> QED
          BY <5>1, <5>2, <5>3, <5>4, <5>5, <5>6
      <4>2. ASSUME NEW pc \in Steps \ {"ok"}, NEW s, call'[c] = [call[c] EXCEPT !.pc = pc, !.seen = s]
            PROVE  call'[c].pc # "ok"
        BY <1>1, <4>2 DEF Calls
      <4>3. CASE \E pc \in Steps \ {"ok"}, s \in {notes, <<>>, call[c].seen} :
                   call'[c] = [call[c] EXCEPT !.pc = pc, !.seen = s]
        BY <4>2, <4>3
      <4>4. CASE \E m \in Inputs : call'[c] = [pc |-> "read", id |-> m.id,
                   durable |-> ClassifyDurability(m), seen |-> <<>>]
        BY <4>4
      <4>5. CASE \E v \in Cores :
                   call'[c] = [pc |-> "log", id |-> v, durable |-> TRUE, seen |-> <<>>]
        BY <4>5
      <4>6. CASE call'[c] = Idle
        BY <1>2, <4>6
      <4> QED
        BY <4>1, <4>3, <4>4, <4>5, <4>6
    <3> QED
      BY <3>1, <3>2
  <2> QED
    BY <1>1, <1>3, <2>1, <2>2, OneFound
<1> QED
  BY <1>4, <1>5, <1>6

\* Every step keeps what the process acknowledged, a restart forgets it.
LEMMA NextFound == Inv /\ FoundInv /\ [Next]_vars => FoundInv'
<1> SUFFICES ASSUME Inv, FoundInv, [Next]_vars PROVE FoundInv'
  OBVIOUS
<1>1. Kept
  BY KeptIsInv
<1>2. CASE UNCHANGED <<call, acked, lexical>>
  BY <1>2 DEF FoundInv, At
<1>3. CASE Restart
  BY <1>3 DEF Restart, FoundInv, At, Idle
<1>4. CASE \E c \in Callers :
             \/ MemoryStep(c) \/ Recall(c) \/ Return(c)
             \/ \E m \in Inputs : Begin(c, m)
             \/ \E v \in Cores : UpdateCore(c, v)
  BY <1>1, <1>4, CallFound
<1>5. CASE Running \/ IngestFails
  <2>1. CASE Start \/ End \/ IngestFails \/ \E m \in Records : Skip(m)
    BY <1>2, <2>1 DEF Start, End, IngestFails, Skip, memoryVars, history
  <2>2. CASE RecordDone \/ \E m \in Records : WriteRecord(m)
    BY <1>4, <2>2, RunnerAssumption, InputsAssumption DEF RecordDone, WriteRecord
  <2> QED
    BY <1>5, <2>1, <2>2 DEF Running
<1>6. CASE \E c \in Callers \ {Runner} : Direct(c)
  BY <1>4, <1>6 DEF Direct, WriteMemory
<1>7. CASE UNCHANGED vars
  BY <1>2, <1>7 DEF vars, memoryVars
<1> QED
  BY <1>3, <1>4, <1>5, <1>6, <1>7 DEF Next

\* An acknowledged durable memory is found by the process that wrote it, with
\* and without an embedder, also when its note was lost.
THEOREM RuntimeRecallFinds == Spec => []RecallFinds
<1>1. Init => FoundInv
  BY DEF Init, MemoryInit, FoundInv, At, Idle
<1>2. FoundInv => RecallFinds
  BY DEF FoundInv, RecallFinds, Recallable
<1> QED
  BY <1>1, <1>2, RuntimeInvariant, NextFound, PTL DEF Spec

(***************************************************************************)
(* How often a note is in notes.md.  A text is notes.md or what a caller   *)
(* has read of it.  A note is open as long as it may still be added to a   *)
(* text: a record until its event is logged, a memory of a direct call     *)
(* until it is written.  An open note is in a text at most as often as     *)
(* something failed; when it is added, it stops being open, and only a     *)
(* failure or a crash makes it open again.                                 *)
(***************************************************************************)
RecordIds == {m.id : m \in Records}

Open(id) ==
  IF id \in RecordIds
  THEN id \notin ToSet(ledger) /\ ~(At(Runner, "log") /\ call[Runner].id = id)
  ELSE id \notin given \/ \E c \in Callers \ {Runner} :
                            call[c].pc \in {"read", "write"} /\ call[c].id = id

Count(text, id) == Cardinality({i \in DOMAIN text : text[i] = id})

\* What n failures explain of a text.
Bounded(text, n, open) ==
  \A id \in Notes :
    /\ Count(text, id) <= 1 + n
    /\ id \in open => Count(text, id) <= n

OpenNotes == {id \in Notes : Open(id)}

Failures == fails + crashes

TextsInv ==
  /\ Bounded(notes, Failures, OpenNotes)
  /\ \A c \in Callers : Bounded(call[c].seen, Failures, OpenNotes)

\* The callers before their event is in the ledger.
Early(c) == call[c].pc \in {"read", "write", "log"}

\* Only the run writes records, one at a time, and none whose event is logged;
\* two direct calls never write one note.
AskedInv ==
  /\ run.pc # "wait" => At(Runner, "idle")
  /\ run.pc = "off" => run.todo = {}
  /\ Early(Runner) =>
       /\ call[Runner].id \in RecordIds
       /\ call[Runner].id \notin ToSet(ledger)
       /\ \A m \in run.todo : m.id # call[Runner].id
  /\ \A m \in run.todo : m.id \in run.known \/ m.id \notin ToSet(ledger)
  /\ \A c \in Callers \ {Runner} :
       Early(c) => call[c].id \in given /\ call[c].id \notin RecordIds
  /\ \A c, d \in Callers \ {Runner} :
       Early(c) /\ Early(d) /\ call[c].id = call[d].id => c = d

\* The indices of a text that hold a note are finitely many.
LEMMA CountFinite ==
  ASSUME NEW text \in Seq(Notes), NEW id
  PROVE  IsFiniteSet({i \in DOMAIN text : text[i] = id}) /\ Count(text, id) \in Nat
<1>1. IsFiniteSet(1 .. Len(text))
  BY FS_Interval
<1>2. {i \in DOMAIN text : text[i] = id} \subseteq 1 .. Len(text)
  OBVIOUS
<1>3. IsFiniteSet({i \in DOMAIN text : text[i] = id})
  BY <1>1, <1>2, FS_Subset
<1> QED
  BY <1>3, FS_CardinalityType DEF Count

\* The empty text holds no note.
LEMMA CountEmpty == \A id : Count(<< >>, id) = 0
<1> SUFFICES ASSUME NEW id PROVE Count(<< >>, id) = 0
  OBVIOUS
<1>1. {i \in DOMAIN << >> : << >>[i] = id} = {}
  OBVIOUS
<1> QED
  BY <1>1, FS_EmptySet DEF Count

\* A note at the end of a text counts once more.
LEMMA CountAppend ==
  ASSUME NEW text \in Seq(Notes), NEW x \in Notes, NEW id
  PROVE  Count(Append(text, x), id) = Count(text, id) + (IF x = id THEN 1 ELSE 0)
<1> DEFINE old == {i \in DOMAIN text : text[i] = id}
           new == {i \in DOMAIN Append(text, x) : Append(text, x)[i] = id}
<1>1. IsFiniteSet(old) /\ Cardinality(old) \in Nat
  BY CountFinite, FS_CardinalityType
<1>2. Len(text) + 1 \notin old
  OBVIOUS
<1>3. CASE x = id
  <2>1. new = old \cup {Len(text) + 1}
    BY <1>3
  <2>2. Cardinality(new) = Cardinality(old) + 1
    BY <1>1, <1>2, <2>1, FS_AddElement
  <2> QED
    BY <1>3, <2>2 DEF Count
<1>4. CASE x # id
  <2>1. new = old
    BY <1>4
  <2>2. Cardinality(new) = Cardinality(old)
    BY <2>1
  <2>3. Count(Append(text, x), id) = Cardinality(old) /\ Count(text, id) = Cardinality(old)
    BY <2>2 DEF Count
  <2> HIDE DEF old
  <2> QED
    BY <1>1, <1>4, <2>3
<1> QED
  BY <1>3, <1>4

\* The empty text needs no explanation.
LEMMA BoundedEmpty ==
  ASSUME NEW n \in Nat, NEW open
  PROVE  Bounded(<< >>, n, open)
  BY CountEmpty DEF Bounded

\* A text that stays stays explained, if each note that becomes open does so by
\* one failure more.
LEMMA BoundedLater ==
  ASSUME NEW text \in Seq(Notes), NEW n \in Nat, NEW later \in Nat,
         NEW open, NEW reopened, n <= later,
         \A id \in reopened : id \in open \/ n + 1 <= later,
         Bounded(text, n, open)
  PROVE  Bounded(text, later, reopened)
<1>1. \A id \in Notes : Count(text, id) \in Nat
  BY CountFinite
<1> QED
  BY <1>1 DEF Bounded

\* An open note is added, and is not open any more.
LEMMA BoundedAppend ==
  ASSUME NEW text \in Seq(Notes), NEW n \in Nat, NEW open, NEW rest, NEW x \in Notes,
         x \in open, x \notin rest, rest \subseteq open,
         Bounded(text, n, open)
  PROVE  Bounded(Append(text, x), n, rest)
<1>1. \A id \in Notes : Count(text, id) \in Nat
  BY CountFinite
<1>2. \A id \in Notes : Count(Append(text, x), id) = Count(text, id) + (IF x = id THEN 1 ELSE 0)
  BY CountAppend
<1> QED
  BY <1>1, <1>2 DEF Bounded

\* The texts have their types, and failures are counted.
LEMMA TextTypes ==
  ASSUME LocalTypes
  PROVE  /\ notes \in Seq(Notes) /\ \A c \in Callers : call[c].seen \in Seq(Notes)
         /\ Failures \in Nat /\ fails \in Nat /\ crashes \in Nat
         /\ OpenNotes \subseteq Notes
<1>1. fails \in Nat /\ crashes \in Nat
  BY InputsAssumption DEF LocalTypes
<1>2. \A c \in Callers : call[c].seen \in Seq(Notes)
  BY DEF LocalTypes, Calls
<1> QED
  BY <1>1, <1>2 DEF LocalTypes, Failures, OpenNotes

\* A step that adds no note to a text.
LEMMA TextsKept ==
  ASSUME LocalTypes, LocalTypes', TextsInv,
         notes' = notes,
         \A c \in Callers : \/ call'[c].seen = << >>
                            \/ call'[c].seen = notes
                            \/ call'[c].seen = call[c].seen,
         Failures <= Failures',
         \A id \in Notes : Open(id)' => Open(id) \/ Failures + 1 <= Failures'
  PROVE  TextsInv'
<1> DEFINE later == Failures'
           reopened == OpenNotes'
<1>1. later \in Nat /\ Failures \in Nat /\ Failures <= later
  <2>1. fails' \in Nat /\ crashes' \in Nat
    BY InputsAssumption DEF LocalTypes
  <2>2. Failures' \in Nat
    <3>1. \A m, n \in Nat : m + n \in Nat
      OBVIOUS
    <3> QED
      BY Zenon, <2>1, <3>1 DEF Failures
  <2>3. Failures \in Nat
    BY TextTypes
  <2> QED
    BY <2>2, <2>3
<1>2. \A id \in reopened : id \in OpenNotes \/ Failures + 1 <= later
  BY DEF OpenNotes
<1>3. \A text \in Seq(Notes) : Bounded(text, Failures, OpenNotes) => Bounded(text, later, reopened)
  <2> HIDE DEF later, reopened
  <2> QED
    BY <1>1, <1>2, BoundedLater
<1>4. Bounded(<< >>, later, reopened)
  <2> HIDE DEF later, reopened
  <2> QED
    BY <1>1, BoundedEmpty
<1>5. \A c \in Callers : call[c].seen \in Seq(Notes)
  BY TextTypes
<1>6. notes \in Seq(Notes)
  BY TextTypes
<1>7. Bounded(notes, later, reopened)
  <2> HIDE DEF later, reopened
  <2> QED
    BY <1>3, <1>6 DEF TextsInv
<1>8. \A c \in Callers : Bounded(call'[c].seen, later, reopened)
  <2> HIDE DEF later, reopened
  <2> QED
    BY <1>3, <1>4, <1>5, <1>7 DEF TextsInv
<1> QED
  BY <1>7, <1>8 DEF TextsInv

\* A call goes on, and neither its event nor a memory of its own begins.
LEMMA AskedOne ==
  ASSUME AskedInv, NEW c \in Callers,
         \A b \in Callers \ {c} : call'[b] = call[b],
         ledger' = ledger, given \subseteq given', run' = run,
         c = Runner => ~At(c, "idle"),
         call'[c].pc \in {"read", "write", "log"} => Early(c) /\ call'[c].id = call[c].id
  PROVE  AskedInv'
<1>1. (run.pc # "wait" => At(Runner, "idle"))'
  BY RunnerAssumption DEF AskedInv, At
<1>2. (Early(Runner) => /\ call[Runner].id \in RecordIds
                        /\ call[Runner].id \notin ToSet(ledger)
                        /\ \A m \in run.todo : m.id # call[Runner].id)'
  BY RunnerAssumption DEF AskedInv, Early
<1>3. \A b \in Callers \ {Runner} : Early(b)' => Early(b) /\ call'[b].id = call[b].id
  BY DEF Early
<1>4. (\A b \in Callers \ {Runner} :
         Early(b) => call[b].id \in given /\ call[b].id \notin RecordIds)'
  BY <1>3 DEF AskedInv
<1>5. (\A b, d \in Callers \ {Runner} :
         Early(b) /\ Early(d) /\ call[b].id = call[d].id => b = d)'
  BY <1>3 DEF AskedInv
<1> QED
  BY <1>1, <1>2, <1>4, <1>5 DEF AskedInv

\* The steps of a call that neither add a note nor log an event nor begin.
QuietStep(c) ==
  \/ ReadNotes(c) \/ ReadNotesFails(c) \/ FileFails(c)
  \/ Embed(c) \/ PersistIndex(c) \/ LandIndex(c) \/ EmbedFails(c) \/ IndexLexical(c)
  \/ Hydrate(c) \/ HydrateFails(c) \/ Recall(c) \/ Return(c)

\* What they do to the call; one that gives up its event counts as a failure.
LEMMA Quiet ==
  ASSUME LocalTypes, NEW c \in Callers, QuietStep(c)
  PROVE  /\ \A b \in Callers \ {c} : call'[b] = call[b]
         /\ UNCHANGED <<notes, ledger, given, crashes>>
         /\ fails' \in {fails, fails + 1}
         /\ At(c, "log") => fails' = fails + 1
         /\ call'[c].pc \in {"read", "write", "log"} =>
              call'[c].pc = "write" /\ At(c, "read") /\ call'[c].id = call[c].id
         /\ \/ call'[c].seen = << >> \/ call'[c].seen = notes \/ call'[c].seen = call[c].seen
<1>1. call[c] \in Calls /\ DOMAIN call = Callers
  BY DEF LocalTypes
<1>2. Idle.pc = "idle" /\ Idle.seen = << >>
  BY DEF Idle
<1>3. \A b \in Callers \ {c} : call'[b] = call[b]
  BY <1>1 DEF QuietStep, ReadNotes, ReadNotesFails, FileFails, Fail,
    Embed, PersistIndex, LandIndex, EmbedFails, SwallowsError, IndexLexical, Hydrate, HydrateFails,
    Recall, Return, Go
<1>4. UNCHANGED <<notes, ledger, given, crashes>> /\ fails' \in {fails, fails + 1}
  BY DEF QuietStep, ReadNotes, ReadNotesFails, FileFails, Fail,
    Embed, PersistIndex, LandIndex, EmbedFails, IndexLexical, Hydrate, HydrateFails,
    Recall, Return, fileVars
<1>5. At(c, "log") => fails' = fails + 1
  BY DEF QuietStep, ReadNotes, ReadNotesFails, FileFails, Fail, Waits, Lands,
    Embed, PersistIndex, LandIndex, EmbedFails, IndexLexical, Hydrate, HydrateFails,
    Recall, Return, At
<1>6. CASE ReadNotes(c) \/ ReadNotesFails(c)
  <2>1. PICK s \in {notes, << >>} : call'[c] = [call[c] EXCEPT !.pc = "write", !.seen = s]
    BY <1>1, <1>6 DEF ReadNotes, ReadNotesFails
  <2>2. call'[c].pc = "write" /\ call'[c].id = call[c].id /\ call'[c].seen = s
    BY <1>1, <2>1 DEF Calls
  <2>3. At(c, "read")
    BY <1>6 DEF ReadNotes, ReadNotesFails
  <2> QED
    BY <1>3, <1>4, <1>5, <2>2, <2>3
<1>7. CASE \E pc \in Steps \ {"read", "write", "log"} : Go(c, pc)
  <2>1. PICK pc \in Steps \ {"read", "write", "log"} : Go(c, pc)
    BY <1>7
  <2>2. call'[c] = [call[c] EXCEPT !.pc = pc]
    BY <1>1, <2>1 DEF Go
  <2>3. call'[c].pc = pc /\ call'[c].seen = call[c].seen
    BY <1>1, <2>2 DEF Calls
  <2> QED
    BY <1>3, <1>4, <1>5, <2>3
<1>8. CASE call' = [call EXCEPT ![c] = Idle]
  <2>1. call'[c] = Idle
    BY <1>1, <1>8
  <2> QED
    BY <1>2, <1>3, <1>4, <1>5, <2>1
<1>9. \/ ReadNotes(c) \/ ReadNotesFails(c) \/ call' = [call EXCEPT ![c] = Idle]
      \/ \E pc \in Steps \ {"read", "write", "log"} : Go(c, pc)
  BY DEF QuietStep, FileFails, Fail, Embed, PersistIndex, LandIndex, EmbedFails, SwallowsError,
    IndexLexical, Hydrate, HydrateFails, Recall, Return, Steps
<1> QED
  BY <1>6, <1>7, <1>8, <1>9

\* They keep the texts explained.
LEMMA QuietTexts ==
  ASSUME LocalTypes, LocalTypes', TextsInv, NEW c \in Callers, QuietStep(c)
  PROVE  TextsInv'
<1>1. /\ \A b \in Callers \ {c} : call'[b] = call[b]
      /\ UNCHANGED <<notes, ledger, given, crashes>>
      /\ fails' \in {fails, fails + 1}
      /\ At(c, "log") => fails' = fails + 1
      /\ call'[c].pc \in {"read", "write", "log"} =>
           call'[c].pc = "write" /\ At(c, "read") /\ call'[c].id = call[c].id
      /\ \/ call'[c].seen = << >> \/ call'[c].seen = notes \/ call'[c].seen = call[c].seen
  BY Quiet
<1>2. fails \in Nat /\ crashes \in Nat
  BY TextTypes
<1>3. Failures <= Failures' /\ (fails' = fails + 1 => Failures + 1 <= Failures')
  <2>1. Failures' = fails' + crashes
    BY <1>1 DEF Failures
  <2>2. fails' = fails \/ fails' = fails + 1
    BY <1>1
  <2> QED
    BY <1>2, <2>1, <2>2 DEF Failures
<1>4. ASSUME NEW id \in Notes, Open(id)' PROVE Open(id) \/ Failures + 1 <= Failures'
  <2>1. CASE id \in RecordIds
    BY <1>1, <1>3, <1>4, <2>1, RunnerAssumption DEF Open, At
  <2>2. CASE id \notin RecordIds
    BY <1>1, <1>4, <2>2 DEF Open, At
  <2> QED
    BY <2>1, <2>2
<1> QED
  BY <1>1, <1>3, <1>4, TextsKept

\* ... and, short of answers to the run, what was asked for.
LEMMA QuietAsked ==
  ASSUME LocalTypes, AskedInv, NEW c \in Callers, QuietStep(c),
         run' = run, c = Runner => ~At(c, "idle")
  PROVE  AskedInv'
<1>1. /\ \A b \in Callers \ {c} : call'[b] = call[b]
      /\ UNCHANGED <<notes, ledger, given, crashes>>
      /\ call'[c].pc \in {"read", "write", "log"} =>
           call'[c].pc = "write" /\ At(c, "read") /\ call'[c].id = call[c].id
  BY Quiet
<1> QED
  BY <1>1, AskedOne DEF Early, At

\* A note is added to what was read of the notes.
LEMMA WriteNotesTexts ==
  ASSUME Kept, LocalTypes', AskedInv, TextsInv, NEW c \in Callers, WriteNotes(c), run' = run
  PROVE  AskedInv' /\ TextsInv'
<1>0. /\ call[c] \in Calls /\ DOMAIN call = Callers
      /\ call[c].pc = "write" /\ call[c].id \in Notes /\ call[c].seen \in Seq(Notes)
  BY DEF Kept, CallInv, LocalTypes, Calls, WriteNotes, At
<1> PICK x \in Notes, text \in Seq(Notes) : x = call[c].id /\ text = call[c].seen
  BY <1>0
<1>1. /\ call[c] \in Calls /\ DOMAIN call = Callers
      /\ call[c].pc = "write" /\ x \in Notes /\ text \in Seq(Notes)
  BY <1>0
<1>2. call'[c] = [call[c] EXCEPT !.pc = "log", !.seen = << >>]
  BY <1>1 DEF WriteNotes
<1>3. /\ \A b \in Callers \ {c} : call'[b] = call[b]
      /\ call'[c].pc = "log" /\ call'[c].id = x /\ call'[c].seen = << >>
      /\ notes' = Append(text, x)
      /\ UNCHANGED <<ledger, given, fails, crashes>>
  BY <1>1, <1>2 DEF WriteNotes, Noted, Calls
<1>4. AskedInv'
  BY <1>1, <1>3, AskedOne DEF At, Early
<1>5. Open(x) /\ ~Open(x)' /\ \A id \in Notes : Open(id)' => Open(id)
  <2>1. CASE x \in RecordIds
    <3>1. c = Runner
      BY <1>1, <2>1 DEF AskedInv, Early
    <3>2. x \notin ToSet(ledger)
      BY <1>1, <3>1 DEF AskedInv, Early
    <3> QED
      BY <1>1, <1>3, <2>1, <3>1, <3>2 DEF Open, At
  <2>2. CASE x \notin RecordIds
    <3>1. c # Runner
      BY <1>1, <2>2 DEF AskedInv, Early
    <3>2. x \in given /\ \A d \in Callers \ {Runner, c} : Early(d) => call[d].id # x
      BY <1>1, <3>1 DEF AskedInv, Early
    <3>3. ~Open(x)'
      BY <1>3, <2>2, <3>1, <3>2 DEF Open, Early
    <3> QED
      BY <1>1, <1>3, <2>2, <3>1, <3>3, RunnerAssumption DEF Open, At
  <2> QED
    BY <2>1, <2>2
<1>6. Failures' = Failures /\ Failures \in Nat
  BY <1>3, TextTypes DEF Failures, Kept
<1> DEFINE rest == OpenNotes'
<1>7. x \in OpenNotes /\ x \notin rest /\ rest \subseteq OpenNotes
  BY <1>1, <1>5 DEF OpenNotes
<1>8. /\ Bounded(Append(text, x), Failures, rest)
      /\ Bounded(<< >>, Failures, rest)
      /\ \A b \in Callers : Bounded(call[b].seen, Failures, rest)
  <2>1. /\ Bounded(text, Failures, OpenNotes)
        /\ \A b \in Callers : Bounded(call[b].seen, Failures, OpenNotes)
        /\ \A b \in Callers : call[b].seen \in Seq(Notes)
    BY TextTypes DEF TextsInv, Kept
  <2> HIDE DEF rest
  <2>2. \A s \in Seq(Notes) : Bounded(s, Failures, OpenNotes) => Bounded(s, Failures, rest)
    BY <1>6, <1>7, BoundedLater
  <2> QED
    BY <1>1, <1>6, <1>7, <2>1, <2>2, BoundedAppend, BoundedEmpty
<1>9. TextsInv'
  <2>1. \A b \in Callers : Bounded(call'[b].seen, Failures, rest)
    BY <1>3, <1>8
  <2>2. Bounded(notes', Failures, rest)
    BY <1>3, <1>8
  <2> QED
    BY <1>6, <2>1, <2>2 DEF TextsInv
<1> QED
  BY <1>4, <1>9

\* An event is logged: one of the run's own records, or no record.
LEMMA LogEventTexts ==
  ASSUME Kept, RunTypes, LocalTypes', AskedInv, TextsInv, NEW c \in Callers, LogEvent(c), run' = run
  PROVE  AskedInv' /\ TextsInv'
<1>1. call[c] \in Calls /\ DOMAIN call = Callers /\ call[c].pc = "log" /\ call[c].id \in Docs
  BY DEF Kept, CallInv, LocalTypes, LogEvent, At
<1>2. PICK pc \in {"embed", "ok"} : call'[c] = [call[c] EXCEPT !.pc = pc]
  BY <1>1 DEF LogEvent, Logged, Go
<1>3. /\ \A b \in Callers \ {c} : call'[b] = call[b]
      /\ call'[c].pc = pc /\ call'[c].id = call[c].id /\ call'[c].seen = call[c].seen
      /\ UNCHANGED <<notes, given, fails, crashes>>
  BY <1>1, <1>2 DEF LogEvent, Logged, Go, Calls
<1>4. ToSet(ledger') = ToSet(ledger) \cup {call[c].id}
  <2>1. ledger \in Seq(Docs) /\ ledger' = Append(ledger, call[c].id)
    BY DEF LogEvent, Kept, LocalTypes
  <2>2. ASSUME NEW s \in Seq(Docs), NEW d \in Docs
        PROVE  ToSet(Append(s, d)) = ToSet(s) \cup {d}
    BY DEF ToSet
  <2> QED
    BY <1>1, <2>1, <2>2
<1>5. run.todo \subseteq Records
  BY DEF RunTypes
<1>6. \A b \in Callers : Early(b)' => b # c /\ Early(b) /\ call'[b] = call[b]
  BY <1>3 DEF Early
<1>7. c # Runner => call[c].id \notin RecordIds
  BY <1>1 DEF AskedInv, Early
<1>8. c = Runner => \A m \in run.todo : m.id # call[c].id
  BY <1>1 DEF AskedInv, Early
<1>9. AskedInv'
  <2>1. (run.pc # "wait" => At(Runner, "idle"))'
    BY <1>1, <1>3, RunnerAssumption DEF AskedInv, At
  <2>2. (Early(Runner) => /\ call[Runner].id \in RecordIds
                          /\ call[Runner].id \notin ToSet(ledger)
                          /\ \A m \in run.todo : m.id # call[Runner].id)'
    BY <1>4, <1>6, <1>7, RunnerAssumption DEF AskedInv
  <2>3. (\A m \in run.todo : m.id \in run.known \/ m.id \notin ToSet(ledger))'
    BY <1>4, <1>5, <1>7, <1>8 DEF AskedInv, RecordIds
  <2>4. (\A b \in Callers \ {Runner} :
           Early(b) => call[b].id \in given /\ call[b].id \notin RecordIds)'
    BY <1>3, <1>6 DEF AskedInv
  <2>5. (\A b, d \in Callers \ {Runner} :
           Early(b) /\ Early(d) /\ call[b].id = call[d].id => b = d)'
    BY <1>6 DEF AskedInv
  <2> QED
    BY <2>1, <2>2, <2>3, <2>4, <2>5 DEF AskedInv
<1>10. ASSUME NEW id \in Notes, Open(id)' PROVE Open(id)
  <2>1. CASE id \in RecordIds
    BY <1>3, <1>4, <1>10, <2>1, RunnerAssumption DEF Open, At
  <2>2. CASE id \notin RecordIds
    BY <1>3, <1>10, <2>2 DEF Open
  <2> QED
    BY <2>1, <2>2
<1>11. Failures' = Failures /\ Failures \in Nat
  BY <1>3, TextTypes DEF Failures, Kept
<1>12. Failures <= Failures'
  BY <1>11
<1> QED
  BY <1>3, <1>9, <1>10, <1>12, TextsKept DEF Kept

\* A direct call begins with an id that no call has used.
LEMMA DirectTexts ==
  ASSUME Kept, RunTypes, LocalTypes', AskedInv, TextsInv, NEW c \in Callers \ {Runner},
         NEW id \in Docs \ RecordIds, NEW pc \in {"read", "log"}, id \notin given,
         given' = given \cup {id},
         \A b \in Callers \ {c} : call'[b] = call[b],
         call'[c].pc = pc, call'[c].id = id, call'[c].seen = << >>,
         UNCHANGED <<notes, ledger, fails, crashes, run>>
  PROVE  AskedInv' /\ TextsInv'
<1>1. \A b \in Callers : Early(b)' => b = c \/ (Early(b) /\ call'[b] = call[b])
  BY DEF Early
<1>2. AskedInv'
  <2>1. (Early(Runner) => /\ call[Runner].id \in RecordIds
                          /\ call[Runner].id \notin ToSet(ledger)
                          /\ \A m \in run.todo : m.id # call[Runner].id)'
    BY <1>1, RunnerAssumption DEF AskedInv
  <2>2. (\A b \in Callers \ {Runner} :
           Early(b) => call[b].id \in given /\ call[b].id \notin RecordIds)'
    BY <1>1 DEF AskedInv
  <2>3. (\A b, d \in Callers \ {Runner} :
           Early(b) /\ Early(d) /\ call[b].id = call[d].id => b = d)'
    BY <1>1 DEF AskedInv
  <2> QED
    BY <2>1, <2>2, <2>3, RunnerAssumption DEF AskedInv, At
<1>3. ASSUME NEW n \in Notes, Open(n)' PROVE Open(n)
  <2>1. CASE n \in RecordIds
    BY <1>3, <2>1, RunnerAssumption DEF Open, At
  <2>2. CASE n \notin RecordIds
    BY <1>3, <2>2 DEF Open
  <2> QED
    BY <2>1, <2>2
<1>4. Failures' = Failures /\ Failures \in Nat
  BY TextTypes DEF Failures, Kept
<1>5. Failures <= Failures'
  BY <1>4
<1>6. \A b \in Callers : call'[b].seen = << >> \/ call'[b].seen = call[b].seen
  OBVIOUS
<1> QED
  BY <1>2, <1>3, <1>5, <1>6, TextsKept DEF Kept

\* The run begins to write a record that the ledger does not have.
LEMMA RecordTexts ==
  ASSUME Kept, RunTypes, LocalTypes', AskedInv, TextsInv, NEW m \in Records, WriteRecord(m)
  PROVE  AskedInv' /\ TextsInv'
<1>1. call[Runner].pc = "idle" /\ DOMAIN call = Callers
  BY DEF WriteRecord, AskedInv, At, Kept, LocalTypes
<1>2. /\ \A b \in Callers \ {Runner} : call'[b] = call[b]
      /\ call'[Runner].pc = "read" /\ call'[Runner].id = m.id /\ call'[Runner].seen = << >>
      /\ UNCHANGED <<notes, ledger, given, fails, crashes>>
  BY <1>1, RunnerAssumption DEF WriteRecord, Begin, fileVars
<1>3. /\ run' = [run EXCEPT !.pc = "wait", !.todo = @ \ {m}]
      /\ run'.pc = "wait" /\ run'.known = run.known /\ run'.todo = run.todo \ {m}
      /\ run.todo \subseteq Records
  BY DEF WriteRecord, RunTypes
<1>4. \A n \in run'.todo : n \in run.todo /\ n.id # m.id
  BY <1>3, InputsAssumption
<1>5. m.id \in RecordIds /\ m.id \notin ToSet(ledger)
  BY DEF WriteRecord, AskedInv, RecordIds
<1>6. AskedInv'
  <2>1. (Early(Runner) => /\ call[Runner].id \in RecordIds
                          /\ call[Runner].id \notin ToSet(ledger)
                          /\ \A n \in run.todo : n.id # call[Runner].id)'
    BY <1>2, <1>4, <1>5
  <2>2. (\A n \in run.todo : n.id \in run.known \/ n.id \notin ToSet(ledger))'
    BY <1>2, <1>3, <1>4 DEF AskedInv
  <2>3. (\A b \in Callers \ {Runner} :
           Early(b) => call[b].id \in given /\ call[b].id \notin RecordIds)'
    BY <1>2 DEF AskedInv, Early
  <2>4. (\A b, d \in Callers \ {Runner} :
           Early(b) /\ Early(d) /\ call[b].id = call[d].id => b = d)'
    BY <1>2 DEF AskedInv, Early
  <2> QED
    BY <1>3, <2>1, <2>2, <2>3, <2>4 DEF AskedInv
<1>7. ASSUME NEW n \in Notes, Open(n)' PROVE Open(n)
  <2>1. CASE n \in RecordIds
    BY <1>1, <1>2, <1>7, <2>1 DEF Open, At
  <2>2. CASE n \notin RecordIds
    BY <1>2, <1>7, <2>2 DEF Open
  <2> QED
    BY <2>1, <2>2
<1>8. Failures' = Failures /\ Failures \in Nat
  BY <1>2, TextTypes DEF Failures, Kept
<1>9. Failures <= Failures'
  BY <1>8
<1>10. \A b \in Callers : call'[b].seen = << >> \/ call'[b].seen = call[b].seen
  BY <1>2
<1> QED
  BY <1>2, <1>6, <1>7, <1>9, <1>10, TextsKept DEF Kept

\* The other steps of the run: between its writes, and when an answer comes.
LEMMA RunTexts ==
  ASSUME Kept, RunTypes, LocalTypes', AskedInv, TextsInv,
         \/ Start \/ End \/ RecordDone \/ IngestFails
         \/ \E m \in Records : Skip(m)
  PROVE  AskedInv' /\ TextsInv'
<1>1. CASE RecordDone
  <2>1. QuietStep(Runner) /\ LocalTypes
    BY <1>1 DEF RecordDone, QuietStep, Kept
  <2>2. TextsInv'
    BY <2>1, QuietTexts, RunnerAssumption
  <2>3. DOMAIN call = Callers /\ Idle.pc = "idle"
    BY DEF Kept, LocalTypes, Idle
  <2>4. /\ \A b \in Callers \ {Runner} : call'[b] = call[b]
        /\ call'[Runner].pc = "idle"
        /\ UNCHANGED <<ledger, given>>
    BY <1>1, <2>3, RunnerAssumption DEF RecordDone, Return, fileVars
  <2>5. run'.pc = "next" /\ run'.todo = run.todo /\ run.known \subseteq run'.known
    BY <1>1 DEF RecordDone, RunTypes
  <2>6. \A b \in Callers : Early(b)' => b # Runner /\ Early(b) /\ call'[b] = call[b]
    BY <2>4 DEF Early
  <2>7. AskedInv'
    BY <2>4, <2>5, <2>6, RunnerAssumption DEF AskedInv, At
  <2> QED
    BY <2>2, <2>7
<1>2. CASE Start \/ End \/ \E m \in Records : Skip(m)
  <2>1. UNCHANGED <<notes, ledger, given, call, fails, crashes>> /\ run.pc # "wait"
    BY <1>2 DEF Start, End, Skip, memoryVars
  <2>2. call[Runner].pc = "idle"
    BY <2>1 DEF AskedInv, At
  <2>3. /\ run'.pc = "off" => run'.todo = {}
        /\ \A m \in run'.todo : m.id \in run'.known \/ m.id \notin ToSet(ledger)
    BY <1>2, <2>1 DEF Start, End, Skip, Off, AskedInv, RunTypes, ExistingNoteIds
  <2>4. AskedInv'
    BY <2>1, <2>2, <2>3, RunnerAssumption DEF AskedInv, At, Early
  <2>5. TextsInv'
    BY <2>1 DEF TextsInv, OpenNotes, Open, Failures, At
  <2> QED
    BY <2>4, <2>5
<1>3. CASE IngestFails
  <2>1. UNCHANGED <<notes, ledger, given, call, crashes, run>> /\ fails' = fails + 1
    BY <1>3 DEF IngestFails, fileVars
  <2>2. AskedInv'
    BY <2>1 DEF AskedInv, At, Early
  <2>3. Failures' = Failures + 1 /\ Failures \in Nat
    <3>1. fails \in Nat /\ crashes \in Nat /\ Failures' = fails' + crashes
      BY <2>1, TextTypes DEF Failures, Kept
    <3> QED
      BY <2>1, <3>1 DEF Failures
  <2>4. Failures <= Failures' /\ Failures + 1 <= Failures'
    BY <2>3
  <2> QED
    BY <2>1, <2>2, <2>4, TextsKept DEF Kept
<1> QED
  BY <1>1, <1>2, <1>3

\* The process ends: what was under way may be written again.
LEMMA RestartTexts ==
  ASSUME Kept, LocalTypes', TextsInv, Restart, run' = Off
  PROVE  AskedInv' /\ TextsInv'
<1>1. /\ \A c \in Callers : call'[c].pc = "idle" /\ call'[c].seen = << >>
      /\ UNCHANGED <<notes, ledger, given, fails>> /\ crashes' = crashes + 1
  BY DEF Restart, Idle, fileVars
<1>2. AskedInv'
  BY <1>1, RunnerAssumption DEF AskedInv, At, Early, Off
<1>3. Failures' = Failures + 1 /\ Failures \in Nat
  <2>1. fails \in Nat /\ crashes \in Nat /\ Failures' = fails + crashes'
    BY <1>1, TextTypes DEF Failures, Kept
  <2> QED
    BY <1>1, <2>1 DEF Failures
<1>4. Failures <= Failures' /\ Failures + 1 <= Failures'
  BY <1>3
<1> QED
  BY <1>1, <1>2, <1>4, TextsKept DEF Kept

\* Every step keeps the texts explained.
LEMMA NextTexts == Inv /\ AskedInv /\ TextsInv /\ [Next]_vars => AskedInv' /\ TextsInv'
<1> SUFFICES ASSUME Inv, AskedInv, TextsInv, [Next]_vars PROVE AskedInv' /\ TextsInv'
  OBVIOUS
<1>1. Kept /\ RunTypes /\ LocalTypes
  BY KeptIsInv DEF RunTypes, Kept
<1>2. LocalTypes'
  BY NextInv DEF Inv, TypeOK, MemoryTypeOK, LocalTypes
<1>3. CASE Running \/ IngestFails
  BY <1>1, <1>2, <1>3, RunTexts, RecordTexts DEF Running
<1>4. CASE \E c \in Callers : MemoryStep(c) /\ UNCHANGED run
  <2>1. PICK c \in Callers : MemoryStep(c) /\ UNCHANGED run
    BY <1>4
  <2>2. CASE QuietStep(c) /\ ~At(c, "idle")
    BY <1>1, <1>2, <2>1, <2>2, QuietTexts, QuietAsked
  <2>3. ~At(c, "idle")
    BY <2>1 DEF MemoryStep, At, ReadNotes, ReadNotesFails, WriteNotes, LogEvent, FileFails,
      Embed, PersistIndex, LandIndex, Lands, Waits, EmbedFails, IndexLexical, Hydrate, HydrateFails
  <2>4. QuietStep(c) \/ WriteNotes(c) \/ LogEvent(c)
    BY <2>1 DEF MemoryStep, QuietStep
  <2> QED
    BY <1>1, <1>2, <2>1, <2>2, <2>3, <2>4, WriteNotesTexts, LogEventTexts
<1>5. CASE \E c \in Callers \ {Runner} : Direct(c) /\ UNCHANGED run
  <2>1. PICK c \in Callers \ {Runner} : Direct(c) /\ UNCHANGED run
    BY <1>5
  <2>2. DOMAIN call = Callers
    BY <1>1 DEF LocalTypes
  <2>3. CASE \E m \in Inputs \ Records : m.id \in Asks[c] /\ WriteMemory(c, m)
    <3>1. PICK m \in Inputs \ Records : WriteMemory(c, m)
      BY <2>3
    <3>2. m.id \in Docs \ RecordIds
      BY InputsAssumption DEF RecordIds
    <3>3. /\ m.id \notin given /\ given' = given \cup {m.id}
          /\ \A b \in Callers \ {c} : call'[b] = call[b]
          /\ call'[c].pc = "read" /\ call'[c].id = m.id /\ call'[c].seen = << >>
          /\ UNCHANGED <<notes, ledger, fails, crashes>>
      BY <2>2, <3>1 DEF WriteMemory, Begin, fileVars
    <3> QED
      BY <1>1, <1>2, <2>1, <3>2, <3>3, DirectTexts
  <2>4. CASE \E v \in Cores \cap Asks[c] : UpdateCore(c, v)
    <3>1. PICK v \in Cores : UpdateCore(c, v)
      BY <2>4
    <3>2. v \in Docs \ RecordIds
      BY InputsAssumption DEF RecordIds
    <3>3. /\ v \notin given /\ given' = given \cup {v}
          /\ \A b \in Callers \ {c} : call'[b] = call[b]
          /\ call'[c].pc = "log" /\ call'[c].id = v /\ call'[c].seen = << >>
          /\ UNCHANGED <<notes, ledger, fails, crashes>>
      BY <2>2, <3>1 DEF UpdateCore, CoreWritten
    <3> QED
      BY <1>1, <1>2, <2>1, <3>2, <3>3, DirectTexts
  <2>5. CASE Recall(c) \/ Return(c)
    <3>1. QuietStep(c)
      BY <2>5 DEF QuietStep
    <3> QED
      BY <1>1, <1>2, <2>1, <3>1, QuietTexts, QuietAsked
  <2> QED
    BY <2>1, <2>3, <2>4, <2>5 DEF Direct
<1>6. CASE Restart /\ run' = Off
  BY <1>1, <1>2, <1>6, RestartTexts
<1>7. CASE UNCHANGED vars
  BY <1>7 DEF vars, memoryVars, AskedInv, TextsInv, OpenNotes, Open, Failures, At, Early
<1> QED
  BY <1>3, <1>4, <1>5, <1>6, <1>7 DEF Next

\* Nothing is written yet.
LEMMA InitTexts == Init => AskedInv /\ TextsInv
<1> SUFFICES ASSUME Init PROVE AskedInv /\ TextsInv
  OBVIOUS
<1>1. AskedInv
  BY RunnerAssumption DEF Init, MemoryInit, AskedInv, Off, Idle, Early, At
<1>2. \A c \in Callers : call[c].seen = << >>
  BY DEF Init, MemoryInit, Idle
<1>3. Failures \in Nat /\ notes = << >>
  BY DEF Init, MemoryInit, Failures
<1>4. Bounded(<< >>, Failures, OpenNotes)
  BY <1>3, BoundedEmpty
<1>5. TextsInv
  BY <1>2, <1>3, <1>4 DEF TextsInv
<1> QED
  BY <1>1, <1>5

\* A note is in notes.md once, and once more for each failure and each crash,
\* whoever else writes: a record is written twice only after a run that broke off
\* between its note and its event.
THEOREM RuntimeDuplicatesExplained == Spec => []DuplicatesExplained
<1>1. Inv /\ TextsInv => DuplicatesExplained
  <2> SUFFICES ASSUME Inv, TextsInv, NEW id \in Notes PROVE Copies(id) <= 1 + fails + crashes
    BY DEF DuplicatesExplained
  <2>1. LocalTypes
    BY DEF Inv, TypeOK, MemoryTypeOK, LocalTypes
  <2>2. Copies(id) \in Nat /\ Copies(id) <= 1 + Failures
    BY <2>1, TextTypes, CountFinite DEF TextsInv, Bounded, Copies, Count
  <2>3. fails \in Nat /\ crashes \in Nat
    BY <2>1, TextTypes
  <2> QED
    BY <2>2, <2>3 DEF Failures
<1> QED
  BY <1>1, InitTexts, NextTexts, RuntimeInvariant, PTL DEF Spec
=============================================================================
