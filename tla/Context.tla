------------------------------- MODULE Context -------------------------------
(***************************************************************************)
(* tekmemo.context of the local strategy: compact and full briefings, and  *)
(* expansions of one section of an earlier briefing.  A briefing is a      *)
(* chain of awaits (the retired facts are collected, core memory and graph *)
(* read, recall searched, recent events read) that ends by packing the     *)
(* sections and, if compact, by putting what it found into the cache.      *)
(* Several calls run at a time, while facts are learned and retired.       *)
(*                                                                         *)
(* A fact is a graph node with its entry in the lexical index.  What core  *)
(* memory, the entities and the notes hold is of no consequence but for    *)
(* its size, which is any of Sizes where it is used.                       *)
(***************************************************************************)
EXTENDS ContextBudget, ContextCache, FiniteSets

CONSTANTS
  Caller,
  Fact,
  Rank,         \* the place of a fact in the ranking, the same for every query
  Query,        \* queries that do not resolve to the same terms
  Limits,       \* limits that callers give
  Budgets,      \* byte budgets that callers give
  Sizes,        \* of core memory, entities and notes
  RecallCap,    \* recall fragments in a compact briefing (3)
  RecentCap,    \* events in a compact briefing (3)
  MaxEvents,    \* events considered
  MaxLag,       \* how long a call takes between its search and its end
  Nil

\* The sections with a cursor.
Sections == {"entities", "recall", "recent", "notes"}

ASSUME ContextAssumption ==
  /\ Nil \notin Query /\ Nil \notin Sections
  /\ IsFiniteSet(Fact) /\ Rank \in [Fact -> Nat]
  /\ \A f, g \in Fact : Rank[f] = Rank[g] => f = g
  /\ Limits \subseteq Nat \ {0} /\ Budgets \subseteq Nat /\ Sizes \subseteq Nat
  /\ RecallCap \in Nat \ {0} /\ RecentCap \in Nat \ {0}
  /\ MaxEvents \in Nat /\ MaxLag \in Nat

VARIABLES
  facts,     \* "none", "active", "retired"
  retiredAt, \* history: time since a fact was retired
  events,    \* number of events in the ledger
  cache,
  promised,  \* what the last compact briefing of a query advertised
  call       \* what each caller is doing

vars == <<facts, retiredAt, events, cache, promised, call>>
memory == <<facts, retiredAt, events>>

\* A cursor names a cache key and a section.  It is good for any section, and as
\* long as its key is in the cache, whichever briefing put it there.
Promise == [recall : Nat, recent : Nat]

Idle == [pc |-> "idle", mode |-> "compact", key |-> Nil, limit |-> 0, retired |-> {},
         items |-> {}, recent |-> 0, lag |-> 0, section |-> Nil]

Init ==
  /\ facts = [f \in Fact |-> "none"]
  /\ retiredAt = [f \in Fact |-> 0]
  /\ events = 0
  /\ cache = << >>
  /\ promised = [q \in Query |-> Nil]
  /\ call = [c \in Caller |-> Idle]

At(c, pc) == call[c].pc = pc

Larger(m, n) == IF m < n THEN n ELSE m
Smaller(m, n) == IF m < n THEN m ELSE n

Compact(c) == call[c].mode = "compact"

\* The first n of a set of facts.
Top(S, n) == {f \in S : Cardinality({g \in S : Rank[g] < Rank[f]}) < n}

------------------------------------------------------------------------------
\* A fact is written, and its event.
Learn(f) ==
  /\ facts[f] # "active"
  /\ events < MaxEvents
  /\ facts' = [facts EXCEPT ![f] = "active"]
  /\ retiredAt' = [retiredAt EXCEPT ![f] = 0]
  /\ events' = events + 1
  /\ UNCHANGED <<cache, promised, call>>

\* Consolidation deprecates it.
Retire(f) ==
  /\ facts[f] = "active"
  /\ facts' = [facts EXCEPT ![f] = "retired"]
  /\ UNCHANGED <<retiredAt, events, cache, promised, call>>

HasSearched(c) == call[c].pc \in {"searched", "read"}

\* Time passes: for entries, for retired facts, for calls that have searched.
Tick ==
  /\ \A c \in Caller : HasSearched(c) => call[c].lag < MaxLag
  /\ cache' = Aged(cache)
  /\ retiredAt' = [f \in Fact |->
       IF facts[f] = "retired" /\ retiredAt[f] <= Ttl + MaxLag
         THEN retiredAt[f] + 1 ELSE retiredAt[f]]
  /\ call' = [c \in Caller |->
       IF HasSearched(c) THEN [call[c] EXCEPT !.lag = @ + 1] ELSE call[c]]
  /\ UNCHANGED <<facts, events, promised>>

------------------------------------------------------------------------------
\* A briefing begins: collectRetiredGraphDocIds.
Begin(c, mode, q, n) ==
  [Idle EXCEPT !.pc = "reading", !.mode = mode, !.key = q, !.limit = n,
               !.retired = {f \in Fact : facts[f] = "retired"}]

Ask(c, mode, q, n) ==
  /\ At(c, "idle")
  /\ call' = [call EXCEPT ![c] = Begin(c, mode, q, n)]
  /\ UNCHANGED <<memory, cache, promised>>

\* Recall, with core memory and graph read before it: the index gives the
\* first of the facts that are not retired now, and filterCandidates drops what
\* was retired when the call began.
RecallLimit(c) == IF Compact(c) THEN Larger(call[c].limit, RecallCap) ELSE call[c].limit

Found(c) == Top({f \in Fact : facts[f] = "active"}, RecallLimit(c)) \ call[c].retired

Search(c) ==
  /\ At(c, "reading")
  /\ \E found \in {Found(c), {}} :   \* or it fails, which is a warning
       call' = [call EXCEPT ![c].pc = "searched", ![c].items = found, ![c].retired = {}]
  /\ UNCHANGED <<memory, cache, promised>>

\* listRecentMemories, the last step that uses the limit.
RecentLimit(c) == IF Compact(c) THEN Larger(2 * RecentCap, call[c].limit) ELSE call[c].limit

ReadRecent(c) ==
  /\ At(c, "searched")
  /\ \E n \in {Smaller(events, RecentLimit(c)), 0} :
       call' = [call EXCEPT ![c].pc = "read", ![c].recent = n, ![c].limit = 0]
  /\ UNCHANGED <<memory, cache, promised>>

\* What a briefing shows of the recall and of the recent events it found.
Shown(found, cap, c) == IF Compact(c) THEN Smaller(found, cap) ELSE found

\* The sections of a briefing.
Rendered(c, core, entities, notes) ==
  <<Section("directive", 1)>> \o (IF core > 0 THEN <<Section("core", core)>> ELSE << >>) \o
  <<Section("entities", entities),
    Section("recall", Shown(Cardinality(call[c].items), RecallCap, c)),
    Section("recent", Shown(call[c].recent, RecentCap, c)),
    Section("notes", IF Compact(c) THEN 0 ELSE notes)>>

\* The fragments that are shown.
ShownItems(c) ==
  IF Compact(c) THEN Top(call[c].items, RecallCap) ELSE call[c].items

\* Variant: the cache keeps what was shown.
EntryShown(c) ==
  [key |-> call[c].key, age |-> 0, lag |-> call[c].lag,
   items |-> ShownItems(c), recent |-> call[c].recent]

\* The entry keeps everything that was found, shown or not.
EntryOf(c) ==
  [key |-> call[c].key, age |-> 0, lag |-> call[c].lag, items |-> call[c].items,
   recent |-> call[c].recent]

\* buildExpansionAffordances: what is behind the part that is shown.
Behind(found, cap) == IF found > cap THEN found ELSE 0

Affordances(c) ==
  [recall |-> Behind(Cardinality(call[c].items), RecallCap),
   recent |-> Behind(call[c].recent, RecentCap)]

\* The sections are packed (BudgetKept), and a compact briefing puts what it
\* found into the cache; nothing is awaited from here to the answer.
Deliver(c) ==
  /\ At(c, "read")
  /\ call' = [call EXCEPT ![c] =
       [Idle EXCEPT !.pc = "done", !.key = call[c].key, !.lag = call[c].lag,
          !.items = ShownItems(c)]]
  /\ IF Compact(c)
       THEN /\ cache' = AfterPut(cache, EntryOf(c))
            /\ promised' = [promised EXCEPT ![call[c].key] = Affordances(c)]
       ELSE UNCHANGED <<cache, promised>>
  /\ UNCHANGED memory

------------------------------------------------------------------------------
\* A section is expanded: from the entry, if it is still there, and at once
\* (entities and notes are read again, which changes nothing).
Expand(c, q, s) ==
  /\ At(c, "idle")
  /\ promised[q] # Nil
  /\ \E e \in Hits(cache, q) :
       call' = [call EXCEPT ![c] =
         [Idle EXCEPT !.pc = "done", !.key = q, !.section = s, !.lag = e.lag,
            !.items  = IF s = "recall" THEN e.items ELSE {},
            !.recent = IF s = "recent" THEN e.recent ELSE 0]]
  /\ cache' = AfterGet(cache, q)
  /\ UNCHANGED <<memory, promised>>

\* The entry is gone: a compact briefing of the query that came with the cursor.
ExpandMisses(c, q, asked, n) ==
  /\ At(c, "idle")
  /\ promised[q] # Nil
  /\ Hits(cache, q) = {}
  /\ cache' = AfterGet(cache, q)
  /\ call' = [call EXCEPT ![c] = Begin(c, "compact", asked, n)]
  /\ UNCHANGED <<memory, promised>>

\* The caller takes its answer.
Take(c) ==
  /\ At(c, "done")
  /\ call' = [call EXCEPT ![c] = Idle]
  /\ UNCHANGED <<memory, cache, promised>>

Next ==
  \/ Tick
  \/ \E f \in Fact : Learn(f) \/ Retire(f)
  \/ \E c \in Caller :
       \/ \E q \in Query, n \in Limits :
            \/ \E mode \in {"compact", "full"} : Ask(c, mode, q, n)
            \/ \E held \in Query : ExpandMisses(c, held, q, n)
       \/ \E q \in Query, s \in Sections : Expand(c, q, s)
       \/ Search(c) \/ ReadRecent(c) \/ Deliver(c) \/ Take(c)

Spec == Init /\ [][Next]_vars

------------------------------------------------------------------------------
Call == [pc : {"idle", "reading", "searched", "read", "done"},
         mode : {"compact", "full"}, key : Query \cup {Nil}, limit : Limits \cup {0},
         retired : SUBSET Fact, items : SUBSET Fact, recent : 0 .. MaxEvents,
         lag : 0 .. MaxLag, section : Sections \cup {Nil}]

Entry == [key : Query, age : 0 .. Ttl + 1, lag : 0 .. MaxLag, items : SUBSET Fact,
          recent : 0 .. MaxEvents]

\* The types; the cache has its size, and no key twice.
TypeOK ==
  /\ facts \in [Fact -> {"none", "active", "retired"}]
  /\ retiredAt \in [Fact -> 0 .. Ttl + MaxLag + 1]
  /\ events \in 0 .. MaxEvents
  /\ cache \in Seq(Entry) /\ Len(cache) <= MaxEntries
  /\ \A i, j \in DOMAIN cache : cache[i].key = cache[j].key => i = j
  /\ promised \in [Query -> Promise \cup {Nil}]
  /\ call \in [Caller -> Call]

\* What a compact briefing advertised and an expansion then finds in the cache is
\* all there: every fragment and every event that the briefing had found, however
\* the cache was used and filled meanwhile.  A briefing of the same query
\* replaces both (buildExpansionAffordances, expandContext).
PromiseKept ==
  [][\A c \in Caller : ~At(c, "done") /\ call'[c].pc = "done" =>
       LET answer  == call'[c]
           promise == promised[answer.key]
       IN  /\ answer.section = "recall" /\ promise.recall > 0
                => Cardinality(answer.items) = promise.recall
           /\ answer.section = "recent" /\ promise.recent > 0
                => answer.recent = promise.recent]_vars

\* A retired fact is not served for longer than the time a call takes after its
\* search, and by an expansion for the life of an entry more, however often the
\* entry is used ("the cache is a fast-re-resolve optimization, not state").
RetiredFactsFade ==
  [][\A c \in Caller : ~At(c, "done") /\ call'[c].pc = "done" =>
       \A f \in call'[c].items :
         facts[f] = "retired" =>
           retiredAt[f] <= call'[c].lag + IF call'[c].section = Nil THEN 0 ELSE Ttl]_vars

\* "The rendered text never exceeds maxBytes" (allocateBudget), as far as it is
\* so: if directive and core fit, and no share is too small for a heading and a
\* notice, whatever the sizes of the sections.  The lines with the cursors come
\* on top of it.
BudgetKept ==
  \A c \in Caller : At(c, "read") =>
    \A core, entities, notes \in Sizes, max \in Budgets :
      LET b == AllocateBudget(Rendered(c, core, entities, notes), max)
      IN  b.roomy => b.used <= max
==============================================================================
