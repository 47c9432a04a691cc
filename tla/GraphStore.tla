----------------------------- MODULE GraphStore -----------------------------
(***************************************************************************)
(* FsGraphStore (packages/tekmemo/src/graph/store/fs-graph-store.ts) over  *)
(* an in-memory graph and two files, and the calls of the local strategy   *)
(* that change it: upserts and consolidation (applyConsolidation).         *)
(*                                                                         *)
(* Calls of one process interleave at every await.  Every change rewrites  *)
(* nodes.jsonl and then edges.jsonl, as a whole, from a copy of the graph  *)
(* in memory.  The store's write awaits its advisory lock before it queues *)
(* for the path, so the writes of calls that overlap land in any order: an *)
(* older copy may replace a newer one.  A first call hydrates the graph,   *)
(* and goes on when that fails.  The process may crash at any time and     *)
(* start again.                                                            *)
(***************************************************************************)
EXTENDS KnowledgeGraph

CONSTANTS
  Caller,      \* calls the process has under way at once
  Stored,      \* the graph that an earlier process left in the files
  MaxUpserts,  \* bound: upserts of nodes, and of edges
  MaxClock,    \* bound: times at which nodes are created
  MaxCrashes,  \* bound: crashes
  MaxPasses    \* bound: passes of consolidation after a crash

Entry == [id : Node, status : Status, aliases : Seq(Node), born : 0 .. MaxClock]

\* Nodes and edges are well formed; no id occurs twice, no edge is a loop.
GraphOK(g) ==
  /\ g.nodes \in Seq(Entry)
  /\ \A i, j \in DOMAIN g.nodes : g.nodes[i].id = g.nodes[j].id => i = j
  /\ DOMAIN g.edges \subseteq Edge
  /\ \A e \in DOMAIN g.edges : g.edges[e] \in Status /\ e.from # e.to

ASSUME StoreAssumption ==
  /\ MaxClock \in Nat
  /\ GraphOK(Stored) /\ Stored = [nodes |-> Stored.nodes, edges |-> Stored.edges]

VARIABLES
  memory,      \* the graph in memory
  disk,        \* the graph in the two files
  hydrated,    \* FsGraphStore.hydrated
  bootstrapped,\* the local strategy's flag
  call,        \* call[c]: step, graph read, plan, and what is persisted
  clock, upserts, crashes, passes,
  acked,       \* history: facts whose upsert returned
  absorbed,    \* history: pairs of nodes that were merged
  raced,       \* history: a call went on while another hydrated, or set an
               \* edge of a node that a merge was about to drop
  torn,        \* history: a start found files that do not fit together, or
               \* edges that an older write had left
  broken,      \* history: a merge failed when it had removed edges
  before,      \* history: pairs of calls that save; the first exported earlier
  overtaken,   \* history: <<c, file>> where a later export is in the file that
               \* c has yet to write
  behind       \* history: the files that were last written from such an export

landings == <<before, overtaken, behind>>
history == <<acked, absorbed, raced, torn, broken>>
bounds  == <<clock, upserts, crashes, passes>>
vars == <<memory, disk, hydrated, bootstrapped, call, bounds, history, landings>>

NoFact == [from |-> 0, type |-> "rel", to |-> 0]
Idle == [step |-> "idle", next |-> "idle", read |-> EmptyGraph, merges |-> << >>,
         edges |-> {}, nodes |-> {}, fact |-> NoFact]
New  == [Idle EXCEPT !.step = "new"]

Init ==
  /\ memory = EmptyGraph /\ disk = Stored
  /\ hydrated = FALSE /\ bootstrapped = FALSE
  /\ call = [c \in Caller |-> New]
  /\ clock = 1 /\ upserts = [nodes |-> 0, edges |-> 0] /\ crashes = 0 /\ passes = 0
  /\ acked = {FactOf(e) : e \in DOMAIN Stored.edges}
  /\ absorbed = {} /\ raced = FALSE /\ torn = FALSE /\ broken = FALSE
  /\ before = {} /\ overtaken = {} /\ behind = {}

At(c, step)   == call[c].step = step
Becomes(c, r) == call' = [call EXCEPT ![c] = r]
Goto(c, step) == Becomes(c, [call[c] EXCEPT !.step = step])
Persist(c, next) == Becomes(c, [call[c] EXCEPT !.step = "export", !.next = next])
Done(c) == Becomes(c, Idle)

Hydrating == \E c \in Caller : call[c].step \in {"hydrateNodes", "hydrateEdges"}

-----------------------------------------------------------------------------
\* ensureReady.

Ready(c) ==
  /\ At(c, "new") /\ bootstrapped
  /\ Done(c)
  /\ raced' = (raced \/ Hydrating)
  /\ UNCHANGED <<memory, disk, hydrated, bootstrapped, bounds, acked, absorbed, torn, broken, landings>>

\* Only the first call loads; another returns although the load still runs.
HydrateStart(c) ==
  /\ At(c, "new") /\ ~bootstrapped
  /\ hydrated' = TRUE
  /\ IF hydrated
     THEN /\ Done(c)
          /\ bootstrapped' = TRUE
          /\ raced' = (raced \/ Hydrating)
     ELSE /\ Goto(c, "hydrateNodes")
          /\ UNCHANGED <<bootstrapped, raced>>
  /\ UNCHANGED <<memory, disk, bounds, acked, absorbed, torn, broken, landings>>

HydrateNodes(c) ==
  /\ At(c, "hydrateNodes")
  /\ Becomes(c, [call[c] EXCEPT !.step = "hydrateEdges", !.read = [@ EXCEPT !.nodes = disk.nodes]])
  /\ UNCHANGED <<memory, disk, hydrated, bootstrapped, bounds, history, landings>>

\* The import replaces the graph in memory, or fails, which ensureReady ignores.
HydrateEdges(c) ==
  LET read == [call[c].read EXCEPT !.edges = disk.edges] IN
  /\ At(c, "hydrateEdges")
  /\ memory' = IF read # EmptyGraph /\ Attached(read) THEN read ELSE memory
  /\ torn' = (torn \/ ~Attached(read))
  /\ bootstrapped' = TRUE
  /\ Done(c)
  /\ UNCHANGED <<disk, hydrated, bounds, acked, absorbed, raced, broken, landings>>

-----------------------------------------------------------------------------
\* persist.

Writes(c) == call[c].step \in {"writeNodes", "writeEdges"}

\* c has yet to write file.
Pending(c, file) == At(c, "writeNodes") \/ (At(c, "writeEdges") /\ file = "edges")

\* c's copy is in the file: older ones that are yet to be written are outdated.
Land(c, file) ==
  LET older == {d \in Caller : <<d, c>> \in before /\ Pending(d, file)} IN
  /\ overtaken' = (overtaken \ {<<c, file>>}) \union {<<d, file>> : d \in older}
  /\ behind' = IF <<c, file>> \in overtaken THEN behind \union {file} ELSE behind \ {file}

Export(c) ==
  /\ At(c, "export")
  /\ Becomes(c, [call[c] EXCEPT !.step = "writeNodes", !.read = memory])
  /\ before' = before \union {<<d, c>> : d \in {x \in Caller : Writes(x)}}
  /\ UNCHANGED <<memory, disk, hydrated, bootstrapped, bounds, history, overtaken, behind>>

WriteNodes(c) ==
  /\ At(c, "writeNodes")
  /\ disk' = [disk EXCEPT !.nodes = call[c].read.nodes]
  /\ Land(c, "nodes")
  /\ Goto(c, "writeEdges")
  /\ UNCHANGED <<memory, hydrated, bootstrapped, bounds, history, before>>

WriteEdges(c) ==
  /\ At(c, "writeEdges")
  /\ disk' = [disk EXCEPT !.edges = call[c].read.edges]
  /\ Land(c, "edges")
  /\ before' = {p \in before : c \notin {p[1], p[2]}}
  /\ Becomes(c, [call[c] EXCEPT !.step = call[c].next, !.read = EmptyGraph])
  /\ UNCHANGED <<memory, hydrated, bootstrapped, bounds, history>>

-----------------------------------------------------------------------------
\* upsertNodes and upsertEdges.

StartNode(c, n) ==
  /\ At(c, "idle") /\ upserts.nodes < MaxUpserts.nodes
  /\ upserts' = [upserts EXCEPT !.nodes = @ + 1]
  /\ clock' \in {clock, clock + 1} /\ clock' <= MaxClock
  /\ memory' = [memory EXCEPT !.nodes = UpsertNode(@, n, clock')]
  /\ Persist(c, "idle")
  /\ UNCHANGED <<disk, hydrated, bootstrapped, crashes, passes, history, landings>>

\* Some edge of es ends at a node that a merge drops after its await.
TooLate(es) ==
  \E c \in Caller : At(c, "drop") /\ \E e \in es : Head(call[c].merges).source \in Ends(e)

\* Variant: the call returns without a save.
ReturnUnsaved(c, f) == Becomes(c, [call[c] EXCEPT !.step = "ack", !.fact = f])

SaveAndReturn(c, f) ==
  Becomes(c, [call[c] EXCEPT !.step = "export", !.next = "ack", !.fact = f])

StartEdge(c, f) ==
  /\ At(c, "idle") /\ upserts.edges < MaxUpserts.edges
  /\ Ends(f) \subseteq NodeIds(memory.nodes)
  /\ upserts' = [upserts EXCEPT !.edges = @ + 1]
  /\ memory' = [memory EXCEPT !.edges = UpsertEdge(memory, EdgeOf(f))]
  /\ SaveAndReturn(c, f)
  /\ raced' = (raced \/ TooLate({f}))
  /\ UNCHANGED <<disk, hydrated, bootstrapped, clock, crashes, passes, acked, absorbed, torn, broken, landings>>

Acknowledge(c) ==
  /\ At(c, "ack")
  /\ acked' = acked \union {call[c].fact}
  /\ Done(c)
  /\ UNCHANGED <<memory, disk, hydrated, bootstrapped, bounds, absorbed, raced, torn, broken, landings>>

-----------------------------------------------------------------------------
\* consolidateMemory: two queries, then the merges, the edges, the nodes.

Consolidate(c) ==
  /\ At(c, "idle")
  /\ IF crashes = 0 THEN UNCHANGED passes ELSE passes < MaxPasses /\ passes' = passes + 1
  /\ Becomes(c, [call[c] EXCEPT !.step = "plan", !.merges = FindDuplicateMerges(memory.nodes)])
  /\ UNCHANGED <<memory, disk, hydrated, bootstrapped, clock, upserts, crashes, history, landings>>

Plan(c) ==
  /\ At(c, "plan")
  /\ Becomes(c, [call[c] EXCEPT !.step = "merge", !.edges = Retired(memory),
                                !.nodes = Superseded(memory)])
  /\ UNCHANGED <<memory, disk, hydrated, bootstrapped, bounds, history, landings>>

\* A merge that cannot be done is skipped.  When its edges do not fit, those it
\* removed before it failed are gone.
SkipMerge(c) ==
  LET m == Head(call[c].merges) IN
  /\ At(c, "merge") /\ call[c].merges # << >>
  /\ \/ ~Mergeable(memory, m.source, m.target) /\ UNCHANGED <<memory, broken>>
     \/ /\ Mergeable(memory, m.source, m.target) /\ ~MovesFit(memory, m.source, m.target)
        /\ memory' = Detached(memory, m.source, m.target)
        /\ broken' = TRUE
  /\ Becomes(c, [call[c] EXCEPT !.merges = Tail(@)])
  /\ UNCHANGED <<disk, hydrated, bootstrapped, bounds, acked, absorbed, raced, torn, landings>>

\* Variant: the next merge follows, and nothing is saved.
NextMergeUnsaved(c) == Becomes(c, [call[c] EXCEPT !.merges = Tail(@), !.step = "merge"])

\* A merge is done: it is saved, and the next one follows.
NextMerge(c) ==
  Becomes(c, [call[c] EXCEPT !.step = "export", !.next = "merge", !.merges = Tail(@)])

\* mergeNodes, up to its await where it moved edges.
MergeNodes(c) ==
  LET m     == Head(call[c].merges)
      moved == MovedEdges(memory, m.source, m.target) IN
  /\ At(c, "merge") /\ call[c].merges # << >>
  /\ Mergeable(memory, m.source, m.target)
  /\ MovesFit(memory, m.source, m.target)
  /\ absorbed' = absorbed \union {{m.source, m.target}}
  /\ IF moved # {}
     THEN /\ memory' = Merged(memory, m.source, m.target)
          /\ Goto(c, "drop")
     ELSE /\ memory' = [Merged(memory, m.source, m.target) EXCEPT !.nodes = RemoveNode(@, m.source)]
          /\ NextMerge(c)
  /\ raced' = (raced \/ TooLate({MovedEdge(e, m.source, m.target) : e \in moved}))
  /\ UNCHANGED <<disk, hydrated, bootstrapped, bounds, acked, torn, broken, landings>>

DropSource(c) ==
  /\ At(c, "drop")
  /\ memory' = [memory EXCEPT !.nodes = RemoveNode(@, Head(call[c].merges).source)]
  /\ NextMerge(c)
  /\ UNCHANGED <<disk, hydrated, bootstrapped, bounds, history, landings>>

\* The edges that still exist are read, here all at one time, and written back
\* as deprecated.
ReadEdges(c) ==
  LET found == call[c].edges \intersect DOMAIN memory.edges IN
  /\ At(c, "merge") /\ call[c].merges = << >>
  /\ Becomes(c, [call[c] EXCEPT !.step = "retireEdges", !.edges = found])
  /\ UNCHANGED <<memory, disk, hydrated, bootstrapped, bounds, history, landings>>

RetireEdges(c) ==
  LET es == call[c].edges
      fits == \A e \in es : Ends(e) \subseteq NodeIds(memory.nodes) IN
  /\ At(c, "retireEdges")
  /\ IF es # {} /\ fits
     THEN /\ memory' = [memory EXCEPT !.edges = SetEdges(memory, [e \in es |-> "deprecated"])]
          /\ Persist(c, "readNodes")
          /\ raced' = (raced \/ TooLate(es))
     ELSE /\ Goto(c, "readNodes")
          /\ UNCHANGED <<memory, raced>>
  /\ UNCHANGED <<disk, hydrated, bootstrapped, bounds, acked, absorbed, torn, broken, landings>>

ReadNodes(c) ==
  /\ At(c, "readNodes")
  /\ Becomes(c, [call[c] EXCEPT !.step = "retireNodes",
        !.read = [@ EXCEPT !.nodes = NodesOf(memory.nodes, call[c].nodes)]])
  /\ UNCHANGED <<memory, disk, hydrated, bootstrapped, bounds, history, landings>>

\* upsertNodes adds a node again that was dropped meanwhile.
RetireNodes(c) ==
  LET patches == call[c].read.nodes IN
  /\ At(c, "retireNodes")
  /\ IF patches # << >>
     THEN /\ memory' = [memory EXCEPT !.nodes = RetireAll(@, patches)]
          /\ Becomes(c, [Idle EXCEPT !.step = "export"])
     ELSE /\ Done(c)
          /\ UNCHANGED memory
  /\ UNCHANGED <<disk, hydrated, bootstrapped, bounds, history, landings>>

-----------------------------------------------------------------------------
Crash ==
  /\ crashes < MaxCrashes
  /\ crashes' = crashes + 1
  /\ memory' = EmptyGraph
  /\ hydrated' = FALSE /\ bootstrapped' = FALSE
  /\ call' = [c \in Caller |-> New]
  /\ before' = {} /\ overtaken' = {} /\ behind' = {}
  /\ torn' = (torn \/ "edges" \in behind)
  /\ UNCHANGED <<disk, clock, upserts, passes, acked, absorbed, raced, broken>>

Boot(c)    == Ready(c) \/ HydrateStart(c) \/ HydrateNodes(c) \/ HydrateEdges(c)
Save(c)    == Export(c) \/ WriteNodes(c) \/ WriteEdges(c)
Upsert(c)  == (\E n \in NewNode : StartNode(c, n)) \/ (\E f \in Fact : StartEdge(c, f))
Apply(c) ==
  \/ Plan(c) \/ SkipMerge(c) \/ MergeNodes(c) \/ DropSource(c)
  \/ ReadEdges(c) \/ RetireEdges(c) \/ ReadNodes(c) \/ RetireNodes(c)

\* A call that was started goes on.
Continue(c) == Boot(c) \/ Save(c) \/ Acknowledge(c) \/ Apply(c)

Next ==
  \/ \E c \in Caller : Continue(c) \/ Upsert(c) \/ Consolidate(c)
  \/ Crash

Spec     == Init /\ [][Next]_vars
FairSpec == Spec /\ \A c \in Caller : WF_vars(Continue(c))
-----------------------------------------------------------------------------
Files == {"nodes", "edges"}
Steps == {"new", "hydrateNodes", "hydrateEdges", "idle", "export", "writeNodes", "writeEdges",
          "ack", "plan", "merge", "drop", "retireEdges", "readNodes", "retireNodes"}

\* Every variable has its type; the graphs are well formed.
TypeOK ==
  /\ GraphOK(memory) /\ GraphOK(disk)
  /\ hydrated \in BOOLEAN /\ bootstrapped \in BOOLEAN
  /\ \A c \in Caller :
       /\ call[c].step \in Steps /\ call[c].next \in Steps
       /\ call[c].edges \subseteq Edge /\ call[c].nodes \subseteq Node
  /\ before \subseteq Caller \X Caller
  /\ overtaken \subseteq Caller \X Files /\ behind \subseteq Files
  /\ acked \subseteq Triple

\* While no call overtakes a hydration or a merge, every edge in memory has its
\* two nodes, whatever merges, upserts and retirements run side by side: what
\* importSnapshot demands of the files at the next start.
EdgesAttached == ~raced => Attached(memory)

Loaded == hydrated /\ ~Hydrating

\* Nodes that merges have made one, as far as anyone can tell.
SameEntity(x, y) ==
  \/ x = y
  \/ \A S \in SUBSET Node :
       x \in S /\ (\A p \in absorbed : p \intersect S # {} => p \subseteq S) => y \in S

Kept(f) ==
  \/ SameEntity(f.from, f.to)
  \/ \E e \in DOMAIN memory.edges :
       e.type = f.type /\ SameEntity(e.from, f.from) /\ SameEntity(e.to, f.to)

\* Consolidation retires facts and never deletes them (consolidate.ts), and
\* restarts keep them: a fact whose upsert returned is still there, between
\* the nodes that its ends were merged into, whatever order the saves of several
\* calls land in and wherever a crash falls, unless a merge broke off, or the next
\* start finds files that do not fit, or edges that an overtaken save left.
FactsKept == Loaded /\ ~raced /\ ~torn /\ ~broken => \A f \in acked : Kept(f)

\* The same, whatever is found at the start: the graph "survives restarts"
\* (local-strategy.ts).  The code does not keep it.
FactsSurvive == Loaded /\ ~raced /\ ~broken => \A f \in acked : Kept(f)

Saving(c) == call[c].step \in {"drop", "export", "writeNodes", "writeEdges"}

\* When nobody saves, each file holds what memory holds, unless the last write of
\* it was overtaken: no change goes unsaved, and one save that is not overtaken
\* mends what others left behind.  A merge that broke off is not saved.
DiskFollows ==
  Loaded /\ ~raced /\ ~torn /\ ~broken /\ (\A c \in Caller : ~Saving(c)) =>
    \A file \in Files \ behind : disk[file] = memory[file]

\* Without that exception: persist leaves in the files what memory holds.  The
\* code does not keep it.
DiskCurrent ==
  Loaded /\ ~raced /\ ~torn /\ ~broken /\ (\A c \in Caller : ~Saving(c)) => disk = memory

Active(ns) == {x \in ToSet(ns) : x.status = "active"}

\* No facts about superseded nodes, and no two active nodes with one label or one
\* the alias of the other.
Settled ==
  LET gone == Superseded(memory)
      now  == Active(memory.nodes) IN
  /\ \A e \in ActiveEdges(memory) : e.type = "supersedes" \/ Ends(e) \intersect gone = {}
  /\ \A x \in now : x.id \notin gone
  /\ \A x, y \in now : x # y => LabelOf[x.id] # LabelOf[y.id] /\ y.id \notin ToSet(x.aliases)

\* "The graph converges over successive passes" (applyConsolidation), although
\* one pass skips merges and retirements that its own merges outdated: when
\* passes never cease, the graph settles, unless an edge lost its node.
Converges ==
  []<>(\E c \in Caller : At(c, "plan")) => <>[](~Attached(memory) \/ Settled)
=============================================================================
