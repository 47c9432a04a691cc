--------------------------- MODULE KnowledgeGraph ---------------------------
(***************************************************************************)
(* The graph of packages/tekmemo/src/graph as a value: what one call of    *)
(* InMemoryGraphStore makes of it, and what consolidateGraph proposes.     *)
(*                                                                         *)
(* A graph has a sequence of nodes, in the order of the store's Map, and a *)
(* function from edges to their status.  stableEdgeId hashes end points,   *)
(* type and dedupe key, so an edge here is that tuple itself; collisions   *)
(* of the 32-bit hash are left out.  Texts, weights, scores and metadata   *)
(* are left out; aliases are those that are ids of nodes.                  *)
(***************************************************************************)
EXTENDS Naturals, SequencesExt

CONSTANTS
  Node,      \* ids of nodes; numbers, compared as localeCompare compares ids
  LabelOf,   \* the canonical label of a node
  AliasesOf, \* the aliases an upsert of the node carries
  NewNode,   \* the nodes that callers upsert
  Fact,      \* the triples that callers upsert as edges
  NoKey      \* the dedupe key of an edge that has none

Status   == {"active", "deprecated"}
EdgeType == {"rel", "supersedes"}
Triple   == [from : Node, type : EdgeType, to : Node]
Edge     == [from : Node, type : EdgeType, to : Node, key : Triple \union {NoKey}]

EdgeOf(f) == [from |-> f.from, type |-> f.type, to |-> f.to, key |-> NoKey]
FactOf(e) == [from |-> e.from, type |-> e.type, to |-> e.to]
Ends(e)   == {e.from, e.to}

EmptyGraph == [nodes |-> << >>, edges |-> << >>]

NodeIds(ns) == {ns[i].id : i \in DOMAIN ns}
NodeOf(ns, n) == CHOOSE x \in ToSet(ns) : x.id = n

\* Variant: the entry of the map is not found again.
SetNodeAgain(ns, x) == Append(ns, x)

\* Map.set: an entry keeps its place.
SetNode(ns, x) ==
  IF x.id \in NodeIds(ns)
  THEN [i \in DOMAIN ns |-> IF ns[i].id = x.id THEN x ELSE ns[i]]
  ELSE Append(ns, x)

\* Map.delete: an id has one entry.
RemoveNode(ns, n) ==
  IF n \in NodeIds(ns) THEN RemoveAt(ns, CHOOSE i \in DOMAIN ns : ns[i].id = n) ELSE ns

\* In the functions below, upTo[i] is what the entries before the i-th make.

UniqueStrings(s) ==
  LET upTo[i \in 1 .. Len(s) + 1] ==
        IF i = 1 THEN << >>
        ELSE IF Contains(upTo[i - 1], s[i - 1]) THEN upTo[i - 1]
        ELSE Append(upTo[i - 1], s[i - 1])
  IN  upTo[Len(s) + 1]

\* The nodes with these ids.
NodesOf(ns, ids) ==
  LET upTo[i \in 1 .. Len(ns) + 1] ==
        IF i = 1 THEN << >>
        ELSE IF ns[i - 1].id \in ids THEN Append(upTo[i - 1], ns[i - 1])
        ELSE upTo[i - 1]
  IN  upTo[Len(ns) + 1]

\* normalizeNode: what the input leaves open comes from the existing node.
UpsertNode(ns, n, now) ==
  SetNode(ns,
    IF n \in NodeIds(ns)
    THEN [NodeOf(ns, n) EXCEPT !.aliases = UniqueStrings(@ \o AliasesOf[n])]
    ELSE [id |-> n, status |-> "active", aliases |-> AliasesOf[n], born |-> now])

\* The node is deprecated as it was read; aliases it got since are kept.
RetireNode(ns, x) ==
  LET now == IF x.id \in NodeIds(ns) THEN NodeOf(ns, x.id).aliases ELSE << >> IN
  SetNode(ns, [x EXCEPT !.status = "deprecated", !.aliases = UniqueStrings(now \o @)])

RetireAll(ns, patches) ==
  LET upTo[i \in 1 .. Len(patches) + 1] ==
        IF i = 1 THEN ns ELSE RetireNode(upTo[i - 1], patches[i - 1])
  IN  upTo[Len(patches) + 1]

\* Edges of g and of es, those of es with their new status.
SetEdges(g, es) ==
  [e \in DOMAIN es \union DOMAIN g.edges |-> IF e \in DOMAIN es THEN es[e] ELSE g.edges[e]]

UpsertEdge(g, e) ==
  SetEdges(g, [x \in {e} |-> IF x \in DOMAIN g.edges THEN g.edges[x] ELSE "active"])

\* What importSnapshot and upsertEdges demand: no edge whose end is missing.
Attached(g) == \A e \in DOMAIN g.edges : Ends(e) \subseteq NodeIds(g.nodes)

ASSUME GraphAssumption ==
  /\ Node \subseteq Nat /\ NewNode \subseteq Node
  /\ AliasesOf \in [Node -> Seq(Node)]
  /\ Fact \subseteq Triple
  /\ \A f \in Fact : f.from # f.to
  /\ NoKey \notin Triple

-----------------------------------------------------------------------------
\* mergeNodes(s into t).

\* Variant: edges into the source stay.
TouchingOut(g, s) == {e \in DOMAIN g.edges : e.from = s}

Touching(g, s) == {e \in DOMAIN g.edges : s \in Ends(e)}

MovedEdge(e, s, t) ==
  LET to(n) == IF n = s THEN t ELSE n IN
  [from |-> to(e.from), type |-> e.type, to |-> to(e.to),
   key  |-> IF e.key = NoKey THEN FactOf(e) ELSE e.key]

\* The edges to move: an edge between the two nodes would become a self edge.
MovedEdges(g, s, t) == {e \in Touching(g, s) : Ends(e) # {s, t}}

\* Both nodes exist, and are two.
Mergeable(g, s, t) == s # t /\ {s, t} \subseteq NodeIds(g.nodes)

\* upsertEdges accepts the batch: known ends, and no id twice.
MovesFit(g, s, t) ==
  LET moved == MovedEdges(g, s, t) IN
  /\ \A e \in moved : Ends(MovedEdge(e, s, t)) \subseteq NodeIds(g.nodes)
  /\ \A e, f \in moved : MovedEdge(e, s, t) = MovedEdge(f, s, t) => e = f

AbsorbNode(ns, s, t) ==
  SetNode(ns, [NodeOf(ns, t) EXCEPT !.aliases = UniqueStrings(@ \o NodeOf(ns, s).aliases)])

\* The graph without the source's edges, and with them moved to the target.
Detached(g, s, t) ==
  [nodes |-> AbsorbNode(g.nodes, s, t),
   edges |-> Restrict(g.edges, DOMAIN g.edges \ Touching(g, s))]

Merged(g, s, t) ==
  LET moved    == MovedEdges(g, s, t)
      rest     == Detached(g, s, t)
      statusOf == [x \in {MovedEdge(e, s, t) : e \in moved} |->
                     g.edges[CHOOSE e \in moved : MovedEdge(e, s, t) = x]] IN
  [rest EXCEPT !.edges = SetEdges(rest, statusOf)]

-----------------------------------------------------------------------------
\* consolidateGraph.

Before(x, y) == x.born < y.born \/ (x.born = y.born /\ x.id < y.id)

\* The node created first survives.
OrderPair(x, y) == IF x.born <= y.born THEN <<x, y>> ELSE <<y, x>>

Sources(ms) == {ms[i].source : i \in DOMAIN ms}

\* Node c has the id of another active node among its aliases.
AliasMerge(ns, c, ms, a) ==
  IF a \in NodeIds(ns) \ ({c.id} \union Sources(ms))
  THEN LET pair == OrderPair(NodeOf(ns, a), c) IN
       Append(ms, [source |-> pair[2].id, target |-> pair[1].id])
  ELSE ms

AliasMerges(ns) ==
  FoldLeft(LAMBDA ms, c : FoldLeft(LAMBDA acc, a : AliasMerge(ns, c, acc, a), ms, c.aliases),
           << >>, ns)

\* Nodes with a label that an earlier node has are absorbed by the first such node.
LabelMerges(ns) ==
  LET Same(x, y) == LabelOf[x.id] = LabelOf[y.id]
      First(x)   == CHOOSE y \in ToSet(ns) :
                      /\ Same(x, y)
                      /\ \A z \in ToSet(ns) : Same(x, z) => ~Before(z, y)
      later      == SetToSortSeq({x \in ToSet(ns) : First(x) # x}, Before) IN
  [i \in DOMAIN later |-> [source |-> later[i].id, target |-> First(later[i]).id]]

FindDuplicateMerges(ns) ==
  LET active  == SelectSeq(ns, LAMBDA x : x.status = "active")
      byAlias == AliasMerges(active) IN
  byAlias \o LabelMerges(SelectSeq(active, LAMBDA x : x.id \notin Sources(byAlias)))

ActiveEdges(g) == {e \in DOMAIN g.edges : g.edges[e] = "active"}

Superseded(g) == {e.to : e \in {x \in ActiveEdges(g) : x.type = "supersedes"}}

\* Variant: only the edges into a superseded node.
RetiredInto(g) ==
  {e \in ActiveEdges(g) : e.type # "supersedes" /\ e.to \in Superseded(g)}

\* The facts to retire: active, about a superseded node, and not the superseding edge.
\* (An edge whose own id is the end of a supersedes edge does not occur here.)
Retired(g) ==
  {e \in ActiveEdges(g) : e.type # "supersedes" /\ Ends(e) \intersect Superseded(g) # {}}
=============================================================================
