---------------------------- MODULE GraphSearch ----------------------------
(***************************************************************************)
(* InMemoryGraphStore (packages/tekmemo/src/graph/store) with its indexes, *)
(* and the searches over it: fewestHopsPath, weightedShortestPath and      *)
(* expandFromEntities.  A search awaits the neighbours of every node it    *)
(* visits; other calls change the graph in between.                        *)
(*                                                                         *)
(* Edges have the id their caller gave, so an upsert may give an edge      *)
(* other ends.  The index by type has the shape of the other two and is    *)
(* left out, as are the filters of a query, limits, and mergeNodes, which  *)
(* is in KnowledgeGraph.                                                   *)
(***************************************************************************)
EXTENDS Naturals, FiniteSetsExt, SequencesExt

CONSTANTS
  NodeId, EdgeId,
  Segment,    \* the edges that callers write
  Snapshot,   \* what an import left: functions from ids to edges
  Unit,       \* weight 1
  MinWeight,  \* weights below are deleted by a decay
  Query,      \* the searches that callers ask for
  MaxChanges  \* bound: changes of the graph

ASSUME SearchAssumption ==
  /\ IsFiniteSet(NodeId) /\ Unit \in Nat /\ MinWeight \in Nat
  /\ MaxChanges \in Nat
  /\ Segment \subseteq [from : NodeId, to : NodeId, directed : BOOLEAN, weight : 0..Unit]
  /\ \A e \in Segment : e.from # e.to
  /\ Query \subseteq [kind : {"hops", "weight", "expand"}, direction : {"out", "in", "both"},
                       depth : Nat, from : SUBSET NodeId, to : SUBSET NodeId]
  /\ \A q \in Query : IF q.kind = "expand" THEN q.to = {}
                      ELSE Cardinality(q.from) = 1 /\ Cardinality(q.to) = 1
  /\ \A g \in Snapshot : DOMAIN g \subseteq EdgeId /\ Range(g) \subseteq Segment

VARIABLES
  nodes, edges,       \* the two maps
  outgoing, incoming, \* the indexes: node to ids of edges
  search,             \* the search under way
  changes,
  disturbed           \* history: the graph changed since the search began

graph      == <<nodes, edges, outgoing, incoming>>
searchVars == <<graph, search, changes, disturbed>>

\* Nodes under which an edge is found: both, if it has no direction.
OutKeys(e) == IF e.directed THEN {e.from} ELSE {e.from, e.to}
InKeys(e)  == IF e.directed THEN {e.to} ELSE {e.from, e.to}

\* removeEdge, of each of ids: the entries of the edge as it is, and the edge.
Without(g, ids) ==
  [edges |-> Restrict(g.edges, DOMAIN g.edges \ ids),
   out   |-> [n \in NodeId |-> {id \in g.out[n] : ~(id \in ids /\ n \in OutKeys(g.edges[id]))}],
   in    |-> [n \in NodeId |-> {id \in g.in[n] : ~(id \in ids /\ n \in InKeys(g.edges[id]))}]]

\* indexEdge, of each of es, a function from ids.
Indexed(g, es) ==
  [edges |-> [id \in DOMAIN g.edges \union DOMAIN es |->
                IF id \in DOMAIN es THEN es[id] ELSE g.edges[id]],
   out   |-> [n \in NodeId |-> g.out[n] \union {id \in DOMAIN es : n \in OutKeys(es[id])}],
   in    |-> [n \in NodeId |-> g.in[n] \union {id \in DOMAIN es : n \in InKeys(es[id])}]]

\* setEdge, of each of es: the entries of the edge that had the id go first.
With(g, es) == Indexed(Without(g, DOMAIN es \intersect DOMAIN g.edges), es)

Bare    == [edges |-> << >>, out |-> [n \in NodeId |-> {}], in |-> [n \in NodeId |-> {}]]
Current == [edges |-> edges, out |-> outgoing, in |-> incoming]

\* importSnapshot.
Imported(s) == With(Bare, s)

NoSearch == [step |-> "none", kind |-> "hops", direction |-> "out", depth |-> 0,
             from |-> {}, to |-> {}, queue |-> << >>, best |-> << >>, seen |-> {}, path |-> {}]

SearchInit ==
  /\ nodes = NodeId
  /\ \E s \in Snapshot :
       LET g == Imported(s) IN edges = g.edges /\ outgoing = g.out /\ incoming = g.in
  /\ search = NoSearch /\ changes = 0 /\ disturbed = FALSE

-----------------------------------------------------------------------------
\* Changes of the graph; each runs without an await.

Become(g) == edges' = g.edges /\ outgoing' = g.out /\ incoming' = g.in

Change ==
  /\ changes < MaxChanges
  /\ changes' = changes + 1
  /\ disturbed' = TRUE
  /\ UNCHANGED search

UpsertNodes(n) ==
  /\ Change
  /\ nodes' = nodes \union {n}
  /\ UNCHANGED <<edges, outgoing, incoming>>

UpsertEdges(id, e) ==
  /\ Change
  /\ {e.from, e.to} \subseteq nodes
  /\ Become(With(Current, [i \in {id} |-> e]))
  /\ UNCHANGED nodes

DeleteEdge(id) ==
  /\ Change
  /\ id \in DOMAIN edges
  /\ Become(Without(Current, {id}))
  /\ UNCHANGED nodes

\* With its edges, as the indexes know them; or not at all if it has some.
DeleteNode(n, cascadeEdges) ==
  LET connected == outgoing[n] \union incoming[n] IN
  /\ Change
  /\ n \in nodes
  /\ cascadeEdges \/ connected = {}
  /\ nodes' = nodes \ {n}
  /\ Become(Without(Current, connected \intersect DOMAIN edges))

\* Weights are halved; those of Segment are such that this leaves whole numbers.
DecayEdges ==
  LET faded  == {id \in DOMAIN edges : edges[id].weight < 2 * MinWeight}
      halved == [id \in DOMAIN edges \ faded |-> [edges[id] EXCEPT !.weight = @ \div 2]] IN
  /\ Change
  /\ Become(With(Without(Current, faded), halved))
  /\ UNCHANGED nodes

Clear ==
  /\ Change
  /\ nodes' = {}
  /\ Become(Bare)

-----------------------------------------------------------------------------
\* neighbors.

\* The far ends of an edge from n in a direction.
Candidates(e, n, direction) ==
  {m \in {e.from, e.to} :
     \/ m = e.to   /\ e.from = n /\ (direction # "in"  \/ ~e.directed)
     \/ m = e.from /\ e.to = n   /\ (direction # "out" \/ ~e.directed)}

NeighborEdgeIds(n, direction) ==
  (IF direction = "in" THEN {} ELSE outgoing[n]) \union (IF direction = "out" THEN {} ELSE incoming[n])

\* Each neighbour with the cost of an edge to it.
Neighbors(n, direction) ==
  UNION {{[node |-> m, cost |-> Unit - edges[id].weight] :
             m \in Candidates(edges[id], n, direction) \intersect nodes} :
          id \in NeighborEdgeIds(n, direction) \intersect DOMAIN edges}

-----------------------------------------------------------------------------
\* Searches.  The queue has a node with the cost and the length of the path to
\* it; the weight of that path is its length less its cost.  best has the nodes
\* that were queued, with the lowest cost so far.

Item(n, cost, depth) == [node |-> n, cost |-> cost, depth |-> depth]

\* Paths have ends that exist; an expansion may have seeds that do not.
StartSearch(q) ==
  /\ search.step = "none"
  /\ q.kind = "expand" \/ q.from \union q.to \subseteq nodes
  /\ \E order \in SetToSeqs(q.from) :
       search' = [step |-> "run", kind |-> q.kind, direction |-> q.direction, depth |-> q.depth,
                  from |-> q.from, to |-> q.to,
                  queue |-> [i \in DOMAIN order |-> Item(order[i], 0, 0)],
                  best |-> [n \in q.from |-> 0], seen |-> q.from \intersect nodes, path |-> {}]
  /\ disturbed' = FALSE
  /\ UNCHANGED <<graph, changes>>

\* The order of the weighted queue: cost, then weight, hence length.
Sooner(x, y) == x.cost < y.cost \/ (x.cost = y.cost /\ x.depth > y.depth)

\* Variant: the queue is not sorted.
InArrival(q, i) == i = 1

\* What is shifted next; sorting leaves equals in an order that does not matter.
InOrder(q, i) ==
  IF search.kind = "weight" THEN \A j \in DOMAIN q : ~Sooner(q[j], q[i]) ELSE i = 1

\* The neighbours to queue, with the cost of the path to them: new ones, and for
\* the weighted search those reached at a lower cost.  Of two edges to one node
\* the cheaper counts; what the other one queues is outdated at once.
Reached(x) ==
  LET found   == Neighbors(x.node, search.direction)
      cost(m) == x.cost + Min({f.cost : f \in {g \in found : g.node = m}})
      new     == {f.node : f \in found} \ DOMAIN search.best
      better  == {m \in {f.node : f \in found} \ new : cost(m) < search.best[m]} IN
  IF search.kind = "weight" THEN [m \in new \union better |-> cost(m)] ELSE [m \in new |-> 0]

Turn(i) == search.step = "run" /\ i \in DOMAIN search.queue /\ InOrder(search.queue, i)
Outdated(x) == x.cost > search.best[x.node]
AtTarget(x) == x.node \in search.to
TooDeep(x)  == x.depth >= search.depth
Finish(step, path) == search' = [search EXCEPT !.step = step, !.path = path, !.queue = << >>]

SkipItem(i) ==
  LET x == search.queue[i] IN
  /\ Turn(i)
  /\ Outdated(x) \/ (~AtTarget(x) /\ TooDeep(x))
  /\ search' = [search EXCEPT !.queue = RemoveAt(@, i)]
  /\ UNCHANGED <<graph, changes, disturbed>>

Arrive(i) ==
  LET x == search.queue[i] IN
  /\ Turn(i)
  /\ ~Outdated(x) /\ AtTarget(x)
  /\ Finish("done", {x})
  /\ UNCHANGED <<graph, changes, disturbed>>

\* neighbors reads the graph, and throws if the node is gone.  What it found is
\* queued after an await, which changes nothing of it.
Expand(i) ==
  LET x       == search.queue[i]
      reached == Reached(x) IN
  /\ Turn(i)
  /\ ~Outdated(x) /\ ~AtTarget(x) /\ ~TooDeep(x)
  /\ IF x.node \notin nodes THEN Finish("failed", {})
     ELSE \E order \in SetToSeqs(DOMAIN reached) :
            search' = [search EXCEPT
              !.queue = RemoveAt(@, i) \o
                        [k \in DOMAIN order |-> Item(order[k], reached[order[k]], x.depth + 1)],
              !.best = [m \in DOMAIN @ \union DOMAIN reached |->
                          IF m \in DOMAIN reached THEN reached[m] ELSE @[m]],
              !.seen = @ \union DOMAIN reached]
  /\ UNCHANGED <<graph, changes, disturbed>>

RunDry ==
  /\ search.step = "run" /\ search.queue = << >>
  /\ Finish("done", {})
  /\ UNCHANGED <<graph, changes, disturbed>>

Write ==
  \/ \E n \in NodeId : UpsertNodes(n) \/ DeleteNode(n, TRUE) \/ DeleteNode(n, FALSE)
  \/ \E id \in EdgeId : DeleteEdge(id) \/ \E e \in Segment : UpsertEdges(id, e)
  \/ DecayEdges \/ Clear

Search ==
  \/ \E q \in Query : StartSearch(q)
  \/ \E i \in DOMAIN search.queue : SkipItem(i) \/ Arrive(i) \/ Expand(i)
  \/ RunDry

SearchNext == Write \/ Search
SearchSpec == SearchInit /\ [][SearchNext]_searchVars

-----------------------------------------------------------------------------
\* Every edge has its two nodes and is found under exactly the nodes it should
\* be, after any sequence of upserts that move an edge, decays and deletions,
\* which find the edges to remove by the indexes alone (deleteNode).
IndexesAgree ==
  /\ \A id \in DOMAIN edges : {edges[id].from, edges[id].to} \subseteq nodes
  /\ \A n \in NodeId :
       /\ outgoing[n] = {id \in DOMAIN edges : n \in OutKeys(edges[id])}
       /\ incoming[n] = {id \in DOMAIN edges : n \in InKeys(edges[id])}

\* Reference: edges as they may be walked, without indexes, queue or order.
Leads(e, n, m, direction) ==
  \/ e.directed /\ direction # "in"  /\ n = e.from /\ m = e.to
  \/ e.directed /\ direction # "out" /\ n = e.to /\ m = e.from
  \/ ~e.directed /\ {n, m} = {e.from, e.to}

Arcs(direction) ==
  {a \in [from : nodes, to : nodes, cost : 0..Unit] :
     \E id \in DOMAIN edges : /\ Leads(edges[id], a.from, a.to, direction)
                              /\ a.cost = Unit - edges[id].weight}

\* Nodes, and those one edge on.
Around(S, direction) == S \union {a.to : a \in {b \in Arcs(direction) : b.from \in S}}

\* The nodes within k edges of S, for any k.
Within(S, direction) ==
  LET within[k \in Nat] == IF k = 0 THEN S ELSE Around(within[k - 1], direction) IN within

\* Of labels, those with the lowest cost of their node.
Cheapest(labels) == {x \in labels : \A y \in labels : y.node = x.node => x.cost <= y.cost}

\* Labels, and those one edge on.
Onward(labels, direction) ==
  labels \union UNION {{[node |-> a.to, cost |-> x.cost + a.cost] :
                          a \in {b \in Arcs(direction) : b.from = x.node}} : x \in labels}

\* The lowest cost of a walk of at most k edges from S to each node it reaches.
Costs(S, direction) ==
  LET costs[k \in Nat] ==
        IF k = 0 THEN {[node |-> n, cost |-> 0] : n \in S}
        ELSE Cheapest(Onward(costs[k - 1], direction))
  IN costs

Calm == search.step # "none" /\ ~disturbed

\* Of a graph that nobody changes meanwhile: a path with the fewest hops is
\* found if there is one within the depth, an expansion sees just the nodes
\* within its depth, and a path of least cost is found if the depth admits
\* every path, whatever order neighbours come in.  Only a seed that does not
\* exist makes a search fail.
SearchesAreRight ==
  Calm /\ search.step \in {"done", "failed"} =>
    LET within   == Within(search.from, search.direction)
        hops(n)  == Min({k \in 0..search.depth : n \in within[k]})
        cheapest == Costs(search.from, search.direction)[search.depth]
    IN \/ search.step = "failed" /\ search.kind = "expand" /\ ~(search.from \subseteq nodes)
       \/ /\ search.step = "done" /\ search.kind = "expand"
          /\ search.seen = within[search.depth] \intersect nodes
       \/ /\ search.step = "done" /\ search.kind = "hops"
          /\ IF search.to \subseteq within[search.depth]
             THEN \E x \in search.path : x.node \in search.to /\ x.depth = hops(x.node)
             ELSE search.path = {}
       \/ /\ search.step = "done" /\ search.kind = "weight"
          /\ search.depth >= Cardinality(nodes) - 1 =>
               {[node |-> x.node, cost |-> x.cost] : x \in search.path} =
                 {c \in cheapest : c.node \in search.to}

\* The weighted search finds a path within its depth if there is one.  The code
\* does not keep it: a node reached first by a cheap path is not queued again
\* for a dearer and shorter one, also if only that leaves depth to go on.
WeightedFindsPath ==
  Calm /\ search.step = "done" /\ search.kind = "weight" =>
    (search.to \subseteq Within(search.from, search.direction)[search.depth] <=> search.path # {})
=============================================================================
