--------------------------- MODULE MCGraphSearch ---------------------------
(***************************************************************************)
(* Constants for checking GraphSearch: a graph in which the cheap way from *)
(* 1 to 2 is longer than the dear one, one edge of it without direction;   *)
(* and edges that move, turn or weaken those of the graph.                 *)
(***************************************************************************)
EXTENDS GraphSearch

FourNodes == 1..4

Arrow(x, y, w) == [from |-> x, to |-> y, directed |-> TRUE, weight |-> w]
Link(x, y, w)  == [from |-> x, to |-> y, directed |-> FALSE, weight |-> w]

Detour    == <<Arrow(1, 2, 1), Arrow(1, 3, 4), Link(3, 2, 4), Arrow(2, 4, 4)>>
Bridge    == <<Link(2, 1, 4), Arrow(4, 2, 4)>>
Snapshots == {Detour, Bridge}
Segments  == Range(Detour) \union Range(Bridge) \union {Arrow(3, 4, 2), Link(4, 1, 1)}

Paths ==
  [kind : {"hops", "weight"}, direction : {"out", "both"}, depth : {2, 3}, from : {{1}}, to : {{4}}]

Expansions ==
  [kind : {"expand"}, direction : {"both", "in"}, depth : {1, 2}, from : {{4}, {1, 3}}, to : {{}}]

Queries == Paths \union Expansions
=============================================================================
