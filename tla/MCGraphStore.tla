---------------------------- MODULE MCGraphStore ----------------------------
(***************************************************************************)
(* Constants for checking GraphStore: two nodes with one label, of which   *)
(* callers upsert the first, a third with an alias that is the id of the   *)
(* second, and one that no merge touches.                                  *)
(***************************************************************************)
EXTENDS GraphStore, TLC

CONSTANTS c1, c2

FourNodes == 1..4
Labels    == 1 :> "L" @@ 2 :> "L" @@ 3 :> "M" @@ 4 :> "K"
Aliases   == 1 :> << >> @@ 2 :> << >> @@ 3 :> <<2>> @@ 4 :> << >>

Rel(x, y)        == [from |-> x, type |-> "rel", to |-> y]
Supersedes(x, y) == [from |-> x, type |-> "supersedes", to |-> y]

Facts == {Rel(1, 3)}

StoredNode(n) == [id |-> n, status |-> "active", aliases |-> Aliases[n], born |-> 0]

Stored1 ==
  [nodes |-> [i \in 1..3 |-> StoredNode(i + 1)],
   edges |-> [e \in {EdgeOf(Rel(3, 4)), EdgeOf(Supersedes(4, 2))} |-> "active"]]

OneOfEach == [nodes |-> 1, edges |-> 1]
=============================================================================
