---------------------------- MODULE MCConnectors ----------------------------
(***************************************************************************)
(* A connector with one record, next to a caller that writes a decision    *)
(* and one that updates core memory.                                       *)
(***************************************************************************)
EXTENDS Connectors

CONSTANTS c1, c2, n1, k1, v1

Plain(id, kind) ==
  [id |-> id, tier |-> "none", unsure |-> FALSE, brief |-> FALSE, kind |-> kind]

MCRecords == {Plain(k1, "note")}
MCInputs == {Plain(n1, "decision")} \cup MCRecords
MCDocs == {n1, k1, v1}
MCAsks == c1 :> {n1} @@ c2 :> {v1} @@ Runner :> {}
=============================================================================
