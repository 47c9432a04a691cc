-------------------------- MODULE MCFileReplication --------------------------
(***************************************************************************)
(* Constants for checking FileReplication.                                 *)
(***************************************************************************)
EXTENDS FileReplication, TLC

Paths == Doc \union {Index} \union Snapshot
Shas  == {Template} \union Version \union Snapshot \union {{} \union t : t \in SUBSET Snapshot}
OneByteEach == [s \in Shas |-> 1]

Symmetric == Permutations(Client) \union Permutations(Snapshot)
=============================================================================
