------------------------------ MODULE MCContext ------------------------------
(***************************************************************************)
(* Two facts, in the order every query ranks them, and one caller: calls   *)
(* only meet in the cache, where its own earlier briefings are as good as  *)
(* those of others; what changes under a call is the memory.               *)
(***************************************************************************)
EXTENDS Context, TLC

CONSTANTS f1, f2, c1, q1, q2

MCRank == f1 :> 1 @@ f2 :> 2

\* Queries are alike; facts are not, for they are ranked.
MCSymmetry == Permutations(Query)
==============================================================================
