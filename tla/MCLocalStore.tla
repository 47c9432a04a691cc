---------------------------- MODULE MCLocalStore ----------------------------
(***************************************************************************)
(* Constants for checking LocalStore: three tasks on a file of the first   *)
(* process, one on the file of the second.                                 *)
(***************************************************************************)
EXTENDS LocalStore, TLC

CONSTANTS p1, p2, k1, k2, t1, t2, t3, t4

OneFileEach == k1 :> p1 @@ k2 :> p2
ThreeAndOne == t1 :> k1 @@ t2 :> k1 @@ t3 :> k1 @@ t4 :> k2
=============================================================================
