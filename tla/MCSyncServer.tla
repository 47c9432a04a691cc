---------------------------- MODULE MCSyncServer ----------------------------
(***************************************************************************)
(* Constants for checking SyncServer.                                      *)
(***************************************************************************)
EXTENDS SyncServer, TLC

CONSTANTS p1, p2, a1, a2, c1, c2, q1, q2, s1, s2

\* One account, or a second one for the second client.
OneAccount  == [c \in Client |-> a1]
TwoAccounts == c1 :> a1 @@ c2 :> a2

\* s1 is one unit of bytes, s2 two.
Sizes == s1 :> 1 @@ s2 :> 2

ThreeUnits == [a \in Account |-> 3]

\* What clients hold: two small versions, or a bigger one of the first path.
\* Each fits into three units, and the second does not fit on top of the first.
Contending == {q1 :> s1 @@ q2 :> s2, q1 :> s2 @@ q2 :> Nil}
TwoVersions == {q1 :> s1 @@ q2 :> Nil, q1 :> s2 @@ q2 :> s1}
BothFiles == {q1 :> s1 @@ q2 :> s2}
OneFile == {q1 :> s1 @@ q2 :> Nil}

Symmetric == Permutations(Handler) \union Permutations(Client)
=============================================================================
