----------------------------- MODULE GraphProofs -----------------------------
(***************************************************************************)
(* Proofs about the two sides of the knowledge graph, for any callers,     *)
(* nodes, labels, aliases, facts, edges and searches, and any graph an     *)
(* earlier process left.                                                   *)
(*                                                                         *)
(* GraphStore.  First what the operators on node sequences and graphs      *)
(* keep: ids occur once, edges are no loops (by induction over the         *)
(* sequence, stated of sets).  Then the inductive invariant: who loads,    *)
(* which edges memory may hold while a merge waits to drop its source, in  *)
(* which order the copies that are to be written were made, and what the   *)
(* newest of them holds.  A step is either quiet (it leaves the files and  *)
(* their writers alone, and a change of memory is about to be saved), or   *)
(* one of loading and saving, which leave memory alone once it is loaded.  *)
(* The copies land in any order; of an older one that lands late, it is    *)
(* shown that it was overtaken.  Last, that no acknowledged fact is lost.  *)
(*                                                                         *)
(* GraphSearch, a machine of its own.  The indexes follow the edges by an  *)
(* induction over the changes alone.  Of a search, what its queue and its  *)
(* labels say between two passes of the loop, against what the arcs reach. *)
(***************************************************************************)
EXTENDS GraphStore, GraphSearch, WellFoundedInduction, FiniteSetTheorems,
        SequenceTheorems, TLAPS

(***************************************************************************)
(* Sequences of nodes.                                                     *)
(***************************************************************************)
\* No id twice.
OneEach(ns) == \A i, j \in DOMAIN ns : ns[i].id = ns[j].id => i = j

NodesOK(ns) == ns \in Seq(Entry) /\ OneEach(ns)

\* A set entry is there, once, beside the others.
LEMMA SetNodeKept ==
  ASSUME NEW ns, NodesOK(ns), NEW x \in Entry
  PROVE  /\ NodesOK(SetNode(ns, x))
         /\ NodeIds(SetNode(ns, x)) = NodeIds(ns) \cup {x.id}
<1>1. CASE x.id \in NodeIds(ns)
  <2> DEFINE t == [i \in DOMAIN ns |-> IF ns[i].id = x.id THEN x ELSE ns[i]]
  <2>1. SetNode(ns, x) = t
    BY <1>1 DEF SetNode
  <2>2. t \in Seq(Entry) /\ DOMAIN t = DOMAIN ns
    BY DEF NodesOK
  <2>3. \A i \in DOMAIN ns : t[i].id = ns[i].id
    OBVIOUS
  <2> HIDE DEF t
  <2>4. OneEach(t)
    BY <2>2, <2>3 DEF OneEach, NodesOK
  <2>5. NodeIds(t) = NodeIds(ns) \cup {x.id}
    BY <1>1, <2>2, <2>3 DEF NodeIds
  <2> QED
    BY <2>1, <2>2, <2>4, <2>5 DEF NodesOK
<1>2. CASE x.id \notin NodeIds(ns)
  <2> DEFINE t == Append(ns, x)
  <2>1. SetNode(ns, x) = t
    BY <1>2 DEF SetNode
  <2>2. /\ t \in Seq(Entry) /\ Len(ns) \in Nat /\ DOMAIN ns = 1 .. Len(ns)
        /\ DOMAIN t = 1 .. Len(ns) + 1
        /\ t[Len(ns) + 1] = x /\ \A i \in 1 .. Len(ns) : t[i] = ns[i]
    BY DEF NodesOK
  <2>3. \A i \in 1 .. Len(ns) : ns[i].id # x.id
    BY <1>2, <2>2 DEF NodeIds
  <2> HIDE DEF t
  <2>4. \A i \in DOMAIN t : i \in 1 .. Len(ns) \/ i = Len(ns) + 1
    BY <2>2
  <2>5. OneEach(t)
    BY <2>2, <2>3, <2>4 DEF OneEach, NodesOK
  <2>6. NodeIds(t) = NodeIds(ns) \cup {x.id}
    <3>1. \A i \in 1 .. Len(ns) : i \in DOMAIN t
      BY <2>2
    <3>2. Len(ns) + 1 \in DOMAIN t
      BY <2>2
    <3> QED
      BY <2>2, <2>4, <3>1, <3>2 DEF NodeIds
  <2> QED
    BY <2>1, <2>2, <2>5, <2>6 DEF NodesOK
<1> QED
  BY <1>1, <1>2

\* Deleting an id leaves the others.
LEMMA RemoveNodeKept ==
  ASSUME NEW ns, NodesOK(ns), NEW n
  PROVE  /\ NodesOK(RemoveNode(ns, n))
         /\ NodeIds(RemoveNode(ns, n)) = NodeIds(ns) \ {n}
<1>1. CASE n \notin NodeIds(ns)
  BY <1>1 DEF RemoveNode
<1>2. CASE n \in NodeIds(ns)
  <2>1. PICK k \in DOMAIN ns : ns[k].id = n /\ RemoveNode(ns, n) = RemoveAt(ns, k)
    BY <1>2 DEF RemoveNode, NodeIds
  <2> DEFINE t == RemoveAt(ns, k)
  <2>2. ns \in Seq(Entry) /\ k \in Nat /\ 1 <= k /\ k <= Len(ns) /\ Len(ns) \in Nat
        /\ DOMAIN ns = 1 .. Len(ns)
    BY <2>1 DEF NodesOK
  <2>3. /\ t \in Seq(Entry) /\ DOMAIN t = 1 .. Len(ns) - 1
        /\ \A i \in 1 .. Len(ns) - 1 : t[i] = IF i < k THEN ns[i] ELSE ns[i + 1]
    <3> DEFINE a == SubSeq(ns, 1, k - 1)
               b == SubSeq(ns, k + 1, Len(ns))
    <3>1. a \in Seq(Entry) /\ Len(a) = k - 1 /\ \A i \in 1 .. k - 1 : a[i] = ns[i]
      BY <2>2
    <3>2. b \in Seq(Entry) /\ Len(b) = Len(ns) - k /\ \A i \in 1 .. Len(ns) - k : b[i] = ns[k + i]
      BY <2>2
    <3>3. t = a \o b
      BY DEF RemoveAt
    <3>4. t \in Seq(Entry) /\ Len(t) = Len(ns) - 1
      BY <2>2 DEF RemoveAt
    <3> HIDE DEF a, b, t
    <3>5. ASSUME NEW i \in 1 .. Len(ns) - 1
          PROVE  t[i] = IF i < k THEN ns[i] ELSE ns[i + 1]
      <4>1. CASE i < k
        BY <2>2, <3>1, <3>2, <3>3, <4>1
      <4>2. CASE ~(i < k)
        <5>1. i - (k - 1) \in 1 .. Len(ns) - k /\ k + (i - (k - 1)) = i + 1
          BY <2>2, <4>2
        <5>2. t[i] = b[i - (k - 1)]
          BY <2>2, <3>1, <3>2, <3>3, <4>2
        <5>3. b[i - (k - 1)] = ns[k + (i - (k - 1))]
          BY <3>2, <5>1
        <5> QED
          BY <4>2, <5>1, <5>2, <5>3
      <4> QED
        BY <4>1, <4>2
    <3> QED
      BY <3>4, <3>5
  <2> HIDE DEF t
  <2> DEFINE old(i) == IF i < k THEN i ELSE i + 1
  <2>4. \A i \in DOMAIN t : old(i) \in DOMAIN ns /\ old(i) # k /\ t[i] = ns[old(i)]
    BY <2>2, <2>3
  <2>5. \A i, j \in DOMAIN t : old(i) = old(j) => i = j
    BY <2>2, <2>3
  <2>6. \A j \in DOMAIN ns : j # k => \E i \in DOMAIN t : old(i) = j
    <3> TAKE j \in DOMAIN ns
    <3>1. CASE j < k
      BY <2>2, <2>3, <3>1
    <3>2. CASE k < j
      <4>1. j - 1 \in DOMAIN t /\ old(j - 1) = j
        BY <2>2, <2>3, <3>2
      <4> QED
        BY <4>1
    <3> QED
      BY <2>2, <3>1, <3>2
  <2> HIDE DEF old
  <2>7. OneEach(t)
    BY <2>4, <2>5, Zenon DEF OneEach, NodesOK
  <2>8. NodeIds(t) = NodeIds(ns) \ {n}
    <3>1. ASSUME NEW i \in DOMAIN t PROVE t[i].id \in NodeIds(ns) \ {n}
      BY <2>1, <2>4 DEF NodeIds, NodesOK, OneEach
    <3>2. ASSUME NEW j \in DOMAIN ns, ns[j].id # n PROVE ns[j].id \in NodeIds(t)
      BY <2>1, <2>4, <2>6, <3>2 DEF NodeIds
    <3> QED
      BY <3>1, <3>2 DEF NodeIds
  <2> QED
    BY <2>1, <2>3, <2>7, <2>8 DEF NodesOK, t
<1> QED
  BY <1>1, <1>2

\* The entry of an id.
LEMMA NodeOfEntry ==
  ASSUME NEW ns, NodesOK(ns), NEW n \in NodeIds(ns)
  PROVE  NodeOf(ns, n) \in Entry /\ NodeOf(ns, n).id = n
<1>1. ToSet(ns) \subseteq Entry
  BY DEF ToSet, NodesOK
<1>2. \E x \in ToSet(ns) : x.id = n
  BY DEF ToSet, NodeIds
<1>3. NodeOf(ns, n) \in ToSet(ns) /\ NodeOf(ns, n).id = n
  BY <1>2 DEF NodeOf
<1> QED
  BY <1>1, <1>3

(***************************************************************************)
(* Functions that are defined along an interval: what the model's loops    *)
(* over sequences compute.                                                 *)
(***************************************************************************)
\* Induction: a set that has 1, and with a number the next, has all of them.
LEMMA IntervalInduction ==
  ASSUME NEW n \in Nat, NEW T, 1 \in T, \A m \in 1 .. n : m \in T => m + 1 \in T
  PROVE  1 .. n + 1 \subseteq T
<1> DEFINE Rest == (1 .. n + 1) \ T
<1> SUFFICES ASSUME Rest # {} PROVE FALSE
  OBVIOUS
<1>1. IsWellFoundedOn(OpToRel(<, Nat), Nat)
  BY NatLessThanWellFounded
<1>2. Rest \subseteq Nat
  OBVIOUS
<1>3. PICK m \in Rest : \A k \in Rest : ~(<<k, m>> \in OpToRel(<, Nat))
  BY <1>1, <1>2, WFMin
<1>4. \A k \in Rest : ~(k < m)
  BY <1>2, <1>3 DEF OpToRel
<1>5. m # 1 /\ m - 1 \in 1 .. n
  OBVIOUS
<1>6. m - 1 \in T
  BY <1>4, <1>5
<1>7. (m - 1) + 1 \in T
  BY <1>5, <1>6
<1> QED
  BY <1>7

\* What f is made of: the first value, and each from the one before it.
Iterates(f, n, base, step) == f[1] = base /\ \A i \in 1 .. n : f[i + 1] = step[i][f[i]]

\* There is such a function.
LEMMA IterationExists ==
  ASSUME NEW n \in Nat, NEW S, NEW base \in S, NEW step \in [1 .. n -> [S -> S]]
  PROVE  \E f \in [1 .. n + 1 -> S] : Iterates(f, n, base, step)
<1> DEFINE Reaches(f, m) == f[1] = base /\ \A i \in 1 .. m - 1 : f[i + 1] = step[i][f[i]]
           T == {m \in 1 .. n + 1 : \E f \in [1 .. m -> S] : Reaches(f, m)}
<1>1. 1 \in T
  <2> DEFINE f == [i \in 1 .. 1 |-> base]
  <2>1. f \in [1 .. 1 -> S] /\ Reaches(f, 1)
    OBVIOUS
  <2> HIDE DEF f
  <2> QED
    BY <2>1
<1>2. ASSUME NEW m \in 1 .. n, m \in T PROVE m + 1 \in T
  <2>1. PICK g \in [1 .. m -> S] : Reaches(g, m)
    BY <1>2
  <2> DEFINE s == step[m][g[m]]
             f == [i \in 1 .. m + 1 |-> IF i = m + 1 THEN s ELSE g[i]]
  <2>2. m + 1 \in 1 .. n + 1 /\ g[m] \in S /\ s \in S
    OBVIOUS
  <2>3. f \in [1 .. m + 1 -> S]
    BY <2>2
  <2>4. \A i \in 1 .. m : f[i] = g[i]
    OBVIOUS
  <2>5. f[1] = base /\ f[m + 1] = s
    BY <2>1
  <2>6. \A i \in 1 .. (m + 1) - 1 : f[i + 1] = step[i][f[i]]
    <3> HIDE DEF f
    <3> TAKE i \in 1 .. (m + 1) - 1
    <3>1. CASE i = m
      BY <2>4, <2>5, <3>1
    <3>2. CASE i \in 1 .. m - 1
      BY <2>1, <2>4, <3>2
    <3> QED
      BY <3>1, <3>2
  <2>7. Reaches(f, m + 1)
    BY <2>5, <2>6
  <2> HIDE DEF f
  <2> QED
    BY <2>2, <2>3, <2>7
<1> HIDE DEF T
<1>3. 1 .. n + 1 \subseteq T
  BY <1>1, <1>2, IntervalInduction
<1>4. n + 1 \in T
  BY <1>3
<1>5. PICK f \in [1 .. n + 1 -> S] : Reaches(f, n + 1)
  BY <1>4 DEF T
<1>6. \A i \in 1 .. n : i \in 1 .. (n + 1) - 1
  OBVIOUS
<1> QED
  BY <1>5, <1>6 DEF Iterates

\* No string twice; here: only strings of the list.
LEMMA UniqueStringsKept ==
  ASSUME NEW X, NEW s \in Seq(X)
  PROVE  UniqueStrings(s) \in Seq(X)
<1> DEFINE n == Len(s)
           S == Seq(X)
           base == << >>
           next(b, i) == IF Contains(b, s[i]) THEN b ELSE Append(b, s[i])
           step == [i \in 1 .. n |-> [b \in S |-> next(b, i)]]
           upTo[i \in 1 .. n + 1] == IF i = 1 THEN base ELSE next(upTo[i - 1], i - 1)
<1>1. UniqueStrings(s) = upTo[n + 1]
  BY Zenon DEF UniqueStrings
<1>2. n \in Nat /\ base \in S
  OBVIOUS
<1>3. ASSUME NEW i \in 1 .. n, NEW b \in S PROVE next(b, i) \in S
  <2>1. s[i] \in X
    OBVIOUS
  <2> QED
    BY <2>1
<1> HIDE DEF n, S, base, next
<1>4. step \in [1 .. n -> [S -> S]] /\ \A i \in 1 .. n, b \in S : step[i][b] = next(b, i)
  BY <1>3
<1> HIDE DEF step
<1>5. PICK f \in [1 .. n + 1 -> S] : Iterates(f, n, base, step)
  BY <1>2, <1>4, IterationExists
<1>6. \A i \in 1 .. n + 1 : i # 1 => i - 1 \in 1 .. n /\ i - 1 \in 1 .. n + 1 /\ (i - 1) + 1 = i
  BY <1>2
<1>7. f = [i \in 1 .. n + 1 |-> IF i = 1 THEN base ELSE next(f[i - 1], i - 1)]
  <2>1. ASSUME NEW i \in 1 .. n + 1
        PROVE  f[i] = IF i = 1 THEN base ELSE next(f[i - 1], i - 1)
    BY <1>2, <1>4, <1>5, <1>6 DEF Iterates
  <2> QED
    BY <2>1
<1>8. upTo = [i \in 1 .. n + 1 |-> IF i = 1 THEN base ELSE next(upTo[i - 1], i - 1)]
  BY <1>7, Zenon
<1> HIDE DEF upTo
<1> DEFINE T == {m \in 1 .. n + 1 : upTo[m] \in S}
<1>9. \A m \in 1 .. n : m + 1 \in 1 .. n + 1 /\ m + 1 # 1 /\ (m + 1) - 1 = m
  BY <1>2
<1>10. 1 \in T
  BY <1>2, <1>8
<1>11. ASSUME NEW m \in 1 .. n, m \in T PROVE m + 1 \in T
  <2>1. upTo[m + 1] = next(upTo[m], m)
    BY <1>8, <1>9
  <2> QED
    BY <1>3, <1>9, <1>11, <2>1
<1> HIDE DEF T
<1>12. n + 1 \in T
  <2>1. 1 .. n + 1 \subseteq T
    BY <1>2, <1>10, <1>11, IntervalInduction
  <2> QED
    BY <1>2, <2>1
<1> QED
  BY <1>1, <1>12 DEF T, S

\* The nodes of some ids are nodes.
LEMMA NodesOfKept ==
  ASSUME NEW ns, ns \in Seq(Entry), NEW ids
  PROVE  NodesOf(ns, ids) \in Seq(Entry)
<1> DEFINE n == Len(ns)
           S == Seq(Entry)
           base == << >>
           next(b, i) == IF ns[i].id \in ids THEN Append(b, ns[i]) ELSE b
           step == [i \in 1 .. n |-> [b \in S |-> next(b, i)]]
           upTo[i \in 1 .. n + 1] == IF i = 1 THEN base ELSE next(upTo[i - 1], i - 1)
<1>1. NodesOf(ns, ids) = upTo[n + 1]
  BY Zenon DEF NodesOf
<1>2. n \in Nat /\ base \in S
  OBVIOUS
<1>3. ASSUME NEW i \in 1 .. n, NEW b \in S PROVE next(b, i) \in S
  <2>1. ns[i] \in Entry
    OBVIOUS
  <2> QED
    BY <2>1
<1> HIDE DEF n, S, base, next
<1>4. step \in [1 .. n -> [S -> S]] /\ \A i \in 1 .. n, b \in S : step[i][b] = next(b, i)
  BY <1>3
<1> HIDE DEF step
<1>5. PICK f \in [1 .. n + 1 -> S] : Iterates(f, n, base, step)
  BY <1>2, <1>4, IterationExists
<1>6. \A i \in 1 .. n + 1 : i # 1 => i - 1 \in 1 .. n /\ i - 1 \in 1 .. n + 1 /\ (i - 1) + 1 = i
  BY <1>2
<1>7. f = [i \in 1 .. n + 1 |-> IF i = 1 THEN base ELSE next(f[i - 1], i - 1)]
  <2>1. ASSUME NEW i \in 1 .. n + 1
        PROVE  f[i] = IF i = 1 THEN base ELSE next(f[i - 1], i - 1)
    BY <1>2, <1>4, <1>5, <1>6 DEF Iterates
  <2> QED
    BY <2>1
<1>8. upTo = [i \in 1 .. n + 1 |-> IF i = 1 THEN base ELSE next(upTo[i - 1], i - 1)]
  BY <1>7, Zenon
<1> HIDE DEF upTo
<1> DEFINE T == {m \in 1 .. n + 1 : upTo[m] \in S}
<1>9. \A m \in 1 .. n : m + 1 \in 1 .. n + 1 /\ m + 1 # 1 /\ (m + 1) - 1 = m
  BY <1>2
<1>10. 1 \in T
  BY <1>2, <1>8
<1>11. ASSUME NEW m \in 1 .. n, m \in T PROVE m + 1 \in T
  <2>1. upTo[m + 1] = next(upTo[m], m)
    BY <1>8, <1>9
  <2> QED
    BY <1>3, <1>9, <1>11, <2>1
<1> HIDE DEF T
<1>12. n + 1 \in T
  <2>1. 1 .. n + 1 \subseteq T
    BY <1>2, <1>10, <1>11, IntervalInduction
  <2> QED
    BY <1>2, <2>1
<1> QED
  BY <1>1, <1>12 DEF T, S

\* A node that is upserted is there, and the others stay.
LEMMA UpsertNodeKept ==
  ASSUME NEW ns, NodesOK(ns), NEW n \in Node, NEW now \in 0 .. MaxClock
  PROVE  /\ NodesOK(UpsertNode(ns, n, now))
         /\ NodeIds(UpsertNode(ns, n, now)) = NodeIds(ns) \cup {n}
<1>1. AliasesOf[n] \in Seq(Node)
  BY GraphAssumption
<1>2. CASE n \in NodeIds(ns)
  <2> DEFINE old == NodeOf(ns, n)
             all == UniqueStrings(old.aliases \o AliasesOf[n])
             x == [old EXCEPT !.aliases = all]
  <2>1. old \in Entry /\ old.id = n
    BY <1>2, NodeOfEntry
  <2>2. all \in Seq(Node)
    <3>1. old.aliases \o AliasesOf[n] \in Seq(Node)
      BY <1>1, <2>1 DEF Entry
    <3> QED
      BY <3>1, UniqueStringsKept
  <2>3. UpsertNode(ns, n, now) = SetNode(ns, x)
    BY <1>2 DEF UpsertNode
  <2> HIDE DEF old, all
  <2>4. x \in Entry /\ x.id = n
    BY <2>1, <2>2 DEF Entry
  <2> HIDE DEF x
  <2> QED
    BY <2>3, <2>4, SetNodeKept
<1>3. CASE n \notin NodeIds(ns)
  <2> DEFINE x == [id |-> n, status |-> "active", aliases |-> AliasesOf[n], born |-> now]
  <2>1. UpsertNode(ns, n, now) = SetNode(ns, x)
    BY <1>3 DEF UpsertNode
  <2>2. x \in Entry /\ x.id = n
    BY <1>1 DEF Entry, Status
  <2> HIDE DEF x
  <2> QED
    BY <2>1, <2>2, SetNodeKept
<1> QED
  BY <1>2, <1>3

\* A node that is deprecated is there, and the others stay.
LEMMA RetireNodeKept ==
  ASSUME NEW ns, NodesOK(ns), NEW x \in Entry
  PROVE  /\ NodesOK(RetireNode(ns, x))
         /\ NodeIds(ns) \subseteq NodeIds(RetireNode(ns, x))
<1> DEFINE now == IF x.id \in NodeIds(ns) THEN NodeOf(ns, x.id).aliases ELSE << >>
           all == UniqueStrings(now \o x.aliases)
           y == [x EXCEPT !.status = "deprecated", !.aliases = all]
<1>1. now \in Seq(Node)
  <2>1. CASE x.id \in NodeIds(ns)
    <3>1. NodeOf(ns, x.id) \in Entry
      BY <2>1, NodeOfEntry
    <3> QED
      BY <2>1, <3>1 DEF Entry
  <2>2. CASE x.id \notin NodeIds(ns)
    BY <2>2
  <2> QED
    BY <2>1, <2>2
<1>2. RetireNode(ns, x) = SetNode(ns, y)
  BY Zenon DEF RetireNode
<1> HIDE DEF now
<1>3. all \in Seq(Node)
  <2>1. now \o x.aliases \in Seq(Node)
    BY <1>1 DEF Entry
  <2> QED
    BY <2>1, UniqueStringsKept
<1> HIDE DEF all
<1>4. y \in Entry
  BY <1>3 DEF Entry, Status
<1> HIDE DEF y
<1> QED
  BY <1>2, <1>4, SetNodeKept

\* So with several.
LEMMA RetireAllKept ==
  ASSUME NEW ns, NodesOK(ns), NEW patches \in Seq(Entry)
  PROVE  /\ NodesOK(RetireAll(ns, patches))
         /\ NodeIds(ns) \subseteq NodeIds(RetireAll(ns, patches))
<1> DEFINE n == Len(patches)
           S == {m \in Seq(Entry) : OneEach(m) /\ NodeIds(ns) \subseteq NodeIds(m)}
           base == ns
           next(b, i) == RetireNode(b, patches[i])
           step == [i \in 1 .. n |-> [b \in S |-> next(b, i)]]
           upTo[i \in 1 .. n + 1] == IF i = 1 THEN base ELSE next(upTo[i - 1], i - 1)
<1>1. RetireAll(ns, patches) = upTo[n + 1]
  BY Zenon DEF RetireAll
<1>2. n \in Nat /\ base \in S
  BY DEF NodesOK
<1>3. ASSUME NEW i \in 1 .. n, NEW b \in S PROVE next(b, i) \in S
  <2>1. patches[i] \in Entry
    OBVIOUS
  <2>2. NodesOK(b)
    BY DEF NodesOK
  <2>3. NodesOK(next(b, i)) /\ NodeIds(b) \subseteq NodeIds(next(b, i))
    BY <2>1, <2>2, RetireNodeKept
  <2> HIDE DEF next
  <2> QED
    BY <2>3 DEF NodesOK
<1> HIDE DEF n, S, base, next
<1>4. step \in [1 .. n -> [S -> S]] /\ \A i \in 1 .. n, b \in S : step[i][b] = next(b, i)
  BY <1>3
<1> HIDE DEF step
<1>5. PICK f \in [1 .. n + 1 -> S] : Iterates(f, n, base, step)
  BY <1>2, <1>4, IterationExists
<1>6. \A i \in 1 .. n + 1 : i # 1 => i - 1 \in 1 .. n /\ i - 1 \in 1 .. n + 1 /\ (i - 1) + 1 = i
  BY <1>2
<1>7. f = [i \in 1 .. n + 1 |-> IF i = 1 THEN base ELSE next(f[i - 1], i - 1)]
  <2>1. ASSUME NEW i \in 1 .. n + 1
        PROVE  f[i] = IF i = 1 THEN base ELSE next(f[i - 1], i - 1)
    BY <1>2, <1>4, <1>5, <1>6 DEF Iterates
  <2> QED
    BY <2>1
<1>8. upTo = [i \in 1 .. n + 1 |-> IF i = 1 THEN base ELSE next(upTo[i - 1], i - 1)]
  BY <1>7, Zenon
<1> HIDE DEF upTo
<1> DEFINE T == {m \in 1 .. n + 1 : upTo[m] \in S}
<1>9. \A m \in 1 .. n : m + 1 \in 1 .. n + 1 /\ m + 1 # 1 /\ (m + 1) - 1 = m
  BY <1>2
<1>10. 1 \in T
  BY <1>2, <1>8
<1>11. ASSUME NEW m \in 1 .. n, m \in T PROVE m + 1 \in T
  <2>1. upTo[m + 1] = next(upTo[m], m)
    BY <1>8, <1>9
  <2> QED
    BY <1>3, <1>9, <1>11, <2>1
<1> HIDE DEF T
<1>12. n + 1 \in T
  <2>1. 1 .. n + 1 \subseteq T
    BY <1>2, <1>10, <1>11, IntervalInduction
  <2> QED
    BY <1>2, <2>1
<1> QED
  BY <1>1, <1>12 DEF T, S, NodesOK

(***************************************************************************)
(* Graphs.                                                                 *)
(***************************************************************************)
Graph(g) == GraphOK(g) /\ g = [nodes |-> g.nodes, edges |-> g.edges]

EdgesOK(es) ==
  /\ DOMAIN es \subseteq Edge
  /\ \A e \in DOMAIN es : es[e] \in Status /\ e.from # e.to

\* A graph of good nodes and good edges.
LEMMA GraphParts ==
  ASSUME NEW ns, NEW es
  PROVE  Graph([nodes |-> ns, edges |-> es]) <=> NodesOK(ns) /\ EdgesOK(es)
<1> DEFINE g == [nodes |-> ns, edges |-> es]
<1>1. g.nodes = ns /\ g.edges = es /\ g = [nodes |-> g.nodes, edges |-> g.edges]
  OBVIOUS
<1> HIDE DEF g
<1>2. GraphOK(g) <=> NodesOK(ns) /\ EdgesOK(es)
  BY <1>1, Zenon DEF GraphOK, NodesOK, OneEach, EdgesOK
<1> QED
  BY <1>1, <1>2 DEF Graph, g

\* The parts of a graph are good.
LEMMA GraphHas ==
  ASSUME NEW g, Graph(g)
  PROVE  NodesOK(g.nodes) /\ EdgesOK(g.edges) /\ GraphOK(g)
BY Zenon DEF Graph, GraphOK, NodesOK, OneEach, EdgesOK

\* A graph with other nodes.
LEMMA WithNodes ==
  ASSUME NEW g, Graph(g), NEW ns, NodesOK(ns)
  PROVE  /\ Graph([g EXCEPT !.nodes = ns])
         /\ [g EXCEPT !.nodes = ns].nodes = ns /\ [g EXCEPT !.nodes = ns].edges = g.edges
<1> DEFINE h == [nodes |-> ns, edges |-> g.edges]
<1>1. PICK a, b : g = [nodes |-> a, edges |-> b]
  BY DEF Graph
<1>2. [g EXCEPT !.nodes = ns] = h
  BY <1>1
<1>3. Graph(h)
  BY GraphHas, GraphParts
<1>4. h.nodes = ns /\ h.edges = g.edges
  OBVIOUS
<1> HIDE DEF h
<1> QED
  BY <1>2, <1>3, <1>4

\* A graph with other edges.
LEMMA WithEdges ==
  ASSUME NEW g, Graph(g), NEW es, EdgesOK(es)
  PROVE  /\ Graph([g EXCEPT !.edges = es])
         /\ [g EXCEPT !.edges = es].nodes = g.nodes /\ [g EXCEPT !.edges = es].edges = es
<1> DEFINE h == [nodes |-> g.nodes, edges |-> es]
<1>1. PICK a, b : g = [nodes |-> a, edges |-> b]
  BY DEF Graph
<1>2. [g EXCEPT !.edges = es] = h
  BY <1>1
<1>3. Graph(h)
  BY GraphHas, GraphParts
<1>4. h.nodes = g.nodes /\ h.edges = es
  OBVIOUS
<1> HIDE DEF h
<1> QED
  BY <1>2, <1>3, <1>4

\* The graph of a process that has loaded nothing.
LEMMA EmptyGraphOK ==
  /\ Graph(EmptyGraph) /\ Attached(EmptyGraph)
  /\ EmptyGraph = [nodes |-> EmptyGraph.nodes, edges |-> EmptyGraph.edges]
  /\ DOMAIN EmptyGraph.edges = {} /\ EmptyGraph.nodes \in Seq(Entry)
<1> DEFINE none == << >>
<1>1. none \in Seq(Entry) /\ DOMAIN none = {}
  OBVIOUS
<1>2. EmptyGraph = [nodes |-> none, edges |-> none]
  BY DEF EmptyGraph
<1> HIDE DEF none
<1>3. NodesOK(none) /\ EdgesOK(none)
  BY <1>1 DEF NodesOK, OneEach, EdgesOK
<1>4. EmptyGraph.nodes = none /\ EmptyGraph.edges = none
  BY <1>2
<1>5. Attached(EmptyGraph)
  BY <1>1, <1>4 DEF Attached
<1> QED
  BY <1>1, <1>2, <1>3, <1>4, <1>5, GraphParts

\* Edges that are set are beside the others.
LEMMA SetEdgesKept ==
  ASSUME NEW g, EdgesOK(g.edges), NEW es, EdgesOK(es)
  PROVE  /\ EdgesOK(SetEdges(g, es))
         /\ DOMAIN SetEdges(g, es) = DOMAIN es \cup DOMAIN g.edges
BY DEF SetEdges, EdgesOK

\* An edge of a fact.
LEMMA EdgeOfFact ==
  ASSUME NEW f \in Fact
  PROVE  /\ EdgeOf(f) \in Edge /\ EdgeOf(f).from # EdgeOf(f).to
         /\ Ends(EdgeOf(f)) = Ends(f) /\ FactOf(EdgeOf(f)) = f /\ f \in Triple
<1>1. f \in Triple /\ f.from # f.to
  BY GraphAssumption
<1> QED
  BY <1>1 DEF EdgeOf, FactOf, Ends, Triple, Edge

\* An upsert sets one edge.
LEMMA UpsertEdgeKept ==
  ASSUME NEW g, EdgesOK(g.edges), NEW e \in Edge, e.from # e.to
  PROVE  /\ EdgesOK(UpsertEdge(g, e))
         /\ DOMAIN UpsertEdge(g, e) = {e} \cup DOMAIN g.edges
<1> DEFINE es == [x \in {e} |-> IF x \in DOMAIN g.edges THEN g.edges[x] ELSE "active"]
<1>1. UpsertEdge(g, e) = SetEdges(g, es)
  BY Zenon DEF UpsertEdge
<1>2. EdgesOK(es) /\ DOMAIN es = {e}
  BY DEF EdgesOK, Status
<1> HIDE DEF es
<1> QED
  BY <1>1, <1>2, SetEdgesKept

(***************************************************************************)
(* Merges.                                                                 *)
(***************************************************************************)
\* An edge that a merge moves stays an edge, is no loop, and leaves the source.
LEMMA MovedEdgeKept ==
  ASSUME NEW g, EdgesOK(g.edges), NEW s, NEW t \in Node, s # t, NEW e \in MovedEdges(g, s, t)
  PROVE  /\ e \in DOMAIN g.edges
         /\ MovedEdge(e, s, t) \in Edge
         /\ MovedEdge(e, s, t).from # MovedEdge(e, s, t).to
         /\ s \notin Ends(MovedEdge(e, s, t))
<1>1. /\ e \in DOMAIN g.edges /\ e \in Edge /\ e.from # e.to
      /\ s \in Ends(e) /\ Ends(e) # {s, t}
  BY DEF MovedEdges, Touching, EdgesOK
<1>2. /\ e.from \in Node /\ e.to \in Node /\ e.type \in EdgeType
      /\ e.key \in Triple \cup {NoKey} /\ FactOf(e) \in Triple
  BY <1>1 DEF Edge, FactOf, Triple
<1> DEFINE a == IF e.from = s THEN t ELSE e.from
           b == IF e.to = s THEN t ELSE e.to
           k == IF e.key = NoKey THEN FactOf(e) ELSE e.key
<1>3. MovedEdge(e, s, t) = [from |-> a, type |-> e.type, to |-> b, key |-> k]
  BY Zenon DEF MovedEdge
<1>4. a \in Node /\ b \in Node /\ k \in Triple \cup {NoKey} /\ a # s /\ b # s
  BY <1>2
<1>5. a # b
  BY <1>1 DEF Ends
<1> HIDE DEF a, b, k
<1> QED
  BY <1>1, <1>2, <1>3, <1>4, <1>5 DEF Edge, Ends

\* The target gets the aliases of the source.
LEMMA AbsorbNodeKept ==
  ASSUME NEW ns, NodesOK(ns), NEW s \in NodeIds(ns), NEW t \in NodeIds(ns)
  PROVE  /\ NodesOK(AbsorbNode(ns, s, t)) /\ NodeIds(AbsorbNode(ns, s, t)) = NodeIds(ns)
<1> DEFINE old == NodeOf(ns, t)
           other == NodeOf(ns, s)
           all == UniqueStrings(old.aliases \o other.aliases)
           x == [old EXCEPT !.aliases = all]
<1>1. old \in Entry /\ old.id = t /\ other \in Entry
  BY NodeOfEntry
<1>2. AbsorbNode(ns, s, t) = SetNode(ns, x)
  BY Zenon DEF AbsorbNode
<1> HIDE DEF old, other
<1>3. all \in Seq(Node)
  <2>1. old.aliases \o other.aliases \in Seq(Node)
    BY <1>1 DEF Entry
  <2> QED
    BY <2>1, UniqueStringsKept
<1> HIDE DEF all
<1>4. x \in Entry /\ x.id = t
  BY <1>1, <1>3 DEF Entry
<1> HIDE DEF x
<1>5. NodesOK(SetNode(ns, x)) /\ NodeIds(SetNode(ns, x)) = NodeIds(ns) \cup {x.id}
  BY <1>4, SetNodeKept
<1> QED
  BY <1>2, <1>4, <1>5

\* The source has no edge any more.
LEMMA DetachedKept ==
  ASSUME NEW g, Graph(g), NEW s, NEW t, Mergeable(g, s, t)
  PROVE  /\ Graph(Detached(g, s, t))
         /\ NodeIds(Detached(g, s, t).nodes) = NodeIds(g.nodes)
         /\ DOMAIN Detached(g, s, t).edges = DOMAIN g.edges \ Touching(g, s)
<1> DEFINE ns == AbsorbNode(g.nodes, s, t)
           es == Restrict(g.edges, DOMAIN g.edges \ Touching(g, s))
<1>1. Detached(g, s, t) = [nodes |-> ns, edges |-> es]
  BY DEF Detached
<1>2. NodesOK(g.nodes) /\ EdgesOK(g.edges)
  BY GraphHas
<1>3. NodesOK(ns) /\ NodeIds(ns) = NodeIds(g.nodes)
  BY <1>2, AbsorbNodeKept DEF Mergeable
<1>4. EdgesOK(es) /\ DOMAIN es = DOMAIN g.edges \ Touching(g, s)
  BY <1>2 DEF EdgesOK, Restrict
<1> HIDE DEF ns, es
<1> QED
  BY <1>1, <1>3, <1>4, GraphParts

\* Its edges are at the target, and none ends at the source.
LEMMA MergedKept ==
  ASSUME NEW g, Graph(g), NEW s, NEW t, Mergeable(g, s, t)
  PROVE  /\ Graph(Merged(g, s, t))
         /\ NodeIds(Merged(g, s, t).nodes) = NodeIds(g.nodes)
         /\ DOMAIN Merged(g, s, t).edges =
              (DOMAIN g.edges \ Touching(g, s))
                \cup {MovedEdge(e, s, t) : e \in MovedEdges(g, s, t)}
         /\ \A e \in DOMAIN Merged(g, s, t).edges : s \notin Ends(e)
<1> DEFINE rest == Detached(g, s, t)
           moved == MovedEdges(g, s, t)
           D == {MovedEdge(e, s, t) : e \in moved}
           statusOf == [x \in D |-> g.edges[CHOOSE e \in moved : MovedEdge(e, s, t) = x]]
           es == SetEdges(rest, statusOf)
<1>1. Merged(g, s, t) = [rest EXCEPT !.edges = es]
  BY Zenon DEF Merged
<1>2. EdgesOK(g.edges) /\ s # t /\ t \in Node
  <2>1. NodesOK(g.nodes) /\ EdgesOK(g.edges) /\ t \in NodeIds(g.nodes)
    BY GraphHas DEF Mergeable
  <2>2. NodeOf(g.nodes, t) \in Entry /\ NodeOf(g.nodes, t).id = t
    BY <2>1, NodeOfEntry
  <2> QED
    BY <2>1, <2>2 DEF Entry, Mergeable
<1>3. \A e \in moved : /\ e \in DOMAIN g.edges
                       /\ MovedEdge(e, s, t) \in Edge
                       /\ MovedEdge(e, s, t).from # MovedEdge(e, s, t).to
                       /\ s \notin Ends(MovedEdge(e, s, t))
  <2> HIDE DEF moved
  <2> SUFFICES ASSUME NEW e \in moved PROVE /\ e \in DOMAIN g.edges
                       /\ MovedEdge(e, s, t) \in Edge
                       /\ MovedEdge(e, s, t).from # MovedEdge(e, s, t).to
                       /\ s \notin Ends(MovedEdge(e, s, t))
    OBVIOUS
  <2> QED
    BY <1>2, MovedEdgeKept DEF moved
<1>4. Graph(rest) /\ NodeIds(rest.nodes) = NodeIds(g.nodes)
      /\ DOMAIN rest.edges = DOMAIN g.edges \ Touching(g, s)
  BY DetachedKept
<1> HIDE DEF rest, moved
<1>5. EdgesOK(statusOf) /\ DOMAIN statusOf = D
  <2>1. DOMAIN statusOf = D
    OBVIOUS
  <2>2. ASSUME NEW x \in D
        PROVE  x \in Edge /\ x.from # x.to /\ statusOf[x] \in Status
    <3>1. \E e \in moved : MovedEdge(e, s, t) = x
      OBVIOUS
    <3> DEFINE y == CHOOSE e \in moved : MovedEdge(e, s, t) = x
    <3>2. y \in moved /\ MovedEdge(y, s, t) = x
      BY <3>1
    <3>3. statusOf[x] = g.edges[y]
      OBVIOUS
    <3> HIDE DEF y, statusOf
    <3> QED
      BY <1>2, <1>3, <3>2, <3>3 DEF EdgesOK
  <2> HIDE DEF D, statusOf
  <2> QED
    BY <2>1, <2>2 DEF EdgesOK
<1> HIDE DEF statusOf
<1>6. EdgesOK(es) /\ DOMAIN es = D \cup DOMAIN rest.edges
  <2>1. EdgesOK(rest.edges)
    BY <1>4, GraphHas
  <2> QED
    BY <1>5, <2>1, SetEdgesKept
<1>7. ASSUME NEW e \in DOMAIN es PROVE s \notin Ends(e)
  <2>1. CASE e \in D
    BY <1>3, <2>1
  <2>2. CASE e \in DOMAIN rest.edges
    BY <1>4, <2>2 DEF Touching
  <2> QED
    BY <1>6, <2>1, <2>2
<1> HIDE DEF es, D
<1>8. /\ Graph([rest EXCEPT !.edges = es]) /\ [rest EXCEPT !.edges = es].nodes = rest.nodes
      /\ [rest EXCEPT !.edges = es].edges = es
  BY <1>4, <1>6, WithEdges
<1> QED
  BY <1>1, <1>4, <1>6, <1>7, <1>8 DEF D, moved

(***************************************************************************)
(* What holds between two steps.                                           *)
(***************************************************************************)
Hydrates(c) == call[c].step \in {"hydrateNodes", "hydrateEdges"}
Changing(c) == call[c].step \in {"drop", "export"}

\* c has yet to write file, and no later copy is in it.
Timely(c, file) == Pending(c, file) /\ <<c, file>> \notin overtaken

Newest(c) == \A d \in Caller : <<c, d>> \notin before

Unbroken == ~raced /\ ~torn /\ ~broken

\* The fields of a call.
Rec(step, next, read, merges, es, ns, fact) ==
  [step |-> step, next |-> next, read |-> read, merges |-> merges,
   edges |-> es, nodes |-> ns, fact |-> fact]

IsCall(r) ==
  /\ r = Rec(r.step, r.next, r.read, r.merges, r.edges, r.nodes, r.fact)
  /\ r.read = [nodes |-> r.read.nodes, edges |-> r.read.edges]

\* A call holds what its step needs.
CallOK(r) ==
  /\ IsCall(r)
  /\ r.step \in Steps /\ r.next \in {"idle", "ack", "merge", "readNodes"}
  /\ r.edges \subseteq Edge /\ (\A e \in r.edges : e.from # e.to)
  /\ r.nodes \subseteq Node
  /\ r.next = "ack" \/ r.step = "ack" => r.fact \in Triple
  /\ r.step \in {"new", "hydrateNodes"} => r.read = EmptyGraph
  /\ r.step \in {"hydrateEdges", "writeNodes", "writeEdges"} => Graph(r.read)
  /\ r.step = "hydrateEdges" => r.read.edges = EmptyGraph.edges
  /\ r.step = "retireNodes" => r.read.nodes \in Seq(Entry)

TypeInv ==
  /\ Graph(memory) /\ Graph(disk)
  /\ hydrated \in BOOLEAN /\ bootstrapped \in BOOLEAN
  /\ DOMAIN call = Caller /\ \A c \in Caller : CallOK(call[c])
  /\ clock \in Nat
  /\ acked \subseteq Triple

\* The graph is loaded by one call, and while nothing races the others wait.
HydrateInv ==
  /\ bootstrapped => hydrated
  /\ ~hydrated => memory = EmptyGraph /\ behind = {} /\ \A c \in Caller : At(c, "new")
  /\ \A c \in Caller : ~raced /\ Hydrates(c) =>
       /\ memory = EmptyGraph /\ behind = {}
       /\ \A d \in Caller : d # c => At(d, "new")
       /\ At(c, "hydrateEdges") => call[c].read.nodes = disk.nodes

\* No edge in memory lacks a node, and none ends at a node that a merge is about to
\* drop.
MemoryInv ==
  ~raced =>
    /\ Attached(memory)
    /\ \A c \in Caller : At(c, "drop") =>
         \A e \in DOMAIN memory.edges : Head(call[c].merges).source \notin Ends(e)

\* Who writes, and in which order the copies were made, whatever order they land in:
\* each two that write are in one order; a write that is overtaken has yet to be
\* done; an older copy is overtaken by a newer one that is in the file, or is
\* overtaken itself.
OrderInv ==
  /\ before \subseteq Caller \X Caller
  /\ overtaken \subseteq Caller \X Files /\ behind \subseteq Files
  /\ \A c, d \in Caller : <<c, d>> \in before => Writes(c) /\ Writes(d) /\ c # d
  /\ \A c, d \in Caller : Writes(c) /\ Writes(d) /\ c # d => <<c, d>> \in before \/ <<d, c>> \in before
  /\ \A b, c, d \in Caller : <<b, c>> \in before /\ <<c, d>> \in before => <<b, d>> \in before
  /\ \A c \in Caller, file \in Files : <<c, file>> \in overtaken => Pending(c, file)
  /\ \A c, d \in Caller, file \in Files :
       <<c, d>> \in before /\ Pending(c, file) /\ ~Timely(d, file) => ~Timely(c, file)

\* The newest copy, while it is to be written, is what memory holds; and so is the
\* file when no copy is, except one that is overtaken, unless such a one came last.
FileInv(file) ==
  /\ \A c \in Caller : Timely(c, file) /\ Newest(c) => call[c].read[file] = memory[file]
  /\ file \notin behind /\ (\A c \in Caller : ~Timely(c, file)) => disk[file] = memory[file]

\* Unless a call is about to save.
DiskInv ==
  Loaded /\ Unbroken /\ (\A c \in Caller : ~Changing(c)) => \A file \in Files : FileInv(file)

Inv == TypeInv /\ HydrateInv /\ MemoryInv /\ OrderInv /\ DiskInv

(***************************************************************************)
(* What a call becomes.                                                    *)
(***************************************************************************)
\* The fields of a call are what they were set to.
LEMMA RecParts ==
  ASSUME NEW a1, NEW a2, NEW a3, NEW a4, NEW a5, NEW a6, NEW a7
  PROVE  LET r == Rec(a1, a2, a3, a4, a5, a6, a7)
         IN  /\ r.step = a1 /\ r.next = a2 /\ r.read = a3 /\ r.merges = a4
             /\ r.edges = a5 /\ r.nodes = a6 /\ r.fact = a7
BY DEF Rec

\* A call made of its fields is one.
LEMMA RecIsCall ==
  ASSUME NEW a1, NEW a2, NEW a3, NEW a4, NEW a5, NEW a6, NEW a7,
         a3 = [nodes |-> a3.nodes, edges |-> a3.edges]
  PROVE  IsCall(Rec(a1, a2, a3, a4, a5, a6, a7))
<1> DEFINE r == Rec(a1, a2, a3, a4, a5, a6, a7)
<1>1. /\ r.step = a1 /\ r.next = a2 /\ r.read = a3 /\ r.merges = a4
      /\ r.edges = a5 /\ r.nodes = a6 /\ r.fact = a7
  BY RecParts
<1>2. r = Rec(r.step, r.next, r.read, r.merges, r.edges, r.nodes, r.fact)
  <2> HIDE DEF r
  <2> SUFFICES r = Rec(a1, a2, a3, a4, a5, a6, a7)
    BY <1>1
  <2> QED
    BY DEF r
<1> HIDE DEF r
<1> QED
  BY <1>1, <1>2 DEF IsCall, r

\* The ways in which the actions change a call.
Editable(r) ==
  /\ \A s : [r EXCEPT !.step = s]
       = Rec(s, r.next, r.read, r.merges, r.edges, r.nodes, r.fact)
  /\ \A s, n : [r EXCEPT !.step = s, !.next = n]
       = Rec(s, n, r.read, r.merges, r.edges, r.nodes, r.fact)
  /\ \A s, n, f : [r EXCEPT !.step = s, !.next = n, !.fact = f]
       = Rec(s, n, r.read, r.merges, r.edges, r.nodes, f)
  /\ \A s, n, m : [r EXCEPT !.step = s, !.next = n, !.merges = m]
       = Rec(s, n, r.read, m, r.edges, r.nodes, r.fact)
  /\ \A s, g : [r EXCEPT !.step = s, !.read = g]
       = Rec(s, r.next, g, r.merges, r.edges, r.nodes, r.fact)
  /\ \A s, m : [r EXCEPT !.step = s, !.merges = m]
       = Rec(s, r.next, r.read, m, r.edges, r.nodes, r.fact)
  /\ \A m : [r EXCEPT !.merges = m]
       = Rec(r.step, r.next, r.read, m, r.edges, r.nodes, r.fact)
  /\ \A s, e : [r EXCEPT !.step = s, !.edges = e]
       = Rec(s, r.next, r.read, r.merges, e, r.nodes, r.fact)
  /\ \A s, e, k : [r EXCEPT !.step = s, !.edges = e, !.nodes = k]
       = Rec(s, r.next, r.read, r.merges, e, k, r.fact)
  /\ \A g : [r.read EXCEPT !.nodes = g] = [nodes |-> g, edges |-> r.read.edges]
  /\ \A g : [r.read EXCEPT !.edges = g] = [nodes |-> r.read.nodes, edges |-> g]

\* Each EXCEPT the actions use sets the fields it names.
LEMMA Edits ==
  ASSUME NEW r, IsCall(r)
  PROVE  Editable(r)
<1>1. PICK a1, a2, a3, a4, a5, a6, a7 :
        r = [step |-> a1, next |-> a2, read |-> a3, merges |-> a4, edges |-> a5,
             nodes |-> a6, fact |-> a7]
  BY DEF IsCall, Rec
<1>2. PICK b1, b2 : r.read = [nodes |-> b1, edges |-> b2]
  BY DEF IsCall
<1>3. ASSUME NEW s
      PROVE  [r EXCEPT !.step = s]
               = Rec(s, r.next, r.read, r.merges, r.edges, r.nodes, r.fact)
  BY <1>1 DEF Rec
<1>4. ASSUME NEW s, NEW n
      PROVE  [r EXCEPT !.step = s, !.next = n]
               = Rec(s, n, r.read, r.merges, r.edges, r.nodes, r.fact)
  <2> DEFINE x == [r EXCEPT !.step = s]
             y == [x EXCEPT !.next = n]
  <2>1. [r EXCEPT !.step = s, !.next = n] = y
    BY Zenon
  <2>2. x = Rec(s, r.next, r.read, r.merges, r.edges, r.nodes, r.fact)
    BY <1>1 DEF Rec
  <2> HIDE DEF x
  <2>3. y = Rec(s, n, r.read, r.merges, r.edges, r.nodes, r.fact)
    BY <2>2 DEF Rec
  <2> QED
    BY <2>1, <2>3, Zenon DEF x
<1>5. ASSUME NEW s, NEW n, NEW f
      PROVE  [r EXCEPT !.step = s, !.next = n, !.fact = f]
               = Rec(s, n, r.read, r.merges, r.edges, r.nodes, f)
  <2> DEFINE x == [r EXCEPT !.step = s]
             y == [x EXCEPT !.next = n]
             z == [y EXCEPT !.fact = f]
  <2>1. [r EXCEPT !.step = s, !.next = n, !.fact = f] = z
    BY Zenon
  <2>2. x = Rec(s, r.next, r.read, r.merges, r.edges, r.nodes, r.fact)
    BY <1>1 DEF Rec
  <2> HIDE DEF x
  <2>3. y = Rec(s, n, r.read, r.merges, r.edges, r.nodes, r.fact)
    BY <2>2 DEF Rec
  <2> HIDE DEF y
  <2>4. z = Rec(s, n, r.read, r.merges, r.edges, r.nodes, f)
    BY <2>3 DEF Rec
  <2> QED
    BY <2>1, <2>4, Zenon DEF x, y
<1>6. ASSUME NEW s, NEW n, NEW m
      PROVE  [r EXCEPT !.step = s, !.next = n, !.merges = m]
               = Rec(s, n, r.read, m, r.edges, r.nodes, r.fact)
  <2> DEFINE x == [r EXCEPT !.step = s]
             y == [x EXCEPT !.next = n]
             z == [y EXCEPT !.merges = m]
  <2>1. [r EXCEPT !.step = s, !.next = n, !.merges = m] = z
    BY Zenon
  <2>2. x = Rec(s, r.next, r.read, r.merges, r.edges, r.nodes, r.fact)
    BY <1>1 DEF Rec
  <2> HIDE DEF x
  <2>3. y = Rec(s, n, r.read, r.merges, r.edges, r.nodes, r.fact)
    BY <2>2 DEF Rec
  <2> HIDE DEF y
  <2>4. z = Rec(s, n, r.read, m, r.edges, r.nodes, r.fact)
    BY <2>3 DEF Rec
  <2> QED
    BY <2>1, <2>4, Zenon DEF x, y
<1>7. ASSUME NEW s, NEW g
      PROVE  [r EXCEPT !.step = s, !.read = g]
               = Rec(s, r.next, g, r.merges, r.edges, r.nodes, r.fact)
  <2> DEFINE x == [r EXCEPT !.step = s]
             y == [x EXCEPT !.read = g]
  <2>1. [r EXCEPT !.step = s, !.read = g] = y
    BY Zenon
  <2>2. x = Rec(s, r.next, r.read, r.merges, r.edges, r.nodes, r.fact)
    BY <1>1 DEF Rec
  <2> HIDE DEF x
  <2>3. y = Rec(s, r.next, g, r.merges, r.edges, r.nodes, r.fact)
    BY <2>2 DEF Rec
  <2> QED
    BY <2>1, <2>3, Zenon DEF x
<1>8. ASSUME NEW s, NEW m
      PROVE  [r EXCEPT !.step = s, !.merges = m]
               = Rec(s, r.next, r.read, m, r.edges, r.nodes, r.fact)
  <2> DEFINE x == [r EXCEPT !.step = s]
             y == [x EXCEPT !.merges = m]
  <2>1. [r EXCEPT !.step = s, !.merges = m] = y
    BY Zenon
  <2>2. x = Rec(s, r.next, r.read, r.merges, r.edges, r.nodes, r.fact)
    BY <1>1 DEF Rec
  <2> HIDE DEF x
  <2>3. y = Rec(s, r.next, r.read, m, r.edges, r.nodes, r.fact)
    BY <2>2 DEF Rec
  <2> QED
    BY <2>1, <2>3, Zenon DEF x
<1>9. ASSUME NEW m
      PROVE  [r EXCEPT !.merges = m]
               = Rec(r.step, r.next, r.read, m, r.edges, r.nodes, r.fact)
  BY <1>1 DEF Rec
<1>10. ASSUME NEW s, NEW e
      PROVE  [r EXCEPT !.step = s, !.edges = e]
               = Rec(s, r.next, r.read, r.merges, e, r.nodes, r.fact)
  <2> DEFINE x == [r EXCEPT !.step = s]
             y == [x EXCEPT !.edges = e]
  <2>1. [r EXCEPT !.step = s, !.edges = e] = y
    BY Zenon
  <2>2. x = Rec(s, r.next, r.read, r.merges, r.edges, r.nodes, r.fact)
    BY <1>1 DEF Rec
  <2> HIDE DEF x
  <2>3. y = Rec(s, r.next, r.read, r.merges, e, r.nodes, r.fact)
    BY <2>2 DEF Rec
  <2> QED
    BY <2>1, <2>3, Zenon DEF x
<1>11. ASSUME NEW s, NEW e, NEW k
      PROVE  [r EXCEPT !.step = s, !.edges = e, !.nodes = k]
               = Rec(s, r.next, r.read, r.merges, e, k, r.fact)
  <2> DEFINE x == [r EXCEPT !.step = s]
             y == [x EXCEPT !.edges = e]
             z == [y EXCEPT !.nodes = k]
  <2>1. [r EXCEPT !.step = s, !.edges = e, !.nodes = k] = z
    BY Zenon
  <2>2. x = Rec(s, r.next, r.read, r.merges, r.edges, r.nodes, r.fact)
    BY <1>1 DEF Rec
  <2> HIDE DEF x
  <2>3. y = Rec(s, r.next, r.read, r.merges, e, r.nodes, r.fact)
    BY <2>2 DEF Rec
  <2> HIDE DEF y
  <2>4. z = Rec(s, r.next, r.read, r.merges, e, k, r.fact)
    BY <2>3 DEF Rec
  <2> QED
    BY <2>1, <2>4, Zenon DEF x, y
<1>12. ASSUME NEW g PROVE [r.read EXCEPT !.nodes = g] = [nodes |-> g, edges |-> r.read.edges]
  BY <1>2
<1>13. ASSUME NEW g PROVE [r.read EXCEPT !.edges = g] = [nodes |-> r.read.nodes, edges |-> g]
  BY <1>2
<1> QED
  BY <1>3, <1>4, <1>5, <1>6, <1>7, <1>8, <1>9, <1>10, <1>11, <1>12, <1>13, Zenon DEF Editable

\* What a call is known to have.
LEMMA CallHas ==
  ASSUME TypeInv, NEW c \in Caller
  PROVE  CallOK(call[c]) /\ IsCall(call[c]) /\ Editable(call[c])
BY Edits DEF TypeInv, CallOK

\* One call changes, the others do not.
Others(c) == \A d \in Caller : d # c => call'[d] = call[d]

\* A change of one call changes no other.
LEMMA Put ==
  ASSUME TypeInv, NEW c \in Caller, NEW r, Becomes(c, r)
  PROVE  call'[c] = r /\ Others(c) /\ DOMAIN call' = Caller
BY DEF TypeInv, Becomes, Others

\* The call at the start.
LEMMA IdleParts ==
  /\ CallOK(Idle) /\ CallOK(New) /\ CallOK([Idle EXCEPT !.step = "export"])
  /\ Idle.step = "idle" /\ New.step = "new" /\ Idle.read = EmptyGraph /\ New.read = EmptyGraph
  /\ [Idle EXCEPT !.step = "export"].step = "export"
<1> DEFINE none == << >>
           r(s) == Rec(s, "idle", EmptyGraph, none, {}, {}, NoFact)
<1>1. Idle = r("idle")
  BY Zenon DEF Idle, Rec
<1>2. \A s : IsCall(r(s)) /\ r(s).step = s /\ r(s).next = "idle" /\ r(s).read = EmptyGraph
             /\ r(s).edges = {} /\ r(s).nodes = {}
  BY EmptyGraphOK, RecIsCall, RecParts
<1>3. IsCall(Idle)
  BY <1>1, <1>2
<1>4. /\ [Idle EXCEPT !.step = "new"] = r("new")
      /\ [Idle EXCEPT !.step = "export"] = r("export")
  <2>1. /\ [Idle EXCEPT !.step = "new"] =
             Rec("new", Idle.next, Idle.read, Idle.merges, Idle.edges, Idle.nodes, Idle.fact)
        /\ [Idle EXCEPT !.step = "export"] =
             Rec("export", Idle.next, Idle.read, Idle.merges, Idle.edges, Idle.nodes, Idle.fact)
    BY <1>3, Edits, Zenon DEF Editable
  <2>2. /\ Idle.next = "idle" /\ Idle.read = EmptyGraph /\ Idle.merges = none
        /\ Idle.edges = {} /\ Idle.nodes = {} /\ Idle.fact = NoFact
    BY <1>1, RecParts
  <2> QED
    BY <2>1, <2>2
<1> HIDE DEF r
<1>5. CallOK(r("idle")) /\ CallOK(r("new")) /\ CallOK(r("export"))
  BY <1>2 DEF CallOK, Steps
<1> QED
  BY <1>1, <1>2, <1>4, <1>5 DEF New

(***************************************************************************)
(* The calls that change the graph in memory.                              *)
(***************************************************************************)
\* A step that changes one call and leaves all else well formed.
LEMMA TypesKept ==
  ASSUME TypeInv, NEW c \in Caller, NEW r, CallOK(r), Becomes(c, r),
         Graph(memory'), Graph(disk'), hydrated' \in BOOLEAN, bootstrapped' \in BOOLEAN,
         clock' \in Nat, acked' \subseteq Triple
  PROVE  TypeInv' /\ call'[c] = r /\ Others(c)
<1>1. call'[c] = r /\ Others(c) /\ DOMAIN call' = Caller
  BY Put
<1>2. \A d \in Caller : CallOK(call'[d])
  BY <1>1 DEF TypeInv, Others
<1> QED
  BY <1>1, <1>2 DEF TypeInv

\* The steps of a call that loads or writes.
FileSteps == {"new", "hydrateNodes", "hydrateEdges", "writeNodes", "writeEdges"}

\* Neither the files nor their writers change, and where memory does, it is
\* about to be saved.
Quiet(c) ==
  /\ UNCHANGED <<disk, hydrated, bootstrapped, landings, torn>>
  /\ Others(c)
  /\ call[c].step \notin FileSteps /\ call'[c].step \notin FileSteps
  /\ raced => raced'
  /\ broken => broken'
  /\ \/ broken' \/ Changing(c)'
     \/ memory' = memory /\ ~Changing(c)

\* The edges in memory are old ones and some others, between nodes that are there
\* and that no merge is about to drop; no node is gone.
Adds(es) ==
  /\ DOMAIN memory'.edges \subseteq DOMAIN memory.edges \cup es
  /\ \A e \in es : Ends(e) \subseteq NodeIds(memory.nodes)
  /\ ~raced' => ~TooLate(es)

Grows(c) ==
  /\ ~At(c, "drop")'
  /\ NodeIds(memory.nodes) \subseteq NodeIds(memory'.nodes)
  /\ \E es \in SUBSET Edge : Adds(es)

\* No edge is new.
LEMMA AddsNothing ==
  ASSUME DOMAIN memory'.edges \subseteq DOMAIN memory.edges
  PROVE  Adds({})
BY DEF Adds, TooLate

\* An upserted node is added or patched, then saved.
LEMMA StartNodeQuiet ==
  ASSUME TypeInv, NEW c \in Caller, NEW n \in NewNode, StartNode(c, n)
  PROVE  TypeInv' /\ Quiet(c) /\ Grows(c)
<1> DEFINE r == Rec("export", "idle", call[c].read, call[c].merges, call[c].edges,
                    call[c].nodes, call[c].fact)
<1>1. CallOK(call[c]) /\ IsCall(call[c]) /\ Editable(call[c]) /\ At(c, "idle")
  BY CallHas DEF StartNode
<1>2. Becomes(c, r)
  <2>1. [call[c] EXCEPT !.step = "export", !.next = "idle"] = r
    BY <1>1, Zenon DEF Editable
  <2> QED
    BY <2>1, Zenon DEF StartNode, Persist
<1>3. CallOK(r) /\ r.step = "export"
  <2>1. /\ IsCall(r) /\ r.step = "export" /\ r.next = "idle" /\ r.edges = call[c].edges
        /\ r.nodes = call[c].nodes
    BY <1>1, RecParts, RecIsCall DEF IsCall
  <2> HIDE DEF r
  <2> QED
    BY <1>1, <2>1 DEF CallOK, Steps
<1> HIDE DEF r
<1>4. clock' \in Nat /\ clock' \in 0 .. MaxClock
  BY StoreAssumption DEF TypeInv, StartNode
<1> DEFINE ns == UpsertNode(memory.nodes, n, clock')
<1>5. n \in Node /\ NodesOK(memory.nodes) /\ Graph(memory)
  BY GraphAssumption, GraphHas DEF TypeInv
<1>6. NodesOK(ns) /\ NodeIds(ns) = NodeIds(memory.nodes) \cup {n}
  BY <1>4, <1>5, UpsertNodeKept
<1>7. memory' = [memory EXCEPT !.nodes = ns]
  BY DEF StartNode
<1> HIDE DEF ns
<1>8. Graph(memory') /\ memory'.nodes = ns /\ memory'.edges = memory.edges
  BY <1>5, <1>6, <1>7, WithNodes
<1>9. /\ UNCHANGED <<disk, hydrated, bootstrapped, landings, torn, raced, broken, acked>>
  BY DEF StartNode, history
<1>10. TypeInv' /\ call'[c] = r /\ Others(c)
  <2>1. /\ Graph(disk') /\ hydrated' \in BOOLEAN /\ bootstrapped' \in BOOLEAN
        /\ acked' \subseteq Triple
    BY <1>9 DEF TypeInv
  <2> QED
    BY <1>2, <1>3, <1>4, <1>8, <2>1, TypesKept
<1>11. Quiet(c) /\ ~At(c, "drop")'
  BY <1>1, <1>3, <1>9, <1>10 DEF Quiet, FileSteps, Changing, At
<1>12. Adds({})
  BY <1>8, AddsNothing
<1> QED
  BY <1>6, <1>8, <1>10, <1>11, <1>12 DEF Grows

\* An upserted edge has its ends in the graph, then it is saved.
LEMMA StartEdgeQuiet ==
  ASSUME TypeInv, NEW c \in Caller, NEW f \in Fact, StartEdge(c, f)
  PROVE  TypeInv' /\ Quiet(c) /\ Grows(c)
<1> DEFINE r == Rec("export", "ack", call[c].read, call[c].merges, call[c].edges,
                    call[c].nodes, f)
<1>1. CallOK(call[c]) /\ IsCall(call[c]) /\ Editable(call[c]) /\ At(c, "idle")
  BY CallHas DEF StartEdge
<1>2. Becomes(c, r)
  <2>1. \A s, n, g : [call[c] EXCEPT !.step = s, !.next = n, !.fact = g]
                      = Rec(s, n, call[c].read, call[c].merges, call[c].edges, call[c].nodes, g)
    BY <1>1, Zenon DEF Editable
  <2>2. [call[c] EXCEPT !.step = "export", !.next = "ack", !.fact = f] = r
    BY <2>1, Zenon
  <2> QED
    BY <2>2, Zenon DEF StartEdge, SaveAndReturn
<1>3. /\ EdgeOf(f) \in Edge /\ EdgeOf(f).from # EdgeOf(f).to
      /\ Ends(EdgeOf(f)) = Ends(f) /\ f \in Triple
  BY EdgeOfFact
<1>4. CallOK(r) /\ r.step = "export"
  <2>1. /\ IsCall(r) /\ r.step = "export" /\ r.next = "ack" /\ r.edges = call[c].edges
        /\ r.nodes = call[c].nodes /\ r.fact = f
    BY <1>1, RecParts, RecIsCall DEF IsCall
  <2> HIDE DEF r
  <2> QED
    BY <1>1, <1>3, <2>1 DEF CallOK, Steps
<1> HIDE DEF r
<1> DEFINE es == UpsertEdge(memory, EdgeOf(f))
<1>5. Graph(memory) /\ EdgesOK(memory.edges)
  BY GraphHas DEF TypeInv
<1>6. EdgesOK(es) /\ DOMAIN es = {EdgeOf(f)} \cup DOMAIN memory.edges
  BY <1>3, <1>5, UpsertEdgeKept
<1>7. memory' = [memory EXCEPT !.edges = es]
  BY DEF StartEdge
<1> HIDE DEF es
<1>8. Graph(memory') /\ memory'.nodes = memory.nodes /\ memory'.edges = es
  BY <1>5, <1>6, <1>7, WithEdges
<1>9. /\ UNCHANGED <<disk, hydrated, bootstrapped, landings, torn, broken, acked, clock>>
      /\ raced' = (raced \/ TooLate({f})) /\ Ends(f) \subseteq NodeIds(memory.nodes)
  BY DEF StartEdge
<1>10. TypeInv' /\ call'[c] = r /\ Others(c)
  <2>1. /\ Graph(disk') /\ hydrated' \in BOOLEAN /\ bootstrapped' \in BOOLEAN
        /\ acked' \subseteq Triple /\ clock' \in Nat
    BY <1>9 DEF TypeInv
  <2> QED
    BY <1>2, <1>4, <1>8, <2>1, TypesKept
<1>11. Quiet(c) /\ ~At(c, "drop")'
  BY <1>1, <1>4, <1>9, <1>10 DEF Quiet, FileSteps, Changing, At
<1>12. TooLate({EdgeOf(f)}) => TooLate({f})
  BY <1>3, Zenon DEF TooLate
<1>13. Adds({EdgeOf(f)})
  BY <1>3, <1>6, <1>8, <1>9, <1>12 DEF Adds
<1> QED
  BY <1>3, <1>8, <1>10, <1>11, <1>13 DEF Grows

\* An answer, and the reads of a consolidation, change nothing but the call.
LEMMA ReadsKeep ==
  ASSUME TypeInv, NEW c \in Caller, NEW r, CallOK(r), Becomes(c, r),
         UNCHANGED <<memory, disk, hydrated, bootstrapped, landings, clock, raced, torn, broken>>,
         acked' \subseteq Triple,
         call[c].step \notin FileSteps, ~Changing(c), r.step \notin FileSteps, r.step # "drop"
  PROVE  TypeInv' /\ Quiet(c) /\ Grows(c)
<1>1. TypeInv' /\ call'[c] = r /\ Others(c)
  <2>1. /\ Graph(memory') /\ Graph(disk') /\ hydrated' \in BOOLEAN /\ bootstrapped' \in BOOLEAN
        /\ clock' \in Nat
    BY DEF TypeInv
  <2> QED
    BY <2>1, TypesKept
<1>2. Quiet(c) /\ ~At(c, "drop")'
  BY <1>1 DEF Quiet, At
<1>3. Adds({}) /\ memory' = memory
  BY AddsNothing
<1> QED
  BY <1>1, <1>2, <1>3 DEF Grows

\* An upsert returns.
LEMMA AcknowledgeQuiet ==
  ASSUME TypeInv, NEW c \in Caller, Acknowledge(c)
  PROVE  TypeInv' /\ Quiet(c) /\ Grows(c)
<1>1. CallOK(call[c]) /\ At(c, "ack")
  BY CallHas DEF Acknowledge
<1>2. acked' \subseteq Triple
  BY <1>1 DEF Acknowledge, TypeInv, CallOK, At
<1>3. /\ Becomes(c, Idle)
      /\ UNCHANGED <<memory, disk, hydrated, bootstrapped, landings, clock, raced, torn, broken>>
  BY DEF Acknowledge, Done, bounds
<1>4. call[c].step \notin FileSteps /\ ~Changing(c) /\ "idle" \notin FileSteps /\ "idle" # "drop"
  BY <1>1 DEF FileSteps, Changing, At
<1> QED
  BY <1>2, <1>3, <1>4, IdleParts, ReadsKeep

\* The duplicates are planned.
LEMMA ConsolidateQuiet ==
  ASSUME TypeInv, NEW c \in Caller, Consolidate(c)
  PROVE  TypeInv' /\ Quiet(c) /\ Grows(c)
<1> DEFINE m == FindDuplicateMerges(memory.nodes)
           r == Rec("plan", call[c].next, call[c].read, m, call[c].edges,
                    call[c].nodes, call[c].fact)
<1> HIDE DEF m
<1>1. CallOK(call[c]) /\ IsCall(call[c]) /\ Editable(call[c]) /\ At(c, "idle")
  BY CallHas DEF Consolidate
<1>2. Becomes(c, r)
  <2>1. \A s, x : [call[c] EXCEPT !.step = s, !.merges = x]
                   = Rec(s, call[c].next, call[c].read, x, call[c].edges, call[c].nodes, call[c].fact)
    BY <1>1, Zenon DEF Editable
  <2>2. [call[c] EXCEPT !.step = "plan", !.merges = m] = r
    BY <2>1, Zenon
  <2> QED
    BY <2>2, Zenon DEF Consolidate, m
<1>3. CallOK(r) /\ r.step = "plan"
  <2>1. /\ IsCall(r) /\ r.step = "plan" /\ r.next = call[c].next /\ r.edges = call[c].edges
        /\ r.nodes = call[c].nodes /\ r.fact = call[c].fact
    BY <1>1, RecParts, RecIsCall DEF IsCall
  <2> HIDE DEF r
  <2> QED
    BY <1>1, <2>1 DEF CallOK, Steps
<1> HIDE DEF r
<1>4. /\ UNCHANGED <<memory, disk, hydrated, bootstrapped, landings, clock, raced, torn, broken>>
      /\ acked' \subseteq Triple
  BY DEF Consolidate, bounds, history, TypeInv
<1>5. call[c].step \notin FileSteps /\ ~Changing(c) /\ "plan" \notin FileSteps /\ "plan" # "drop"
  BY <1>1 DEF FileSteps, Changing, At
<1> QED
  BY <1>2, <1>3, <1>4, <1>5, ReadsKeep

\* The retirements are planned; no edge among them is a loop.
LEMMA PlanQuiet ==
  ASSUME TypeInv, NEW c \in Caller, Plan(c)
  PROVE  TypeInv' /\ Quiet(c) /\ Grows(c)
<1> DEFINE e == Retired(memory)
           k == Superseded(memory)
           r == Rec("merge", call[c].next, call[c].read, call[c].merges, e, k, call[c].fact)
<1>1. CallOK(call[c]) /\ IsCall(call[c]) /\ Editable(call[c]) /\ At(c, "plan")
  BY CallHas DEF Plan
<1>2. e \subseteq Edge /\ (\A x \in e : x.from # x.to) /\ k \subseteq Node
  <2>1. EdgesOK(memory.edges)
    BY GraphHas DEF TypeInv
  <2>2. ActiveEdges(memory) \subseteq DOMAIN memory.edges
    BY DEF ActiveEdges
  <2>3. \A x \in Edge : x.to \in Node
    BY DEF Edge
  <2> QED
    BY <2>1, <2>2, <2>3 DEF EdgesOK, Retired, Superseded
<1> HIDE DEF e, k
<1>3. Becomes(c, r)
  <2>1. \A s, x, y : [call[c] EXCEPT !.step = s, !.edges = x, !.nodes = y]
                      = Rec(s, call[c].next, call[c].read, call[c].merges, x, y, call[c].fact)
    BY <1>1, Zenon DEF Editable
  <2>2. [call[c] EXCEPT !.step = "merge", !.edges = e, !.nodes = k] = r
    BY <2>1, Zenon
  <2> QED
    BY <2>2, Zenon DEF Plan, e, k
<1>4. CallOK(r) /\ r.step = "merge"
  <2>1. /\ IsCall(r) /\ r.step = "merge" /\ r.next = call[c].next /\ r.edges = e
        /\ r.nodes = k /\ r.fact = call[c].fact
    BY <1>1, RecParts, RecIsCall DEF IsCall
  <2> HIDE DEF r
  <2> QED
    BY <1>1, <1>2, <2>1 DEF CallOK, Steps
<1> HIDE DEF r
<1>5. /\ UNCHANGED <<memory, disk, hydrated, bootstrapped, landings, clock, raced, torn, broken>>
      /\ acked' \subseteq Triple
  BY DEF Plan, bounds, history, TypeInv
<1>6. call[c].step \notin FileSteps /\ ~Changing(c) /\ "merge" \notin FileSteps /\ "merge" # "drop"
  BY <1>1 DEF FileSteps, Changing, At
<1> QED
  BY <1>3, <1>4, <1>5, <1>6, ReadsKeep

\* Edges are read again.
LEMMA ReadEdgesQuiet ==
  ASSUME TypeInv, NEW c \in Caller, ReadEdges(c)
  PROVE  TypeInv' /\ Quiet(c) /\ Grows(c)
<1> DEFINE e == call[c].edges \intersect DOMAIN memory.edges
           r == Rec("retireEdges", call[c].next, call[c].read, call[c].merges, e,
                    call[c].nodes, call[c].fact)
<1>1. CallOK(call[c]) /\ IsCall(call[c]) /\ Editable(call[c]) /\ At(c, "merge")
  BY CallHas DEF ReadEdges
<1>2. e \subseteq call[c].edges
  OBVIOUS
<1> HIDE DEF e
<1>3. Becomes(c, r)
  <2>1. \A s, x : [call[c] EXCEPT !.step = s, !.edges = x]
                   = Rec(s, call[c].next, call[c].read, call[c].merges, x, call[c].nodes, call[c].fact)
    BY <1>1, Zenon DEF Editable
  <2>2. [call[c] EXCEPT !.step = "retireEdges", !.edges = e] = r
    BY <2>1, Zenon
  <2> QED
    BY <2>2, Zenon DEF ReadEdges, e
<1>4. CallOK(r) /\ r.step = "retireEdges"
  <2>1. /\ IsCall(r) /\ r.step = "retireEdges" /\ r.next = call[c].next /\ r.edges = e
        /\ r.nodes = call[c].nodes /\ r.fact = call[c].fact
    BY <1>1, RecParts, RecIsCall DEF IsCall
  <2> HIDE DEF r
  <2> QED
    BY <1>1, <1>2, <2>1 DEF CallOK, Steps
<1> HIDE DEF r
<1>5. /\ UNCHANGED <<memory, disk, hydrated, bootstrapped, landings, clock, raced, torn, broken>>
      /\ acked' \subseteq Triple
  BY DEF ReadEdges, bounds, history, TypeInv
<1>6. /\ call[c].step \notin FileSteps /\ ~Changing(c)
      /\ "retireEdges" \notin FileSteps /\ "retireEdges" # "drop"
  BY <1>1 DEF FileSteps, Changing, At
<1> QED
  BY <1>3, <1>4, <1>5, <1>6, ReadsKeep

\* Nodes are read again: they are well formed when they are written back.
LEMMA ReadNodesQuiet ==
  ASSUME TypeInv, NEW c \in Caller, ReadNodes(c)
  PROVE  TypeInv' /\ Quiet(c) /\ Grows(c)
<1> DEFINE ns == NodesOf(memory.nodes, call[c].nodes)
           g == [nodes |-> ns, edges |-> call[c].read.edges]
           r == Rec("retireNodes", call[c].next, g, call[c].merges, call[c].edges,
                    call[c].nodes, call[c].fact)
<1>1. CallOK(call[c]) /\ IsCall(call[c]) /\ Editable(call[c]) /\ At(c, "readNodes")
  BY CallHas DEF ReadNodes
<1>2. ns \in Seq(Entry)
  BY GraphHas, NodesOfKept DEF TypeInv, NodesOK
<1> HIDE DEF ns
<1>3. Becomes(c, r)
  <2>1. \A s, x : [call[c] EXCEPT !.step = s, !.read = x]
                   = Rec(s, call[c].next, x, call[c].merges, call[c].edges, call[c].nodes, call[c].fact)
    BY <1>1, Zenon DEF Editable
  <2>2. \A x : [call[c].read EXCEPT !.nodes = x] = [nodes |-> x, edges |-> call[c].read.edges]
    BY <1>1, Zenon DEF Editable
  <2>3. [call[c] EXCEPT !.step = "retireNodes", !.read = [call[c].read EXCEPT !.nodes = ns]]
          = Rec("retireNodes", call[c].next, [call[c].read EXCEPT !.nodes = ns], call[c].merges,
                call[c].edges, call[c].nodes, call[c].fact)
    BY <2>1, Zenon
  <2>4. [call[c].read EXCEPT !.nodes = ns] = g
    BY <2>2, Zenon
  <2> QED
    BY <2>3, <2>4, Zenon DEF ReadNodes, ns
<1>4. CallOK(r) /\ r.step = "retireNodes"
  <2>1. /\ r.step = "retireNodes" /\ r.next = call[c].next /\ r.edges = call[c].edges
        /\ r.nodes = call[c].nodes /\ r.fact = call[c].fact /\ r.read = g
    BY RecParts
  <2>2. g.nodes = ns /\ g = [nodes |-> g.nodes, edges |-> g.edges]
    OBVIOUS
  <2>3. IsCall(r)
    BY <2>2, RecIsCall
  <2> HIDE DEF r, g
  <2> QED
    BY <1>1, <1>2, <2>1, <2>2, <2>3 DEF CallOK, Steps
<1> HIDE DEF r
<1>5. /\ UNCHANGED <<memory, disk, hydrated, bootstrapped, landings, clock, raced, torn, broken>>
      /\ acked' \subseteq Triple
  BY DEF ReadNodes, bounds, history, TypeInv
<1>6. /\ call[c].step \notin FileSteps /\ ~Changing(c)
      /\ "retireNodes" \notin FileSteps /\ "retireNodes" # "drop"
  BY <1>1 DEF FileSteps, Changing, At
<1> QED
  BY <1>3, <1>4, <1>5, <1>6, ReadsKeep

\* A merge that is skipped adds nothing; one that breaks off loses edges.
LEMMA SkipMergeQuiet ==
  ASSUME TypeInv, NEW c \in Caller, SkipMerge(c)
  PROVE  TypeInv' /\ Quiet(c) /\ Grows(c)
<1> DEFINE m == Head(call[c].merges)
           ms == Tail(call[c].merges)
           r == Rec(call[c].step, call[c].next, call[c].read, ms, call[c].edges,
                    call[c].nodes, call[c].fact)
<1> HIDE DEF m, ms
<1>1. CallOK(call[c]) /\ IsCall(call[c]) /\ Editable(call[c]) /\ At(c, "merge")
  BY CallHas DEF SkipMerge
<1>2. Becomes(c, r)
  <2>1. \A x : [call[c] EXCEPT !.merges = x]
                 = Rec(call[c].step, call[c].next, call[c].read, x, call[c].edges,
                       call[c].nodes, call[c].fact)
    BY <1>1, Zenon DEF Editable
  <2>2. [call[c] EXCEPT !.merges = ms] = r
    BY <2>1, Zenon
  <2> QED
    BY <2>2, Zenon DEF SkipMerge, ms
<1>3. CallOK(r) /\ r.step = "merge"
  <2>1. /\ IsCall(r) /\ r.step = call[c].step /\ r.next = call[c].next /\ r.edges = call[c].edges
        /\ r.nodes = call[c].nodes /\ r.fact = call[c].fact
    BY <1>1, RecParts, RecIsCall DEF IsCall
  <2> HIDE DEF r
  <2> QED
    BY <1>1, <2>1 DEF CallOK, Steps, At
<1> HIDE DEF r
<1>4. /\ UNCHANGED <<disk, hydrated, bootstrapped, landings, clock, raced, torn>>
      /\ acked' \subseteq Triple
  BY DEF SkipMerge, bounds, TypeInv
<1>5. call[c].step \notin FileSteps /\ ~Changing(c) /\ "merge" \notin FileSteps /\ "merge" # "drop"
  BY <1>1 DEF FileSteps, Changing, At
<1>6. CASE UNCHANGED <<memory, broken>>
  BY <1>2, <1>3, <1>4, <1>5, <1>6, ReadsKeep
<1>7. CASE /\ Mergeable(memory, m.source, m.target)
           /\ memory' = Detached(memory, m.source, m.target)
           /\ broken' = TRUE
  <2>1. Graph(memory)
    BY DEF TypeInv
  <2>2. /\ Graph(memory') /\ NodeIds(memory'.nodes) = NodeIds(memory.nodes)
        /\ DOMAIN memory'.edges \subseteq DOMAIN memory.edges
    BY <1>7, <2>1, DetachedKept
  <2>3. TypeInv' /\ call'[c] = r /\ Others(c)
    <3>1. /\ Graph(disk') /\ hydrated' \in BOOLEAN /\ bootstrapped' \in BOOLEAN
          /\ clock' \in Nat
      BY <1>4 DEF TypeInv
    <3> QED
      BY <1>2, <1>3, <1>4, <2>2, <3>1, TypesKept
  <2>4. Quiet(c) /\ ~At(c, "drop")'
    BY <1>3, <1>4, <1>5, <1>7, <2>3 DEF Quiet, At
  <2>5. Adds({})
    BY <2>2, AddsNothing
  <2> QED
    BY <2>2, <2>3, <2>4, <2>5 DEF Grows
<1> QED
  BY <1>6, <1>7, Zenon DEF SkipMerge, m

\* Retired edges are those of the plan whose ends are there, then saved.
LEMMA RetireEdgesQuiet ==
  ASSUME TypeInv, NEW c \in Caller, RetireEdges(c)
  PROVE  TypeInv' /\ Quiet(c) /\ Grows(c)
<1> DEFINE es == call[c].edges
           fits == \A e \in es : Ends(e) \subseteq NodeIds(memory.nodes)
           r(s, n) == Rec(s, n, call[c].read, call[c].merges, call[c].edges,
                          call[c].nodes, call[c].fact)
<1>1. CallOK(call[c]) /\ IsCall(call[c]) /\ Editable(call[c]) /\ At(c, "retireEdges")
  BY CallHas DEF RetireEdges
<1>2. ASSUME NEW s \in {"export", "readNodes"}, NEW n \in {call[c].next, "readNodes"}
      PROVE  CallOK(r(s, n)) /\ r(s, n).step = s
  <2>1. /\ IsCall(r(s, n)) /\ r(s, n).step = s /\ r(s, n).next = n
        /\ r(s, n).edges = call[c].edges
        /\ r(s, n).nodes = call[c].nodes /\ r(s, n).fact = call[c].fact
    BY <1>1, RecParts, RecIsCall DEF IsCall
  <2> HIDE DEF r
  <2> QED
    BY <1>1, <2>1 DEF CallOK, Steps
<1>3. /\ UNCHANGED <<disk, hydrated, bootstrapped, landings, clock, torn, broken>>
      /\ acked' \subseteq Triple
  BY DEF RetireEdges, bounds, TypeInv
<1>4. call[c].step \notin FileSteps /\ ~Changing(c)
  BY <1>1 DEF FileSteps, Changing, At
<1>5. CASE es # {} /\ fits
  <2> DEFINE new == [e \in es |-> "deprecated"]
             all == SetEdges(memory, new)
  <2>1. /\ memory' = [memory EXCEPT !.edges = all]
        /\ Persist(c, "readNodes")
        /\ raced' = (raced \/ TooLate(es))
    BY <1>5, Zenon DEF RetireEdges
  <2>2. Becomes(c, r("export", "readNodes"))
    <3>1. \A s, n : [call[c] EXCEPT !.step = s, !.next = n] = r(s, n)
      BY <1>1, Zenon DEF Editable
    <3>2. [call[c] EXCEPT !.step = "export", !.next = "readNodes"] = r("export", "readNodes")
      BY <3>1, Zenon
    <3> QED
      BY <2>1, <3>2, Zenon DEF Persist
  <2>3. CallOK(r("export", "readNodes")) /\ r("export", "readNodes").step = "export"
    BY <1>2
  <2> HIDE DEF r
  <2>4. EdgesOK(new) /\ DOMAIN new = es
    BY <1>1 DEF EdgesOK, CallOK, Status
  <2> HIDE DEF new
  <2>5. Graph(memory) /\ EdgesOK(memory.edges)
    BY GraphHas DEF TypeInv
  <2>6. EdgesOK(all) /\ DOMAIN all = es \cup DOMAIN memory.edges
    BY <2>4, <2>5, SetEdgesKept
  <2> HIDE DEF all
  <2>7. Graph(memory') /\ memory'.nodes = memory.nodes /\ memory'.edges = all
    BY <2>1, <2>5, <2>6, WithEdges
  <2>8. TypeInv' /\ call'[c] = r("export", "readNodes") /\ Others(c)
    <3>1. /\ Graph(disk') /\ hydrated' \in BOOLEAN /\ bootstrapped' \in BOOLEAN
          /\ clock' \in Nat
      BY <1>3 DEF TypeInv
    <3> QED
      BY <1>3, <2>2, <2>3, <2>7, <3>1, TypesKept
  <2>9. Quiet(c) /\ ~At(c, "drop")'
    BY <1>3, <1>4, <2>1, <2>3, <2>8 DEF Quiet, At, Changing, FileSteps
  <2>10. Adds(es) /\ es \subseteq Edge
    BY <1>1, <1>5, <2>1, <2>6, <2>7 DEF Adds, CallOK
  <2> QED
    BY <2>7, <2>8, <2>9, <2>10 DEF Grows
<1>6. CASE ~(es # {} /\ fits)
  <2>1. Goto(c, "readNodes") /\ UNCHANGED <<memory, raced>>
    BY <1>6, Zenon DEF RetireEdges
  <2>2. Becomes(c, r("readNodes", call[c].next))
    <3>1. \A s : [call[c] EXCEPT !.step = s] = r(s, call[c].next)
      BY <1>1, Zenon DEF Editable
    <3>2. [call[c] EXCEPT !.step = "readNodes"] = r("readNodes", call[c].next)
      BY <3>1, Zenon
    <3> QED
      BY <2>1, <3>2, Zenon DEF Goto
  <2>3. CallOK(r("readNodes", call[c].next)) /\ r("readNodes", call[c].next).step = "readNodes"
    BY <1>2
  <2>4. "readNodes" \notin FileSteps /\ "readNodes" # "drop"
    BY DEF FileSteps
  <2> HIDE DEF r
  <2> QED
    BY <1>3, <1>4, <2>1, <2>2, <2>3, <2>4, ReadsKeep
<1> QED
  BY <1>5, <1>6

\* Retired nodes are added or patched, then saved.
LEMMA RetireNodesQuiet ==
  ASSUME TypeInv, NEW c \in Caller, RetireNodes(c)
  PROVE  TypeInv' /\ Quiet(c) /\ Grows(c)
<1> DEFINE patches == call[c].read.nodes
           ns == RetireAll(memory.nodes, patches)
           r == [Idle EXCEPT !.step = "export"]
<1>1. CallOK(call[c]) /\ At(c, "retireNodes")
  BY CallHas DEF RetireNodes
<1>2. /\ UNCHANGED <<disk, hydrated, bootstrapped, landings, clock, raced, torn, broken>>
      /\ acked' \subseteq Triple
  BY DEF RetireNodes, bounds, history, TypeInv
<1>3. call[c].step \notin FileSteps /\ ~Changing(c)
  BY <1>1 DEF FileSteps, Changing, At
<1>4. CASE patches # << >>
  <2>1. memory' = [memory EXCEPT !.nodes = ns] /\ Becomes(c, r)
    BY <1>4, Zenon DEF RetireNodes
  <2>2. patches \in Seq(Entry) /\ Graph(memory) /\ NodesOK(memory.nodes)
    BY <1>1, GraphHas DEF CallOK, At, TypeInv
  <2> HIDE DEF patches
  <2>3. NodesOK(ns) /\ NodeIds(memory.nodes) \subseteq NodeIds(ns)
    BY <2>2, RetireAllKept
  <2> HIDE DEF ns
  <2>4. Graph(memory') /\ memory'.nodes = ns /\ memory'.edges = memory.edges
    BY <2>1, <2>2, <2>3, WithNodes
  <2>5. CallOK(r) /\ r.step = "export"
    BY IdleParts
  <2> HIDE DEF r
  <2>6. TypeInv' /\ call'[c] = r /\ Others(c)
    <3>1. /\ Graph(disk') /\ hydrated' \in BOOLEAN /\ bootstrapped' \in BOOLEAN
          /\ clock' \in Nat
      BY <1>2 DEF TypeInv
    <3> QED
      BY <1>2, <2>1, <2>4, <2>5, <3>1, TypesKept
  <2>7. Quiet(c) /\ ~At(c, "drop")'
    BY <1>2, <1>3, <2>5, <2>6 DEF Quiet, At, Changing, FileSteps
  <2>8. Adds({})
    BY <2>4, AddsNothing
  <2> QED
    BY <2>3, <2>4, <2>6, <2>7, <2>8 DEF Grows
<1>5. CASE ~(patches # << >>)
  <2>1. Becomes(c, Idle) /\ UNCHANGED memory
    BY <1>5, Zenon DEF RetireNodes, Done
  <2>2. "idle" \notin FileSteps /\ "idle" # "drop"
    BY DEF FileSteps
  <2> QED
    BY <1>2, <1>3, <2>1, <2>2, IdleParts, ReadsKeep
<1> QED
  BY <1>4, <1>5

\* A step that removes no node and attaches its edges leaves memory in order.
LEMMA GrowsKeeps ==
  ASSUME TypeInv, MemoryInv, NEW c \in Caller, Quiet(c), Grows(c)
  PROVE  MemoryInv'
<1> SUFFICES ASSUME ~raced'
             PROVE  /\ Attached(memory')
                    /\ \A d \in Caller : At(d, "drop")' =>
                         \A e \in DOMAIN memory'.edges : Head(call'[d].merges).source \notin Ends(e)
  BY DEF MemoryInv, Attached
<1>1. ~raced
  BY DEF Quiet
<1>2. PICK es : Adds(es)
  BY DEF Grows
<1>3. Attached(memory')
  <2> SUFFICES ASSUME NEW e \in DOMAIN memory'.edges PROVE Ends(e) \subseteq NodeIds(memory'.nodes)
    BY DEF Attached
  <2>1. Ends(e) \subseteq NodeIds(memory.nodes)
    BY <1>1, <1>2 DEF Adds, MemoryInv, Attached
  <2> QED
    BY <2>1 DEF Grows
<1>4. ASSUME NEW d \in Caller, At(d, "drop")', NEW e \in DOMAIN memory'.edges
      PROVE  Head(call'[d].merges).source \notin Ends(e)
  <2>1. d # c
    BY <1>4 DEF Grows
  <2>2. call'[d] = call[d] /\ At(d, "drop")
    BY <1>4, <2>1 DEF Quiet, Others, At
  <2>3. CASE e \in es
    BY <1>2, <2>2, <2>3 DEF Adds, TooLate
  <2>4. CASE e \in DOMAIN memory.edges
    BY <1>1, <2>2, <2>4 DEF MemoryInv
  <2> QED
    BY <1>2, <2>2, <2>3, <2>4 DEF Adds
<1> QED
  BY <1>3, <1>4

\* What a call becomes when its merge is done.
LEMMA NextMergeCall ==
  ASSUME TypeInv, NEW c \in Caller, NextMerge(c)
  PROVE  \E r : CallOK(r) /\ r.step = "export" /\ Becomes(c, r)
<1> DEFINE ms == Tail(call[c].merges)
           r == Rec("export", "merge", call[c].read, ms, call[c].edges,
                    call[c].nodes, call[c].fact)
<1> HIDE DEF ms
<1>1. CallOK(call[c]) /\ IsCall(call[c]) /\ Editable(call[c])
  BY CallHas
<1>2. Becomes(c, r)
  <2>1. \A s, n, x : [call[c] EXCEPT !.step = s, !.next = n, !.merges = x]
                      = Rec(s, n, call[c].read, x, call[c].edges, call[c].nodes, call[c].fact)
    BY <1>1, Zenon DEF Editable
  <2>2. [call[c] EXCEPT !.step = "export", !.next = "merge", !.merges = ms] = r
    BY <2>1, Zenon
  <2> QED
    BY <2>2, Zenon DEF NextMerge, ms
<1>3. CallOK(r) /\ r.step = "export"
  <2>1. /\ IsCall(r) /\ r.step = "export" /\ r.next = "merge" /\ r.edges = call[c].edges
        /\ r.nodes = call[c].nodes /\ r.fact = call[c].fact
    BY <1>1, RecParts, RecIsCall DEF IsCall
  <2> HIDE DEF r
  <2> QED
    BY <1>1, <2>1 DEF CallOK, Steps
<1> HIDE DEF r
<1> QED
  BY <1>2, <1>3

\* The source keeps no edge; the edges it had are not between nodes that others
\* are about to drop.
LEMMA MergeNodesKept ==
  ASSUME TypeInv, MemoryInv, NEW c \in Caller, MergeNodes(c)
  PROVE  TypeInv' /\ Quiet(c) /\ MemoryInv'
<1> DEFINE m == Head(call[c].merges)
           s == m.source
           t == m.target
           moved == MovedEdges(memory, s, t)
           new == {MovedEdge(e, s, t) : e \in moved}
           g == Merged(memory, s, t)
<1>1. CallOK(call[c]) /\ IsCall(call[c]) /\ Editable(call[c]) /\ At(c, "merge")
  BY CallHas DEF MergeNodes
<1>2. /\ Mergeable(memory, s, t) /\ MovesFit(memory, s, t)
      /\ raced' = (raced \/ TooLate(new))
      /\ UNCHANGED <<disk, hydrated, bootstrapped, landings, clock, torn, broken, acked>>
  BY Zenon DEF MergeNodes, bounds
<1>3. \/ moved # {} /\ memory' = g /\ Goto(c, "drop")
      \/ moved = {} /\ memory' = [g EXCEPT !.nodes = RemoveNode(g.nodes, s)] /\ NextMerge(c)
  BY Zenon DEF MergeNodes
<1>4. \A e \in new : Ends(e) \subseteq NodeIds(memory.nodes)
  BY <1>2 DEF MovesFit
<1>5. m = Head(call[c].merges) /\ s = m.source
  OBVIOUS
<1>6. moved = {} => new = {}
  OBVIOUS
<1>7. /\ Graph(g) /\ NodeIds(g.nodes) = NodeIds(memory.nodes)
      /\ DOMAIN g.edges = (DOMAIN memory.edges \ Touching(memory, s)) \cup new
      /\ \A e \in DOMAIN g.edges : s \notin Ends(e)
  <2>1. Graph(memory)
    BY DEF TypeInv
  <2> HIDE DEF s, t
  <2> QED
    BY <1>2, <2>1, MergedKept DEF g, new, moved
<1> HIDE DEF m, s, t, moved, new, g
<1>8. /\ Graph(disk') /\ hydrated' \in BOOLEAN /\ bootstrapped' \in BOOLEAN
      /\ clock' \in Nat /\ acked' \subseteq Triple
  BY <1>2 DEF TypeInv
<1>9. call[c].step \notin FileSteps /\ ~Changing(c)
  BY <1>1 DEF FileSteps, Changing, At
<1>10. ASSUME ~raced', Others(c), memory'.edges = g.edges
       PROVE  /\ ~raced
              /\ \A e \in DOMAIN memory'.edges : Ends(e) \subseteq NodeIds(memory.nodes)
              /\ \A d \in Caller : d # c /\ At(d, "drop")' =>
                   \A e \in DOMAIN memory'.edges : Head(call'[d].merges).source \notin Ends(e)
  <2>1. ~raced /\ ~TooLate(new)
    BY <1>2, <1>10
  <2>2. ASSUME NEW e \in DOMAIN memory'.edges PROVE Ends(e) \subseteq NodeIds(memory.nodes)
    BY <1>4, <1>7, <1>10, <2>1 DEF MemoryInv, Attached
  <2>3. ASSUME NEW d \in Caller, d # c, At(d, "drop")', NEW e \in DOMAIN memory'.edges
        PROVE  Head(call'[d].merges).source \notin Ends(e)
    <3>1. call'[d] = call[d] /\ At(d, "drop")
      BY <1>10, <2>3 DEF Others, At
    <3>2. CASE e \in new
      BY <2>1, <3>1, <3>2 DEF TooLate
    <3>3. CASE e \in DOMAIN memory.edges
      BY <2>1, <3>1, <3>3 DEF MemoryInv
    <3> QED
      BY <1>7, <1>10, <3>1, <3>2, <3>3
  <2> QED
    BY <2>1, <2>2, <2>3
<1>11. CASE moved # {} /\ memory' = g /\ Goto(c, "drop")
  <2> DEFINE r == Rec("drop", call[c].next, call[c].read, call[c].merges, call[c].edges,
                      call[c].nodes, call[c].fact)
  <2>1. Becomes(c, r)
    <3>1. \A x : [call[c] EXCEPT !.step = x]
                   = Rec(x, call[c].next, call[c].read, call[c].merges, call[c].edges,
                         call[c].nodes, call[c].fact)
      BY <1>1, Zenon DEF Editable
    <3>2. [call[c] EXCEPT !.step = "drop"] = r
      BY <3>1, Zenon
    <3> QED
      BY <1>11, <3>2, Zenon DEF Goto
  <2>2. CallOK(r) /\ r.step = "drop" /\ r.merges = call[c].merges
    <3>1. /\ IsCall(r) /\ r.step = "drop" /\ r.next = call[c].next /\ r.edges = call[c].edges
          /\ r.nodes = call[c].nodes /\ r.fact = call[c].fact /\ r.merges = call[c].merges
      BY <1>1, RecParts, RecIsCall DEF IsCall
    <3> HIDE DEF r
    <3> QED
      BY <1>1, <3>1 DEF CallOK, Steps
  <2> HIDE DEF r
  <2>3. TypeInv' /\ call'[c] = r /\ Others(c)
    BY <1>7, <1>8, <1>11, <2>1, <2>2, TypesKept
  <2>4. Quiet(c)
    BY <1>2, <1>9, <2>2, <2>3 DEF Quiet, Changing, FileSteps
  <2>5. MemoryInv'
    <3> SUFFICES ASSUME ~raced'
                 PROVE  /\ Attached(memory')
                        /\ \A d \in Caller : At(d, "drop")' =>
                             \A e \in DOMAIN memory'.edges : Head(call'[d].merges).source \notin Ends(e)
      BY DEF MemoryInv, Attached
    <3>1. Attached(memory')
      BY <1>7, <1>10, <1>11, <2>3 DEF Attached
    <3>2. \A e \in DOMAIN memory'.edges : Head(call'[c].merges).source \notin Ends(e)
      BY <1>5, <1>7, <1>11, <2>2, <2>3
    <3> QED
      BY <1>10, <1>11, <2>3, <3>1, <3>2
  <2> QED
    BY <2>3, <2>4, <2>5
<1>12. CASE moved = {} /\ memory' = [g EXCEPT !.nodes = RemoveNode(g.nodes, s)] /\ NextMerge(c)
  <2>1. PICK r : CallOK(r) /\ r.step = "export" /\ Becomes(c, r)
    BY <1>12, NextMergeCall
  <2>2. NodesOK(g.nodes)
    BY <1>7, GraphHas
  <2> DEFINE ns == RemoveNode(g.nodes, s)
  <2>3. NodesOK(ns) /\ NodeIds(ns) = NodeIds(g.nodes) \ {s}
    BY <2>2, RemoveNodeKept
  <2> HIDE DEF ns
  <2>4. Graph(memory') /\ memory'.nodes = ns /\ memory'.edges = g.edges
    BY <1>7, <1>12, <2>3, WithNodes DEF ns
  <2>5. TypeInv' /\ call'[c] = r /\ Others(c)
    BY <1>8, <2>1, <2>4, TypesKept
  <2>6. Quiet(c)
    BY <1>2, <1>9, <2>1, <2>5 DEF Quiet, Changing, FileSteps
  <2>7. MemoryInv'
    <3> SUFFICES ASSUME ~raced'
                 PROVE  /\ Attached(memory')
                        /\ \A d \in Caller : At(d, "drop")' =>
                             \A e \in DOMAIN memory'.edges : Head(call'[d].merges).source \notin Ends(e)
      BY DEF MemoryInv, Attached
    <3>1. Attached(memory')
      BY <1>7, <1>10, <2>3, <2>4, <2>5 DEF Attached
    <3>2. ~At(c, "drop")'
      BY <2>1, <2>5 DEF At
    <3> QED
      BY <1>10, <2>4, <2>5, <3>1, <3>2
  <2> QED
    BY <2>5, <2>6, <2>7
<1> QED
  BY <1>3, <1>11, <1>12

\* The dropped node has no edge.
LEMMA DropSourceKept ==
  ASSUME TypeInv, MemoryInv, NEW c \in Caller, DropSource(c)
  PROVE  TypeInv' /\ Quiet(c) /\ MemoryInv'
<1> DEFINE s == Head(call[c].merges).source
           ns == RemoveNode(memory.nodes, s)
<1>1. CallOK(call[c]) /\ At(c, "drop")
  BY CallHas DEF DropSource
<1>2. /\ UNCHANGED <<disk, hydrated, bootstrapped, landings, clock, torn, broken, acked, raced>>
      /\ memory' = [memory EXCEPT !.nodes = ns] /\ NextMerge(c)
  BY DEF DropSource, bounds, history
<1>3. PICK r : CallOK(r) /\ r.step = "export" /\ Becomes(c, r)
  BY <1>2, NextMergeCall
<1>4. Graph(memory) /\ NodesOK(memory.nodes)
  BY GraphHas DEF TypeInv
<1>5. ~raced => \A e \in DOMAIN memory.edges : s \notin Ends(e)
  BY <1>1 DEF MemoryInv
<1> HIDE DEF s
<1>6. NodesOK(ns) /\ NodeIds(ns) = NodeIds(memory.nodes) \ {s}
  BY <1>4, RemoveNodeKept
<1> HIDE DEF ns
<1>7. Graph(memory') /\ memory'.nodes = ns /\ memory'.edges = memory.edges
  BY <1>2, <1>4, <1>6, WithNodes
<1>8. TypeInv' /\ call'[c] = r /\ Others(c)
  <2>1. /\ Graph(disk') /\ hydrated' \in BOOLEAN /\ bootstrapped' \in BOOLEAN
        /\ clock' \in Nat /\ acked' \subseteq Triple
    BY <1>2 DEF TypeInv
  <2> QED
    BY <1>3, <1>7, <2>1, TypesKept
<1>9. Quiet(c)
  BY <1>1, <1>2, <1>3, <1>8 DEF Quiet, Changing, FileSteps, At
<1>10. MemoryInv'
  <2> SUFFICES ASSUME ~raced'
               PROVE  /\ Attached(memory')
                      /\ \A d \in Caller : At(d, "drop")' =>
                           \A e \in DOMAIN memory'.edges : Head(call'[d].merges).source \notin Ends(e)
    BY DEF MemoryInv, Attached
  <2>1. ~raced
    BY <1>2
  <2>2. Attached(memory')
    BY <1>5, <1>6, <1>7, <2>1 DEF MemoryInv, Attached
  <2>3. ASSUME NEW d \in Caller, At(d, "drop")'
        PROVE  \A e \in DOMAIN memory'.edges : Head(call'[d].merges).source \notin Ends(e)
    <3>1. d # c
      BY <1>3, <1>8, <2>3 DEF At
    <3>2. call'[d] = call[d] /\ At(d, "drop")
      BY <1>8, <2>3, <3>1 DEF Others, At
    <3> QED
      BY <1>7, <2>1, <3>2 DEF MemoryInv
  <2> QED
    BY <2>2, <2>3
<1> QED
  BY <1>8, <1>9, <1>10

\* When those that write do nothing, their order stays.
LEMMA OrderStays ==
  ASSUME OrderInv, UNCHANGED landings,
         \A d \in Caller : (Writes(d)' <=> Writes(d)) /\ (Writes(d) => call'[d] = call[d])
  PROVE  /\ OrderInv'
         /\ \A d \in Caller, file \in Files : Timely(d, file)' <=> Timely(d, file)
<1>1. UNCHANGED <<before, overtaken, behind>>
  BY DEF landings
<1>2. \A d \in Caller, file \in Files : Pending(d, file)' <=> Pending(d, file)
  BY DEF Pending, Writes, At
<1>3. \A d \in Caller, file \in Files : Timely(d, file)' <=> Timely(d, file)
  BY <1>1, <1>2 DEF Timely
<1> QED
  BY <1>1, <1>2, <1>3 DEF OrderInv

\* Nor does what is known of the files change, when memory does not.
LEMMA FilesStay ==
  ASSUME DiskInv, OrderInv, UNCHANGED <<memory, disk, landings>>,
         \A d \in Caller : (Writes(d)' <=> Writes(d)) /\ (Writes(d) => call'[d] = call[d]),
         Unbroken' => Unbroken, Unbroken' /\ Loaded' => Loaded,
         \A d \in Caller : Changing(d) => Changing(d)'
  PROVE  DiskInv'
<1> SUFFICES ASSUME Loaded', Unbroken', \A d \in Caller : ~Changing(d)', NEW file \in Files
             PROVE  FileInv(file)'
  BY DEF DiskInv
<1>1. UNCHANGED <<before, overtaken, behind>>
  BY DEF landings
<1>2. FileInv(file)
  BY DEF DiskInv
<1>3. \A d \in Caller : Timely(d, file)' <=> Timely(d, file)
  BY OrderStays
<1>4. \A d \in Caller : Timely(d, file) => call'[d] = call[d]
  BY DEF Timely, Pending, Writes, At
<1> QED
  BY <1>1, <1>2, <1>3, <1>4 DEF FileInv, Newest

\* A step that leaves the files alone keeps what is known of them: memory stays, or
\* it is about to be saved.
LEMMA QuietKeeps ==
  ASSUME Inv, NEW c \in Caller, Quiet(c)
  PROVE  HydrateInv' /\ OrderInv' /\ DiskInv'
<1> USE DEF Quiet
<1>1. \A d \in Caller : d # c => call'[d] = call[d]
  BY DEF Others
<1>2. /\ call[c].step # "new" /\ ~Hydrates(c) /\ ~Writes(c)
      /\ call'[c].step # "new" /\ ~Hydrates(c)' /\ ~Writes(c)'
  BY DEF FileSteps, Hydrates, Writes
<1>3. \A d \in Caller : Hydrates(d)' => d # c /\ Hydrates(d)
  BY <1>1, <1>2 DEF Hydrates
<1>4. \A d \in Caller : (Writes(d)' <=> Writes(d)) /\ (Writes(d) => call'[d] = call[d])
  BY <1>1, <1>2 DEF Writes
<1>5. HydrateInv'
  <2>1. hydrated
    BY <1>2 DEF Inv, HydrateInv, At
  <2>2. ASSUME NEW d \in Caller, ~raced', Hydrates(d)' PROVE FALSE
    <3>1. Hydrates(d) /\ d # c /\ ~raced
      BY <1>3, <2>2
    <3>2. At(c, "new")
      BY <3>1 DEF Inv, HydrateInv
    <3> QED
      BY <1>2, <3>2 DEF At
  <2>3. bootstrapped' => hydrated'
    BY DEF Inv, HydrateInv
  <2> QED
    BY <2>1, <2>2, <2>3 DEF HydrateInv
<1>6. OrderInv'
  BY <1>4, OrderStays DEF Inv
<1>7. Unbroken' => Unbroken
  BY DEF Unbroken
<1>8. Loaded' => Loaded
  <2>1. ASSUME NEW d \in Caller, Hydrates(d) PROVE Hydrates(d)'
    BY <1>1, <1>2, <2>1 DEF Hydrates
  <2> QED
    BY <2>1 DEF Loaded, Hydrating, Hydrates
<1>9. DiskInv'
  <2>1. CASE broken' \/ Changing(c)'
    BY <2>1 DEF DiskInv, Unbroken
  <2>2. CASE memory' = memory /\ ~Changing(c)
    <3>1. \A d \in Caller : Changing(d) => Changing(d)'
      BY <1>1, <2>2 DEF Changing
    <3> QED
      BY <1>4, <1>7, <1>8, <2>2, <3>1, FilesStay DEF Inv
  <2> QED
    BY <2>1, <2>2
<1> QED
  BY <1>5, <1>6, <1>9

(***************************************************************************)
(* The first call loads the graph.                                         *)
(***************************************************************************)
\* A call that finds the graph loaded, or about to be.
LEMMA GoesOn ==
  ASSUME Inv, NEW c \in Caller, At(c, "new"), Done(c), hydrated, hydrated', bootstrapped' \in BOOLEAN,
         hydrated' \in BOOLEAN,
         raced' = (raced \/ Hydrating),
         UNCHANGED <<memory, disk, landings, clock, acked, torn, broken>>
  PROVE  Inv'
<1>1. TypeInv' /\ call'[c] = Idle /\ Others(c)
  <2>1. /\ Graph(memory') /\ Graph(disk') /\ clock' \in Nat
        /\ acked' \subseteq Triple
    BY DEF Inv, TypeInv
  <2>2. TypeInv /\ Becomes(c, Idle)
    BY DEF Inv, Done
  <2> QED
    BY <2>1, <2>2, IdleParts, TypesKept
<1>2. call[c].step = "new" /\ call'[c].step = "idle"
  BY <1>1, IdleParts DEF At
<1>3. \A d \in Caller : d # c => call'[d] = call[d]
  BY <1>1 DEF Others
<1>4. \A d \in Caller : (Writes(d)' <=> Writes(d)) /\ (Writes(d) => call'[d] = call[d])
  BY <1>2, <1>3 DEF Writes
<1>5. ~raced' => ~raced /\ \A d \in Caller : ~Hydrates(d) /\ ~Hydrates(d)'
  <2>1. Hydrates(c)' = FALSE
    BY <1>2 DEF Hydrates
  <2> QED
    BY <1>3, <2>1 DEF Hydrating, Hydrates
<1>6. HydrateInv'
  BY <1>5 DEF HydrateInv
<1>7. MemoryInv'
  <2> SUFFICES ASSUME ~raced'
               PROVE  /\ Attached(memory')
                      /\ \A d \in Caller : At(d, "drop")' =>
                           \A e \in DOMAIN memory'.edges : Head(call'[d].merges).source \notin Ends(e)
    BY DEF MemoryInv, Attached
  <2>1. \A d \in Caller : At(d, "drop")' => At(d, "drop") /\ call'[d] = call[d]
    BY <1>2, <1>3 DEF At
  <2>2. Attached(memory')
    BY <1>5 DEF Inv, MemoryInv
  <2> QED
    BY <1>5, <2>1, <2>2 DEF Inv, MemoryInv
<1>8. OrderInv'
  BY <1>4, OrderStays DEF Inv
<1>9. DiskInv'
  <2>1. \A d \in Caller : Changing(d) => Changing(d)'
    BY <1>2, <1>3 DEF Changing
  <2>2. Unbroken' => Unbroken /\ Loaded
    BY <1>5 DEF Unbroken, Loaded, Hydrating, Hydrates
  <2> QED
    BY <1>4, <2>1, <2>2, FilesStay DEF Inv
<1> QED
  BY <1>1, <1>6, <1>7, <1>8, <1>9 DEF Inv

\* A later call finds the graph ready.
LEMMA ReadyKept ==
  ASSUME Inv, NEW c \in Caller, Ready(c)
  PROVE  Inv'
<1>1. hydrated /\ hydrated' /\ hydrated' \in BOOLEAN /\ bootstrapped' \in BOOLEAN
  BY DEF Inv, TypeInv, HydrateInv, Ready
<1>2. /\ At(c, "new") /\ Done(c) /\ raced' = (raced \/ Hydrating)
      /\ UNCHANGED <<memory, disk, landings, clock, acked, torn, broken>>
  BY DEF Ready, bounds
<1> QED
  BY <1>1, <1>2, GoesOn

\* The first call starts to load; one that comes meanwhile goes on without.
LEMMA HydrateStartKept ==
  ASSUME Inv, NEW c \in Caller, HydrateStart(c)
  PROVE  Inv'
<1>1. /\ At(c, "new") /\ hydrated' /\ hydrated' \in BOOLEAN
      /\ UNCHANGED <<memory, disk, landings, clock, acked, torn, broken>>
  BY DEF HydrateStart, bounds
<1>2. CASE hydrated
  <2>1. Done(c) /\ raced' = (raced \/ Hydrating) /\ bootstrapped' \in BOOLEAN
    BY <1>2 DEF HydrateStart
  <2> QED
    BY <1>1, <1>2, <2>1, GoesOn
<1>3. CASE ~hydrated
  <2> DEFINE r == Rec("hydrateNodes", call[c].next, call[c].read, call[c].merges, call[c].edges,
                      call[c].nodes, call[c].fact)
  <2>1. Goto(c, "hydrateNodes") /\ UNCHANGED <<bootstrapped, raced>>
    BY <1>3 DEF HydrateStart
  <2>2. CallOK(call[c]) /\ IsCall(call[c]) /\ Editable(call[c])
    BY CallHas DEF Inv
  <2>3. Becomes(c, r)
    <3>1. \A x : [call[c] EXCEPT !.step = x]
                   = Rec(x, call[c].next, call[c].read, call[c].merges, call[c].edges,
                         call[c].nodes, call[c].fact)
      BY <2>2, Zenon DEF Editable
    <3>2. [call[c] EXCEPT !.step = "hydrateNodes"] = r
      BY <3>1, Zenon
    <3> QED
      BY <2>1, <3>2, Zenon DEF Goto
  <2>4. CallOK(r) /\ r.step = "hydrateNodes"
    <3>1. /\ IsCall(r) /\ r.step = "hydrateNodes" /\ r.next = call[c].next /\ r.edges = call[c].edges
          /\ r.nodes = call[c].nodes /\ r.fact = call[c].fact /\ r.read = call[c].read
      BY <2>2, RecParts, RecIsCall DEF IsCall
    <3> HIDE DEF r
    <3> QED
      BY <1>1, <2>2, <3>1 DEF CallOK, Steps, At
  <2> HIDE DEF r
  <2>5. TypeInv' /\ call'[c] = r /\ Others(c)
    <3>1. /\ Graph(memory') /\ Graph(disk') /\ clock' \in Nat
          /\ acked' \subseteq Triple /\ bootstrapped' \in BOOLEAN /\ TypeInv
      BY <1>1, <2>1 DEF Inv, TypeInv
    <3> QED
      BY <1>1, <2>3, <2>4, <3>1, TypesKept
  <2>6. memory = EmptyGraph /\ ~bootstrapped /\ behind' = {} /\ \A d \in Caller : call[d].step = "new"
    BY <1>1, <1>3 DEF Inv, HydrateInv, At, landings
  <2>7. call'[c].step = "hydrateNodes" /\ \A d \in Caller : d # c => call'[d].step = "new"
    BY <2>4, <2>5, <2>6 DEF Others
  <2>8. \A d \in Caller : ~Writes(d) /\ ~Writes(d)' /\ ~At(d, "drop")'
    BY <2>6, <2>7 DEF Writes, At
  <2>9. OrderInv'
    BY <1>1, <2>8, OrderStays DEF Inv
  <2>10. HydrateInv'
    BY <1>1, <2>1, <2>6, <2>7 DEF HydrateInv, Hydrates, At
  <2>11. MemoryInv'
    BY <1>1, <2>1, <2>8 DEF Inv, MemoryInv, Attached
  <2>12. DiskInv'
    <3>1. Hydrating'
      BY <2>7 DEF Hydrating
    <3> QED
      BY <3>1 DEF DiskInv, Loaded
  <2> QED
    BY <2>5, <2>9, <2>10, <2>11, <2>12 DEF Inv
<1> QED
  BY <1>2, <1>3

\* The nodes are read from the file.
LEMMA HydrateNodesKept ==
  ASSUME Inv, NEW c \in Caller, HydrateNodes(c)
  PROVE  Inv'
<1> DEFINE g == [nodes |-> disk.nodes, edges |-> call[c].read.edges]
           r == Rec("hydrateEdges", call[c].next, g, call[c].merges, call[c].edges,
                    call[c].nodes, call[c].fact)
<1>1. /\ At(c, "hydrateNodes")
      /\ UNCHANGED <<memory, disk, hydrated, bootstrapped, landings, clock, acked, torn, broken, raced>>
  BY DEF HydrateNodes, bounds, history
<1>2. CallOK(call[c]) /\ IsCall(call[c]) /\ Editable(call[c]) /\ TypeInv
  BY CallHas DEF Inv
<1>3. call[c].read = EmptyGraph
  BY <1>1, <1>2 DEF CallOK, At
<1>4. Graph(g) /\ g.nodes = disk.nodes /\ g.edges = EmptyGraph.edges
  <2>1. NodesOK(disk.nodes) /\ EdgesOK(EmptyGraph.edges)
    BY <1>2, EmptyGraphOK, GraphHas DEF TypeInv
  <2> QED
    BY <1>3, <2>1, GraphParts
<1>5. Becomes(c, r)
  <2>1. \A s, x : [call[c] EXCEPT !.step = s, !.read = x]
                   = Rec(s, call[c].next, x, call[c].merges, call[c].edges, call[c].nodes, call[c].fact)
    BY <1>2, Zenon DEF Editable
  <2>2. \A x : [call[c].read EXCEPT !.nodes = x] = [nodes |-> x, edges |-> call[c].read.edges]
    BY <1>2, Zenon DEF Editable
  <2>3. [call[c] EXCEPT !.step = "hydrateEdges", !.read = [call[c].read EXCEPT !.nodes = disk.nodes]]
          = Rec("hydrateEdges", call[c].next, [call[c].read EXCEPT !.nodes = disk.nodes],
                call[c].merges, call[c].edges, call[c].nodes, call[c].fact)
    BY <2>1, Zenon
  <2>4. [call[c].read EXCEPT !.nodes = disk.nodes] = g
    BY <2>2, Zenon
  <2> QED
    BY <2>3, <2>4, Zenon DEF HydrateNodes
<1>6. CallOK(r) /\ r.step = "hydrateEdges" /\ r.read = g
  <2>1. /\ r.step = "hydrateEdges" /\ r.next = call[c].next /\ r.edges = call[c].edges
        /\ r.nodes = call[c].nodes /\ r.fact = call[c].fact /\ r.read = g
    BY RecParts
  <2>2. g = [nodes |-> g.nodes, edges |-> g.edges]
    OBVIOUS
  <2>3. IsCall(r)
    BY <2>2, RecIsCall
  <2> HIDE DEF r, g
  <2> QED
    BY <1>2, <1>4, <2>1, <2>3 DEF CallOK, Steps
<1> HIDE DEF r, g
<1>7. TypeInv' /\ call'[c] = r /\ Others(c)
  <2>1. /\ Graph(memory') /\ Graph(disk') /\ clock' \in Nat
        /\ acked' \subseteq Triple /\ bootstrapped' \in BOOLEAN /\ hydrated' \in BOOLEAN
    BY <1>1, <1>2 DEF TypeInv
  <2> QED
    BY <1>2, <1>5, <1>6, <2>1, TypesKept
<1>8. \A d \in Caller : d # c => call'[d] = call[d]
  BY <1>7 DEF Others
<1>9. OrderInv'
  <2>1. \A d \in Caller : (Writes(d)' <=> Writes(d)) /\ (Writes(d) => call'[d] = call[d])
    BY <1>1, <1>6, <1>7, <1>8 DEF Writes, At
  <2> QED
    BY <1>1, <2>1, OrderStays DEF Inv
<1>10. HydrateInv'
  <2>1. hydrated
    BY <1>1 DEF Inv, HydrateInv, At
  <2>2. ASSUME ~raced, NEW d \in Caller, Hydrates(d)'
        PROVE  /\ d = c /\ memory = EmptyGraph /\ behind' = {}
               /\ \A x \in Caller : x # c => At(x, "new")'
    <3>1. Hydrates(c)
      BY <1>1 DEF At, Hydrates
    <3>2. memory = EmptyGraph /\ behind' = {} /\ \A x \in Caller : x # c => At(x, "new")
      BY <1>1, <2>2, <3>1 DEF Inv, HydrateInv, landings
    <3>3. d = c
      BY <1>8, <2>2, <3>2 DEF At, Hydrates
    <3> QED
      BY <1>8, <3>2, <3>3 DEF At
  <2>3. call'[c].read.nodes = disk'.nodes
    BY <1>1, <1>4, <1>6, <1>7
  <2>4. bootstrapped' => hydrated'
    BY <1>1, <2>1
  <2> QED
    BY <1>1, <2>1, <2>2, <2>3, <2>4 DEF HydrateInv
<1>11. MemoryInv'
  <2> SUFFICES ASSUME ~raced'
               PROVE  /\ Attached(memory')
                      /\ \A d \in Caller : At(d, "drop")' =>
                           \A e \in DOMAIN memory'.edges : Head(call'[d].merges).source \notin Ends(e)
    BY DEF MemoryInv, Attached
  <2>1. \A d \in Caller : At(d, "drop")' => At(d, "drop") /\ call'[d] = call[d]
    BY <1>6, <1>7, <1>8 DEF At
  <2>2. Attached(memory')
    BY <1>1 DEF Inv, MemoryInv
  <2> QED
    BY <1>1, <2>1, <2>2 DEF Inv, MemoryInv
<1>12. DiskInv'
  <2>1. Hydrating'
    BY <1>6, <1>7 DEF Hydrating
  <2> QED
    BY <2>1 DEF DiskInv, Loaded
<1> QED
  BY <1>7, <1>9, <1>10, <1>11, <1>12 DEF Inv

\* A call that changes and does not come to drop a node leaves memory in order.
LEMMA MemoryStays ==
  ASSUME MemoryInv, NEW c \in Caller, Others(c), ~At(c, "drop")', UNCHANGED memory,
         raced => raced'
  PROVE  MemoryInv'
<1> SUFFICES ASSUME ~raced'
             PROVE  /\ Attached(memory')
                    /\ \A d \in Caller : At(d, "drop")' =>
                         \A e \in DOMAIN memory'.edges : Head(call'[d].merges).source \notin Ends(e)
  BY DEF MemoryInv, Attached
<1>1. \A d \in Caller : At(d, "drop")' => At(d, "drop") /\ call'[d] = call[d]
  BY DEF Others, At
<1>2. Attached(memory')
  BY DEF MemoryInv
<1> QED
  BY <1>1, <1>2 DEF MemoryInv

\* A loaded graph is the one on disk, unless that was torn.
LEMMA HydrateEdgesKept ==
  ASSUME Inv, NEW c \in Caller, HydrateEdges(c)
  PROVE  Inv'
<1> DEFINE g == [nodes |-> call[c].read.nodes, edges |-> disk.edges]
<1>1. /\ At(c, "hydrateEdges")
      /\ UNCHANGED <<disk, hydrated, landings, clock, acked, broken, raced>>
      /\ bootstrapped' = TRUE /\ Becomes(c, Idle)
  BY DEF HydrateEdges, bounds, history, Done
<1>2. CallOK(call[c]) /\ IsCall(call[c]) /\ Editable(call[c]) /\ TypeInv
  BY CallHas DEF Inv
<1>3. /\ memory' = IF g # EmptyGraph /\ Attached(g) THEN g ELSE memory
      /\ torn' = (torn \/ ~Attached(g))
  <2>1. \A x : [call[c].read EXCEPT !.edges = x] = [nodes |-> call[c].read.nodes, edges |-> x]
    BY <1>2, Zenon DEF Editable
  <2>2. [call[c].read EXCEPT !.edges = disk.edges] = g
    BY <2>1, Zenon
  <2> QED
    BY <2>2, Zenon DEF HydrateEdges
<1>4. Graph(g)
  <2>1. Graph(call[c].read) /\ Graph(disk)
    BY <1>1, <1>2 DEF CallOK, TypeInv, At
  <2>2. NodesOK(call[c].read.nodes) /\ EdgesOK(disk.edges)
    BY <2>1, GraphHas
  <2> QED
    BY <2>2, GraphParts
<1>5. disk = [nodes |-> disk.nodes, edges |-> disk.edges]
  BY <1>2 DEF TypeInv, Graph
<1>6. TypeInv' /\ call'[c] = Idle /\ Others(c)
  <2>1. /\ Graph(memory') /\ Graph(disk') /\ clock' \in Nat
        /\ acked' \subseteq Triple /\ bootstrapped' \in BOOLEAN /\ hydrated' \in BOOLEAN
    BY <1>1, <1>2, <1>3, <1>4 DEF TypeInv
  <2> QED
    BY <1>1, <1>2, <2>1, IdleParts, TypesKept
<1>7. call[c].step = "hydrateEdges" /\ call'[c].step = "idle"
  BY <1>1, <1>6, IdleParts DEF At
<1>8. \A d \in Caller : d # c => call'[d] = call[d]
  BY <1>6 DEF Others
<1>9. ASSUME ~raced
      PROVE  /\ memory = EmptyGraph /\ g = disk
             /\ \A d \in Caller : d # c => call[d].step = "new" /\ call'[d].step = "new"
  <2>1. Hydrates(c)
    BY <1>7 DEF Hydrates
  <2>2. /\ memory = EmptyGraph /\ call[c].read.nodes = disk.nodes
        /\ \A d \in Caller : d # c => call[d].step = "new"
    BY <1>1, <1>9, <2>1 DEF Inv, HydrateInv, At
  <2> QED
    BY <1>5, <1>8, <2>2
<1> HIDE DEF g
<1>10. OrderInv'
  <2>1. \A d \in Caller : (Writes(d)' <=> Writes(d)) /\ (Writes(d) => call'[d] = call[d])
    BY <1>7, <1>8 DEF Writes
  <2> QED
    BY <1>1, <2>1, OrderStays DEF Inv
<1>11. HydrateInv'
  <2>1. hydrated
    BY <1>1, <1>7 DEF Inv, HydrateInv, At
  <2>2. ASSUME ~raced, NEW d \in Caller PROVE ~Hydrates(d)'
    BY <1>7, <1>9, <2>2 DEF Hydrates
  <2> QED
    BY <1>1, <2>1, <2>2 DEF HydrateInv
<1>12. MemoryInv'
  <2> SUFFICES ASSUME ~raced'
               PROVE  /\ Attached(memory')
                      /\ \A d \in Caller : At(d, "drop")' =>
                           \A e \in DOMAIN memory'.edges : Head(call'[d].merges).source \notin Ends(e)
    BY DEF MemoryInv, Attached
  <2>1. \A d \in Caller : ~At(d, "drop")'
    BY <1>1, <1>7, <1>9 DEF At
  <2>2. Attached(memory')
    BY <1>1, <1>3 DEF Inv, MemoryInv
  <2> QED
    BY <2>1, <2>2
<1>13. DiskInv'
  <2> SUFFICES ASSUME ~raced', ~torn', NEW file \in Files PROVE FileInv(file)'
    BY DEF DiskInv, Unbroken
  <2>1. \A d \in Caller : ~Timely(d, file)'
    BY <1>1, <1>7, <1>9 DEF Timely, Pending, At
  <2>2. disk' = memory'
    BY <1>1, <1>3, <1>9
  <2> QED
    BY <2>1, <2>2 DEF FileInv
<1> QED
  BY <1>6, <1>10, <1>11, <1>12, <1>13 DEF Inv

(***************************************************************************)
(* The calls that save the graph.                                          *)
(***************************************************************************)
\* Nobody loads while a call does something else, unless they race.
LEMMA HydrateStays ==
  ASSUME Inv, NEW c \in Caller, Others(c), UNCHANGED <<hydrated, bootstrapped, raced>>,
         call[c].step # "new", ~Hydrates(c), ~Hydrates(c)'
  PROVE  HydrateInv' /\ hydrated /\ (~raced => \A d \in Caller : ~Hydrates(d))
<1>1. hydrated
  BY DEF Inv, HydrateInv, At
<1>2. ASSUME ~raced, NEW d \in Caller PROVE ~Hydrates(d)
  BY <1>2 DEF Inv, HydrateInv, At
<1>3. \A d \in Caller : Hydrates(d)' <=> Hydrates(d)
  BY DEF Others, Hydrates
<1> QED
  BY <1>1, <1>2, <1>3 DEF Inv, HydrateInv

\* A copy of memory is made: it is the newest.
LEMMA ExportKept ==
  ASSUME Inv, NEW c \in Caller, Export(c)
  PROVE  Inv'
<1> DEFINE r == Rec("writeNodes", call[c].next, memory, call[c].merges, call[c].edges,
                    call[c].nodes, call[c].fact)
<1>1. /\ At(c, "export")
      /\ before' = before \union {<<d, c>> : d \in {x \in Caller : Writes(x)}}
      /\ UNCHANGED <<memory, disk, hydrated, bootstrapped, clock, acked, torn, broken, raced,
                     overtaken, behind>>
  BY DEF Export, bounds, history
<1>2. CallOK(call[c]) /\ IsCall(call[c]) /\ Editable(call[c]) /\ TypeInv
  BY CallHas DEF Inv
<1>3. Becomes(c, r)
  <2>1. \A s, x : [call[c] EXCEPT !.step = s, !.read = x]
                   = Rec(s, call[c].next, x, call[c].merges, call[c].edges, call[c].nodes, call[c].fact)
    BY <1>2, Zenon DEF Editable
  <2>2. [call[c] EXCEPT !.step = "writeNodes", !.read = memory] = r
    BY <2>1, Zenon
  <2> QED
    BY <2>2, Zenon DEF Export
<1>4. Graph(memory) /\ memory = [nodes |-> memory.nodes, edges |-> memory.edges]
  BY <1>2 DEF TypeInv, Graph
<1>5. CallOK(r) /\ r.step = "writeNodes" /\ r.read = memory
  <2>1. /\ r.step = "writeNodes" /\ r.next = call[c].next /\ r.edges = call[c].edges
        /\ r.nodes = call[c].nodes /\ r.fact = call[c].fact /\ r.read = memory
    BY RecParts
  <2>2. IsCall(r)
    BY <1>4, RecIsCall
  <2> HIDE DEF r
  <2> QED
    BY <1>2, <1>4, <2>1, <2>2 DEF CallOK, Steps
<1> HIDE DEF r
<1>6. TypeInv' /\ call'[c] = r /\ Others(c)
  <2>1. /\ Graph(memory') /\ Graph(disk') /\ clock' \in Nat
        /\ acked' \subseteq Triple /\ bootstrapped' \in BOOLEAN /\ hydrated' \in BOOLEAN
    BY <1>1, <1>2 DEF TypeInv
  <2> QED
    BY <1>2, <1>3, <1>5, <2>1, TypesKept
<1>7. call[c].step = "export" /\ call'[c].step = "writeNodes" /\ call'[c].read = memory
  BY <1>1, <1>5, <1>6 DEF At
<1>8. \A d \in Caller : d # c => call'[d] = call[d]
  BY <1>6 DEF Others
<1>9. /\ Writes(c)' /\ ~Writes(c)
      /\ \A d \in Caller : d # c => (Writes(d)' <=> Writes(d))
      /\ \A file \in Files : Pending(c, file)' /\ ~Pending(c, file)
      /\ \A d \in Caller, file \in Files : d # c => (Pending(d, file)' <=> Pending(d, file))
  BY <1>7, <1>8 DEF Writes, Pending, At
<1>10. \A d, e \in Caller :
         <<d, e>> \in before' <=> <<d, e>> \in before \/ (e = c /\ Writes(d))
  BY <1>1
<1>11. /\ \A file \in Files : Timely(c, file)'
       /\ \A d \in Caller, file \in Files : d # c => (Timely(d, file)' <=> Timely(d, file))
  BY <1>1, <1>9 DEF Timely, Inv, OrderInv
<1>12. OrderInv'
  <2>1. before' \subseteq Caller \X Caller
    BY <1>1 DEF Inv, OrderInv
  <2>2. \A d, e \in Caller : <<d, e>> \in before' => Writes(d)' /\ Writes(e)' /\ d # e
    BY <1>9, <1>10 DEF Inv, OrderInv
  <2>3. \A d, e \in Caller :
          Writes(d)' /\ Writes(e)' /\ d # e => <<d, e>> \in before' \/ <<e, d>> \in before'
    BY <1>9, <1>10 DEF Inv, OrderInv
  <2>4. ASSUME NEW b \in Caller, NEW d \in Caller, NEW e \in Caller,
               <<b, d>> \in before', <<d, e>> \in before'
        PROVE  <<b, e>> \in before'
    <3>1. d # c /\ <<b, d>> \in before /\ Writes(b)
      BY <1>9, <1>10, <2>4 DEF Inv, OrderInv
    <3> QED
      BY <1>10, <2>4, <3>1 DEF Inv, OrderInv
  <2>5. \A d \in Caller, file \in Files : <<d, file>> \in overtaken' => Pending(d, file)'
    BY <1>1, <1>9 DEF Inv, OrderInv
  <2>6. ASSUME NEW d \in Caller, NEW e \in Caller, NEW file \in Files,
               <<d, e>> \in before', Pending(d, file)', ~Timely(e, file)'
        PROVE  ~Timely(d, file)'
    <3>1. e # c
      BY <1>11, <2>6
    <3>2. <<d, e>> \in before /\ d # c
      BY <1>9, <1>10, <2>6, <3>1 DEF Inv, OrderInv
    <3> QED
      BY <1>9, <1>11, <2>6, <3>1, <3>2 DEF Inv, OrderInv
  <2>7. overtaken' \subseteq Caller \X Files /\ behind' \subseteq Files
    BY <1>1 DEF Inv, OrderInv
  <2> QED
    BY <2>1, <2>2, <2>3, <2>4, <2>5, <2>6, <2>7 DEF OrderInv
<1>13. HydrateInv'
  BY <1>1, <1>6, <1>7, HydrateStays DEF Hydrates
<1>14. MemoryInv'
  BY <1>1, <1>6, <1>7, MemoryStays DEF Inv, At
<1>15. DiskInv'
  <2> SUFFICES ASSUME NEW file \in Files PROVE FileInv(file)'
    BY DEF DiskInv
  <2>1. ASSUME NEW d \in Caller, Timely(d, file)', Newest(d)'
        PROVE  call'[d].read[file] = memory'[file]
    <3>1. CASE d = c
      BY <1>1, <1>7, <3>1
    <3>2. CASE d # c
      <4>1. Writes(d)
        BY <1>9, <2>1, <3>2 DEF Timely, Pending, Writes, At
      <4>2. <<d, c>> \in before'
        BY <1>10, <4>1
      <4> QED
        BY <2>1, <4>2 DEF Newest
    <3> QED
      BY <3>1, <3>2
  <2> QED
    BY <1>11, <2>1 DEF FileInv
<1> QED
  BY <1>6, <1>12, <1>13, <1>14, <1>15 DEF Inv

\* When c's copy of file lands, the others stay in their order, and those that are
\* older than a copy in the file are overtaken.
LEMMA LandOrder ==
  ASSUME OrderInv, NEW c \in Caller, NEW file \in Files, Land(c, file), Pending(c, file),
         \A d \in Caller, f \in Files :
           Pending(d, f)' <=> Pending(d, f) /\ ~(d = c /\ f = file),
         before' \subseteq before,
         \A d, e \in Caller :
           <<d, e>> \in before' <=> <<d, e>> \in before /\ Writes(d)' /\ Writes(e)',
         \A d \in Caller : Writes(d)' => Writes(d)
  PROVE  OrderInv'
<1>1. /\ \A d \in Caller : \A f \in Files :
           <<d, f>> \in overtaken' <=>
             \/ <<d, f>> \in overtaken /\ ~(d = c /\ f = file)
             \/ f = file /\ <<d, c>> \in before /\ Pending(d, f)
      /\ overtaken' \subseteq Caller \X Files
      /\ behind' \subseteq Files
  <2>1. overtaken \subseteq Caller \X Files /\ behind \subseteq Files
    BY DEF OrderInv
  <2>2. overtaken' = (overtaken \ {<<c, file>>})
                       \union {<<d, file>> : d \in {x \in Caller : <<x, c>> \in before /\ Pending(x, file)}}
    BY Zenon DEF Land
  <2>3. behind' = IF <<c, file>> \in overtaken THEN behind \union {file} ELSE behind \ {file}
    BY DEF Land
  <2>4. overtaken' \subseteq Caller \X Files
    <3>1. \A x \in overtaken' : x \in overtaken \/ \E d \in Caller : x = <<d, file>>
      BY <2>2, Zenon
    <3>2. \A d \in Caller : <<d, file>> \in Caller \X Files
      OBVIOUS
    <3> QED
      BY <2>1, <3>1, <3>2, Zenon
  <2>5. behind' \subseteq Files
    BY <2>1, <2>3
  <2>6. \A d \in Caller : \A f \in Files :
          <<d, f>> \in overtaken' <=>
            \/ <<d, f>> \in overtaken /\ ~(d = c /\ f = file)
            \/ f = file /\ <<d, c>> \in before /\ Pending(d, file)
    BY <2>2
  <2> QED
    BY <2>4, <2>5, <2>6
<1>2. \A d \in Caller : <<d, c>> \in before => d # c
  BY DEF OrderInv
<1>3. before' \subseteq Caller \X Caller
  BY DEF OrderInv
<1>4. \A d, e \in Caller : <<d, e>> \in before' => Writes(d)' /\ Writes(e)' /\ d # e
  BY DEF OrderInv
<1>5. \A d, e \in Caller :
        Writes(d)' /\ Writes(e)' /\ d # e => <<d, e>> \in before' \/ <<e, d>> \in before'
  BY DEF OrderInv
<1>6. \A b, d, e \in Caller :
        <<b, d>> \in before' /\ <<d, e>> \in before' => <<b, e>> \in before'
  BY DEF OrderInv
<1>7. ASSUME NEW d \in Caller, NEW f \in Files, <<d, f>> \in overtaken' PROVE Pending(d, f)'
  BY <1>1, <1>2, <1>7 DEF OrderInv
<1>8. ASSUME NEW d \in Caller, NEW e \in Caller, NEW f \in Files,
             <<d, e>> \in before', Pending(d, f)', ~Timely(e, f)'
      PROVE  ~Timely(d, f)'
  <2>1. <<d, e>> \in before /\ Pending(d, f)
    BY <1>8
  <2>2. ~Timely(e, f) => <<d, f>> \in overtaken
    BY <2>1 DEF OrderInv, Timely
  <2>3. <<d, f>> \in overtaken => <<d, f>> \in overtaken'
    BY <1>1, <1>8
  <2>4. CASE Timely(e, f)
    <3>1. f = file /\ (e = c \/ <<e, c>> \in before)
      BY <1>1, <1>8, <2>4 DEF Timely
    <3>2. <<d, c>> \in before
      BY <2>1, <3>1 DEF OrderInv
    <3> QED
      BY <1>1, <2>1, <3>1, <3>2 DEF Timely
  <2> QED
    BY <2>2, <2>3, <2>4 DEF Timely
<1> QED
  BY <1>1, <1>3, <1>4, <1>5, <1>6, <1>7, <1>8 DEF OrderInv

\* The file it lands in is as memory when no later one will, unless it was overtaken.
LEMMA LandFile ==
  ASSUME OrderInv, NEW c \in Caller, NEW file \in Files, Land(c, file), Pending(c, file),
         FileInv(file), UNCHANGED memory, disk'[file] = call[c].read[file],
         \A d \in Caller :
           /\ Pending(d, file)' <=> Pending(d, file) /\ d # c
           /\ d # c => call'[d] = call[d],
         \A d, e \in Caller : <<d, e>> \in before /\ e # c /\ d # c => <<d, e>> \in before'
  PROVE  FileInv(file)'
<1>1. /\ \A d \in Caller : <<d, file>> \in overtaken' <=>
           \/ <<d, file>> \in overtaken /\ d # c
           \/ <<d, c>> \in before /\ Pending(d, file)
      /\ behind' = IF <<c, file>> \in overtaken THEN behind \union {file} ELSE behind \ {file}
  <2>1. overtaken' = (overtaken \ {<<c, file>>})
                       \union {<<d, file>> : d \in {x \in Caller : <<x, c>> \in before /\ Pending(x, file)}}
    BY Zenon DEF Land
  <2> QED
    BY <2>1, Zenon DEF Land
<1>2. ASSUME NEW d \in Caller, Timely(d, file)', Newest(d)'
      PROVE  call'[d].read[file] = memory'[file]
  <2>1. d # c /\ Timely(d, file) /\ <<d, c>> \notin before
    BY <1>1, <1>2 DEF Timely
  <2>2. Newest(d)
    BY <1>2, <2>1 DEF Newest
  <2> QED
    BY <2>1, <2>2 DEF FileInv
<1>3. ASSUME file \notin behind', \A d \in Caller : ~Timely(d, file)'
      PROVE  disk'[file] = memory'[file]
  <2>1. Timely(c, file)
    BY <1>1, <1>3 DEF Timely
  <2>2. Newest(c)
    <3> SUFFICES ASSUME NEW d \in Caller, <<c, d>> \in before PROVE FALSE
      BY DEF Newest
    <3>1. Timely(d, file) /\ d # c /\ <<d, c>> \notin before
      BY <2>1 DEF OrderInv, Timely
    <3>2. Timely(d, file)'
      BY <1>1, <3>1 DEF Timely
    <3> QED
      BY <1>3, <3>2
  <2> QED
    BY <2>1, <2>2 DEF FileInv
<1> QED
  BY <1>2, <1>3 DEF FileInv

\* The other file is not touched.
LEMMA LandElsewhere ==
  ASSUME OrderInv, NEW c \in Caller, NEW file \in Files, NEW f \in Files, f # file,
         Land(c, file), FileInv(f), UNCHANGED memory, disk'[f] = disk[f],
         \A d \in Caller : /\ Pending(d, f)' <=> Pending(d, f)
                           /\ Pending(d, f) => call'[d].read = call[d].read,
         \A d, e \in Caller :
           <<d, e>> \in before /\ <<d, e>> \notin before' => ~Pending(d, f) \/ ~Pending(e, f)
  PROVE  FileInv(f)'
<1>1. /\ \A d \in Caller : <<d, f>> \in overtaken' <=> <<d, f>> \in overtaken
      /\ f \in behind' <=> f \in behind
  <2>1. overtaken' = (overtaken \ {<<c, file>>})
                       \union {<<d, file>> : d \in {x \in Caller : <<x, c>> \in before /\ Pending(x, file)}}
    BY Zenon DEF Land
  <2>2. behind' = IF <<c, file>> \in overtaken THEN behind \union {file} ELSE behind \ {file}
    BY Zenon DEF Land
  <2> QED
    BY <2>1, <2>2
<1>2. \A d \in Caller : Timely(d, f)' <=> Timely(d, f)
  BY <1>1 DEF Timely
<1>3. ASSUME NEW d \in Caller, Timely(d, f), Newest(d)' PROVE Newest(d)
  <2> SUFFICES ASSUME NEW e \in Caller, <<d, e>> \in before PROVE FALSE
    BY DEF Newest
  <2>1. <<d, e>> \notin before' /\ Pending(d, f)
    BY <1>3 DEF Newest, Timely
  <2>2. ~Timely(e, f)
    BY <2>1 DEF Timely
  <2> QED
    BY <1>3, <2>1, <2>2 DEF OrderInv
<1>4. ASSUME NEW d \in Caller, Timely(d, f)', Newest(d)'
      PROVE  call'[d].read[f] = memory'[f]
  <2>1. Timely(d, f) /\ Newest(d) /\ call'[d].read = call[d].read
    BY <1>2, <1>3, <1>4 DEF Timely
  <2> QED
    BY <2>1 DEF FileInv
<1> QED
  BY <1>1, <1>2, <1>4 DEF FileInv

\* The nodes land, in whatever order.
LEMMA WriteNodesKept ==
  ASSUME Inv, NEW c \in Caller, WriteNodes(c)
  PROVE  Inv'
<1> DEFINE r == Rec("writeEdges", call[c].next, call[c].read, call[c].merges, call[c].edges,
                    call[c].nodes, call[c].fact)
<1>1. /\ At(c, "writeNodes") /\ disk' = [disk EXCEPT !.nodes = call[c].read.nodes]
      /\ Land(c, "nodes")
      /\ UNCHANGED <<memory, hydrated, bootstrapped, clock, acked, torn, broken, raced, before>>
  BY DEF WriteNodes, bounds, history
<1>2. CallOK(call[c]) /\ IsCall(call[c]) /\ Editable(call[c]) /\ TypeInv
  BY CallHas DEF Inv
<1>3. Becomes(c, r)
  <2>1. \A x : [call[c] EXCEPT !.step = x]
                 = Rec(x, call[c].next, call[c].read, call[c].merges, call[c].edges,
                       call[c].nodes, call[c].fact)
    BY <1>2, Zenon DEF Editable
  <2>2. [call[c] EXCEPT !.step = "writeEdges"] = r
    BY <2>1, Zenon
  <2> QED
    BY <2>2, Zenon DEF WriteNodes, Goto
<1>4. Graph(call[c].read)
  BY <1>1, <1>2 DEF CallOK, At
<1>5. CallOK(r) /\ r.step = "writeEdges" /\ r.read = call[c].read
  <2>1. /\ r.step = "writeEdges" /\ r.next = call[c].next /\ r.edges = call[c].edges
        /\ r.nodes = call[c].nodes /\ r.fact = call[c].fact /\ r.read = call[c].read
    BY RecParts
  <2>2. IsCall(r)
    BY <1>2, RecIsCall DEF IsCall
  <2> HIDE DEF r
  <2> QED
    BY <1>2, <1>4, <2>1, <2>2 DEF CallOK, Steps
<1> HIDE DEF r
<1>6. Graph(disk') /\ disk'.nodes = call[c].read.nodes /\ disk'.edges = disk.edges
  <2>1. Graph(disk) /\ NodesOK(call[c].read.nodes)
    BY <1>2, <1>4, GraphHas DEF TypeInv
  <2> QED
    BY <1>1, <2>1, WithNodes
<1>7. TypeInv' /\ call'[c] = r /\ Others(c)
  <2>1. /\ Graph(memory') /\ clock' \in Nat
        /\ acked' \subseteq Triple /\ bootstrapped' \in BOOLEAN /\ hydrated' \in BOOLEAN
    BY <1>1, <1>2 DEF TypeInv
  <2> QED
    BY <1>2, <1>3, <1>5, <1>6, <2>1, TypesKept
<1>8. call[c].step = "writeNodes" /\ call'[c].step = "writeEdges" /\ call'[c].read = call[c].read
  BY <1>1, <1>5, <1>7 DEF At
<1>9. \A d \in Caller : d # c => call'[d] = call[d]
  BY <1>7 DEF Others
<1>10. /\ Pending(c, "nodes") /\ "nodes" \in Files /\ "edges" \in Files
       /\ \A d \in Caller : Writes(d)' <=> Writes(d)
       /\ \A d \in Caller, f \in Files :
            Pending(d, f)' <=> Pending(d, f) /\ ~(d = c /\ f = "nodes")
  BY <1>8, <1>9 DEF Writes, Pending, At, Files
<1>11. /\ before' \subseteq before
       /\ \A d, e \in Caller :
            <<d, e>> \in before' <=> <<d, e>> \in before /\ Writes(d)' /\ Writes(e)'
  BY <1>1, <1>10 DEF Inv, OrderInv
<1>12. OrderInv'
  BY <1>1, <1>10, <1>11, LandOrder DEF Inv
<1>13. HydrateInv'
  BY <1>1, <1>7, <1>8, HydrateStays DEF Hydrates
<1>14. MemoryInv'
  BY <1>1, <1>7, <1>8, MemoryStays DEF Inv, At
<1>15. DiskInv'
  <2> SUFFICES ASSUME Loaded', Unbroken', \A d \in Caller : ~Changing(d)'
               PROVE  FileInv("nodes")' /\ FileInv("edges")'
    BY DEF DiskInv, Files
  <2>1. \A d \in Caller : ~Changing(d)
    BY <1>8, <1>9 DEF Changing
  <2>2. Loaded /\ Unbroken
    <3>1. \A d \in Caller : Hydrates(d) => Hydrates(d)'
      BY <1>8, <1>9 DEF Hydrates
    <3> QED
      BY <1>1, <3>1 DEF Loaded, Hydrating, Hydrates, Unbroken
  <2>3. FileInv("nodes") /\ FileInv("edges")
    BY <1>10, <2>1, <2>2 DEF Inv, DiskInv
  <2>4. FileInv("nodes")'
    <3>1. disk'["nodes"] = call[c].read["nodes"] /\ memory' = memory
      BY <1>1, <1>6
    <3>2. /\ \A d \in Caller : /\ Pending(d, "nodes")' <=> Pending(d, "nodes") /\ d # c
                               /\ d # c => call'[d] = call[d]
          /\ \A d, e \in Caller :
               <<d, e>> \in before /\ e # c /\ d # c => <<d, e>> \in before'
      BY <1>1, <1>9, <1>10
    <3>3. OrderInv /\ Land(c, "nodes") /\ Pending(c, "nodes") /\ "nodes" \in Files
      BY <1>1, <1>10 DEF Inv
    <3> QED
      BY <2>3, <3>1, <3>2, <3>3, LandFile
  <2>5. FileInv("edges")'
    <3>1. disk'["edges"] = disk["edges"] /\ memory' = memory /\ "edges" # "nodes"
      BY <1>1, <1>6
    <3>2. /\ \A d \in Caller : /\ Pending(d, "edges")' <=> Pending(d, "edges")
                               /\ Pending(d, "edges") => call'[d].read = call[d].read
          /\ \A d, e \in Caller :
               <<d, e>> \in before /\ <<d, e>> \notin before'
                 => ~Pending(d, "edges") \/ ~Pending(e, "edges")
      BY <1>1, <1>8, <1>9, <1>10
    <3>3. OrderInv /\ Land(c, "nodes") /\ "nodes" \in Files /\ "edges" \in Files
      BY <1>1, <1>10 DEF Inv
    <3> QED
      BY <2>3, <3>1, <3>2, <3>3, LandElsewhere
  <2> QED
    BY <2>4, <2>5
<1> QED
  BY <1>7, <1>12, <1>13, <1>14, <1>15 DEF Inv

\* The edges land, in whatever order, and the call is done with its save.
LEMMA WriteEdgesKept ==
  ASSUME Inv, NEW c \in Caller, WriteEdges(c)
  PROVE  Inv'
<1> DEFINE r == Rec(call[c].next, call[c].next, EmptyGraph, call[c].merges, call[c].edges,
                    call[c].nodes, call[c].fact)
<1>1. /\ At(c, "writeEdges") /\ disk' = [disk EXCEPT !.edges = call[c].read.edges]
      /\ Land(c, "edges") /\ before' = {p \in before : c \notin {p[1], p[2]}}
      /\ UNCHANGED <<memory, hydrated, bootstrapped, clock, acked, torn, broken, raced>>
  BY DEF WriteEdges, bounds, history
<1>2. CallOK(call[c]) /\ IsCall(call[c]) /\ Editable(call[c]) /\ TypeInv
  BY CallHas DEF Inv
<1>3. Becomes(c, r)
  <2>1. \A s, x : [call[c] EXCEPT !.step = s, !.read = x]
                   = Rec(s, call[c].next, x, call[c].merges, call[c].edges, call[c].nodes, call[c].fact)
    BY <1>2, Zenon DEF Editable
  <2>2. [call[c] EXCEPT !.step = call[c].next, !.read = EmptyGraph] = r
    BY <2>1, Zenon
  <2> QED
    BY <2>2, Zenon DEF WriteEdges
<1>4. Graph(call[c].read)
  BY <1>1, <1>2 DEF CallOK, At
<1>5. CallOK(r) /\ r.step \in {"idle", "ack", "merge", "readNodes"}
  <2>1. /\ r.step = call[c].next /\ r.next = call[c].next /\ r.edges = call[c].edges
        /\ r.nodes = call[c].nodes /\ r.fact = call[c].fact /\ r.read = EmptyGraph
    BY RecParts
  <2>2. IsCall(r)
    BY EmptyGraphOK, RecIsCall
  <2> HIDE DEF r
  <2> QED
    BY <1>2, <2>1, <2>2 DEF CallOK, Steps
<1> HIDE DEF r
<1>6. Graph(disk') /\ disk'.edges = call[c].read.edges /\ disk'.nodes = disk.nodes
  <2>1. Graph(disk) /\ EdgesOK(call[c].read.edges)
    BY <1>2, <1>4, GraphHas DEF TypeInv
  <2> QED
    BY <1>1, <2>1, WithEdges
<1>7. TypeInv' /\ call'[c] = r /\ Others(c)
  <2>1. /\ Graph(memory') /\ clock' \in Nat
        /\ acked' \subseteq Triple /\ bootstrapped' \in BOOLEAN /\ hydrated' \in BOOLEAN
    BY <1>1, <1>2 DEF TypeInv
  <2> QED
    BY <1>2, <1>3, <1>5, <1>6, <2>1, TypesKept
<1>8. call[c].step = "writeEdges" /\ call'[c].step \in {"idle", "ack", "merge", "readNodes"}
  BY <1>1, <1>5, <1>7 DEF At
<1>9. \A d \in Caller : d # c => call'[d] = call[d]
  BY <1>7 DEF Others
<1>10. /\ Pending(c, "edges") /\ ~Pending(c, "nodes") /\ "nodes" \in Files /\ "edges" \in Files
       /\ \A d \in Caller : Writes(d)' <=> Writes(d) /\ d # c
       /\ \A d \in Caller, f \in Files :
            Pending(d, f)' <=> Pending(d, f) /\ ~(d = c /\ f = "edges")
  <2>1. \A d \in Caller : Writes(d)' <=> Writes(d) /\ d # c
    BY <1>8, <1>9 DEF Writes
  <2>2. \A d \in Caller, f \in Files : d # c => (Pending(d, f)' <=> Pending(d, f))
    BY <1>9 DEF Pending, At
  <2>3. /\ Pending(c, "edges") /\ ~Pending(c, "nodes")
        /\ \A f \in Files : ~Pending(c, f)'
    BY <1>8 DEF Pending, At
  <2> QED
    BY <2>1, <2>2, <2>3 DEF Files
<1>11. /\ before' \subseteq before
       /\ \A d, e \in Caller : <<d, e>> \in before' <=> <<d, e>> \in before /\ d # c /\ e # c
  BY <1>1
<1>12. OrderInv'
  <2>1. \A d, e \in Caller :
          <<d, e>> \in before' <=> <<d, e>> \in before /\ Writes(d)' /\ Writes(e)'
    BY <1>10, <1>11 DEF Inv, OrderInv
  <2> QED
    BY <1>1, <1>10, <1>11, <2>1, LandOrder DEF Inv
<1>13. HydrateInv'
  BY <1>1, <1>7, <1>8, HydrateStays DEF Hydrates
<1>14. MemoryInv'
  BY <1>1, <1>7, <1>8, MemoryStays DEF Inv, At
<1>15. DiskInv'
  <2> SUFFICES ASSUME Loaded', Unbroken', \A d \in Caller : ~Changing(d)'
               PROVE  FileInv("nodes")' /\ FileInv("edges")'
    BY DEF DiskInv, Files
  <2>1. \A d \in Caller : ~Changing(d)
    BY <1>8, <1>9 DEF Changing
  <2>2. Loaded /\ Unbroken
    <3>1. \A d \in Caller : Hydrates(d) => Hydrates(d)'
      BY <1>8, <1>9 DEF Hydrates
    <3> QED
      BY <1>1, <3>1 DEF Loaded, Hydrating, Hydrates, Unbroken
  <2>3. FileInv("nodes") /\ FileInv("edges")
    BY <1>10, <2>1, <2>2 DEF Inv, DiskInv
  <2>4. FileInv("edges")'
    <3>1. disk'["edges"] = call[c].read["edges"] /\ memory' = memory
      BY <1>1, <1>6
    <3>2. /\ \A d \in Caller : /\ Pending(d, "edges")' <=> Pending(d, "edges") /\ d # c
                               /\ d # c => call'[d] = call[d]
          /\ \A d, e \in Caller :
               <<d, e>> \in before /\ e # c /\ d # c => <<d, e>> \in before'
      BY <1>9, <1>10, <1>11
    <3>3. OrderInv /\ Land(c, "edges") /\ Pending(c, "edges") /\ "edges" \in Files
      BY <1>1, <1>10 DEF Inv
    <3> QED
      BY <2>3, <3>1, <3>2, <3>3, LandFile
  <2>5. FileInv("nodes")'
    <3>1. disk'["nodes"] = disk["nodes"] /\ memory' = memory /\ "nodes" # "edges"
      BY <1>1, <1>6
    <3>2. /\ \A d \in Caller : /\ Pending(d, "nodes")' <=> Pending(d, "nodes")
                               /\ Pending(d, "nodes") => call'[d].read = call[d].read
          /\ \A d, e \in Caller :
               <<d, e>> \in before /\ <<d, e>> \notin before'
                 => ~Pending(d, "nodes") \/ ~Pending(e, "nodes")
      BY <1>9, <1>10, <1>11
    <3>3. OrderInv /\ Land(c, "edges") /\ "nodes" \in Files /\ "edges" \in Files
      BY <1>1, <1>10 DEF Inv
    <3> QED
      BY <2>3, <3>1, <3>2, <3>3, LandElsewhere
  <2> QED
    BY <2>4, <2>5
<1> QED
  BY <1>7, <1>12, <1>13, <1>14, <1>15 DEF Inv

(***************************************************************************)
(* Every step keeps the invariant.                                         *)
(***************************************************************************)
\* A step of a call that grows the graph, or reads it.
LEMMA GrowthKept ==
  ASSUME Inv, NEW c \in Caller, TypeInv', Quiet(c), Grows(c)
  PROVE  Inv'
<1>1. HydrateInv' /\ OrderInv' /\ DiskInv'
  BY QuietKeeps
<1>2. MemoryInv'
  BY GrowsKeeps DEF Inv
<1> QED
  BY <1>1, <1>2 DEF Inv

\* A crash forgets the calls and leaves the files.
LEMMA CrashKept ==
  ASSUME Inv, Crash
  PROVE  Inv'
<1>1. /\ memory' = EmptyGraph /\ ~hydrated' /\ ~bootstrapped'
      /\ hydrated' \in BOOLEAN /\ bootstrapped' \in BOOLEAN
      /\ call' = [c \in Caller |-> New]
      /\ before' = {} /\ overtaken' = {} /\ behind' = {}
      /\ UNCHANGED <<disk, clock, acked, raced>>
  BY DEF Crash
<1>2. DOMAIN call' = Caller /\ \A c \in Caller : call'[c] = New /\ call'[c].step = "new"
  BY <1>1, IdleParts
<1>3. TypeInv'
  <2>1. Graph(disk) /\ clock \in Nat /\ acked \subseteq Triple
    BY DEF Inv, TypeInv
  <2>2. \A c \in Caller : CallOK(call'[c])
    BY <1>2, IdleParts
  <2> QED
    BY <1>1, <1>2, <2>1, <2>2, EmptyGraphOK DEF TypeInv
<1>4. HydrateInv'
  BY <1>1, <1>2 DEF HydrateInv, Hydrates, At
<1>5. MemoryInv'
  <2>1. Attached(memory')
    BY <1>1, EmptyGraphOK
  <2> QED
    BY <1>2, <2>1 DEF MemoryInv, At, Attached
<1>6. OrderInv'
  BY <1>1, <1>2 DEF OrderInv, Writes, Pending, At
<1>7. DiskInv'
  BY <1>1 DEF DiskInv, Loaded
<1> QED
  BY <1>3, <1>4, <1>5, <1>6, <1>7 DEF Inv

\* The process starts on the files that another left.
LEMMA InitInv ==
  ASSUME Init
  PROVE  Inv
<1>1. /\ memory = EmptyGraph /\ disk = Stored /\ hydrated = FALSE /\ bootstrapped = FALSE
      /\ call = [c \in Caller |-> New] /\ clock = 1
      /\ before = {} /\ overtaken = {} /\ behind = {}
      /\ acked = {FactOf(e) : e \in DOMAIN Stored.edges}
  BY DEF Init
<1>2. DOMAIN call = Caller /\ \A c \in Caller : call[c] = New /\ call[c].step = "new"
  BY <1>1, IdleParts
<1>3. TypeInv
  <2>1. Graph(Stored)
    BY StoreAssumption DEF Graph
  <2>2. \A e \in Edge : FactOf(e) \in Triple
    BY DEF Edge, Triple, FactOf
  <2>3. acked \subseteq Triple
    BY <1>1, <2>1, <2>2, GraphHas DEF EdgesOK
  <2>4. \A c \in Caller : CallOK(call[c])
    BY <1>2, IdleParts
  <2> QED
    BY <1>1, <1>2, <2>1, <2>3, <2>4, EmptyGraphOK DEF TypeInv
<1>4. HydrateInv
  BY <1>1, <1>2 DEF HydrateInv, Hydrates, At
<1>5. MemoryInv
  BY <1>1, <1>2, EmptyGraphOK DEF MemoryInv, At
<1>6. OrderInv
  BY <1>1, <1>2 DEF OrderInv, Writes, Pending, At
<1>7. DiskInv
  BY <1>1 DEF DiskInv, Loaded
<1> QED
  BY <1>3, <1>4, <1>5, <1>6, <1>7 DEF Inv

\* Nothing happens.
LEMMA StutterKept ==
  ASSUME Inv, UNCHANGED vars
  PROVE  Inv'
<1> USE DEF vars, history, bounds
<1>1. TypeInv' /\ HydrateInv' /\ MemoryInv'
  BY DEF Inv, TypeInv, HydrateInv, MemoryInv, Attached, At, Hydrates, landings
<1>2. OrderInv'
  BY OrderStays DEF Inv, Writes
<1>3. DiskInv'
  <2>1. /\ Unbroken' => Unbroken
        /\ Loaded' => Loaded
        /\ \A d \in Caller : Changing(d) => Changing(d)'
        /\ \A d \in Caller : (Writes(d)' <=> Writes(d)) /\ (Writes(d) => call'[d] = call[d])
    BY DEF Unbroken, Loaded, Hydrating, Changing, Writes
  <2> QED
    BY <2>1, FilesStay DEF Inv
<1> QED
  BY <1>1, <1>2, <1>3 DEF Inv

\* The invariant is inductive.
LEMMA NextKept ==
  ASSUME Inv, [Next]_vars
  PROVE  Inv'
<1>1. CASE UNCHANGED vars
  BY <1>1, StutterKept
<1>2. CASE Crash
  BY <1>2, CrashKept
<1>3. ASSUME NEW c \in Caller, Continue(c) \/ Upsert(c) \/ Consolidate(c)
      PROVE  Inv'
  <2>1. CASE Boot(c)
    BY <2>1, ReadyKept, HydrateStartKept, HydrateNodesKept, HydrateEdgesKept DEF Boot
  <2>2. CASE Save(c)
    BY <2>2, ExportKept, WriteNodesKept, WriteEdgesKept DEF Save
  <2>3. CASE Acknowledge(c)
    BY <2>3, AcknowledgeQuiet, GrowthKept DEF Inv
  <2>4. CASE Apply(c)
    <3>1. CASE Plan(c)
      BY <3>1, PlanQuiet, GrowthKept DEF Inv
    <3>2. CASE SkipMerge(c)
      BY <3>2, SkipMergeQuiet, GrowthKept DEF Inv
    <3>3. CASE MergeNodes(c)
      <4>1. TypeInv' /\ Quiet(c) /\ MemoryInv'
        BY <3>3, MergeNodesKept DEF Inv
      <4>2. HydrateInv' /\ OrderInv' /\ DiskInv'
        BY <4>1, QuietKeeps
      <4> QED
        BY <4>1, <4>2 DEF Inv
    <3>4. CASE DropSource(c)
      <4>1. TypeInv' /\ Quiet(c) /\ MemoryInv'
        BY <3>4, DropSourceKept DEF Inv
      <4>2. HydrateInv' /\ OrderInv' /\ DiskInv'
        BY <4>1, QuietKeeps
      <4> QED
        BY <4>1, <4>2 DEF Inv
    <3>5. CASE ReadEdges(c)
      BY <3>5, ReadEdgesQuiet, GrowthKept DEF Inv
    <3>6. CASE RetireEdges(c)
      BY <3>6, RetireEdgesQuiet, GrowthKept DEF Inv
    <3>7. CASE ReadNodes(c)
      BY <3>7, ReadNodesQuiet, GrowthKept DEF Inv
    <3>8. CASE RetireNodes(c)
      BY <3>8, RetireNodesQuiet, GrowthKept DEF Inv
    <3> QED
      BY <2>4, <3>1, <3>2, <3>3, <3>4, <3>5, <3>6, <3>7, <3>8 DEF Apply
  <2>5. CASE Upsert(c)
    <3>1. ASSUME NEW n \in NewNode, StartNode(c, n) PROVE Inv'
      BY <3>1, StartNodeQuiet, GrowthKept DEF Inv
    <3>2. ASSUME NEW f \in Fact, StartEdge(c, f) PROVE Inv'
      BY <3>2, StartEdgeQuiet, GrowthKept DEF Inv
    <3> QED
      BY <2>5, <3>1, <3>2 DEF Upsert
  <2>6. CASE Consolidate(c)
    BY <2>6, ConsolidateQuiet, GrowthKept DEF Inv
  <2> QED
    BY <1>3, <2>1, <2>2, <2>3, <2>4, <2>5, <2>6 DEF Continue
<1> QED
  BY <1>1, <1>2, <1>3 DEF Next

(***************************************************************************)
(* What holds.                                                             *)
(***************************************************************************)
\* The invariant holds in every state, for any callers, nodes, labels, aliases
\* and facts, and whatever graph was stored: whatever order the writes of several
\* saves land in, a file that no later copy will change, and that an overtaken one
\* did not change last, holds what memory holds once nobody is about to save.
THEOREM StoreInvariant == Spec => []Inv
<1>1. Init => Inv
  BY InitInv
<1>2. Inv /\ [Next]_vars => Inv'
  BY NextKept
<1> QED
  BY <1>1, <1>2, PTL DEF Spec

\* The graphs in memory and on disk are always well formed: what is assumed of
\* the graph that an earlier process stored is what this one leaves.
THEOREM StoreTypeCorrect == Spec => []TypeOK
<1>1. Inv => TypeOK
  <2> SUFFICES ASSUME Inv PROVE TypeOK
    OBVIOUS
  <2>1. GraphOK(memory) /\ GraphOK(disk)
    BY DEF Inv, TypeInv, Graph
  <2>2. ASSUME NEW c \in Caller
        PROVE  /\ call[c].step \in Steps /\ call[c].next \in Steps
               /\ call[c].edges \subseteq Edge /\ call[c].nodes \subseteq Node
    <3>1. CallOK(call[c])
      BY DEF Inv, TypeInv
    <3> QED
      BY <3>1 DEF CallOK, Steps
  <2> QED
    BY <2>1, <2>2 DEF Inv, TypeInv, OrderInv, TypeOK
<1> QED
  BY <1>1, StoreInvariant, PTL

\* Whatever merges, upserts, retirements, saves and crashes run side by side, no
\* edge in memory lacks a node, while no call goes on without the graph or sets
\* an edge of a node that a merge drops after its await.
THEOREM StoreAttached == Spec => []EdgesAttached
<1>1. Inv => EdgesAttached
  BY DEF Inv, MemoryInv, EdgesAttached
<1> QED
  BY <1>1, StoreInvariant, PTL

\* When nobody saves, each file that was not last written by an overtaken save holds
\* what memory holds, for any number of callers whose writes land in any order.
THEOREM StoreFollows == Spec => []DiskFollows
<1>1. Inv => DiskFollows
  <2> SUFFICES ASSUME Inv, Loaded, Unbroken, \A c \in Caller : ~Saving(c),
                      NEW file \in Files, file \notin behind
               PROVE  disk[file] = memory[file]
    BY DEF DiskFollows, Unbroken
  <2>1. \A c \in Caller : ~Changing(c) /\ ~Timely(c, file)
    BY DEF Saving, Changing, Timely, Pending, At
  <2> QED
    BY <2>1 DEF Inv, DiskInv, FileInv
<1> QED
  BY <1>1, StoreInvariant, PTL

(***************************************************************************)
(* Facts are kept.                                                         *)
(*                                                                         *)
(* A fact that was acknowledged, or whose edges have been written, is on   *)
(* disk, unless an overtaken copy landed last, and in every copy that is   *)
(* to be written and is not overtaken.  A fact whose upsert is under way   *)
(* is in memory, and in its own copy and every newer one that is not       *)
(* overtaken.  A merge moves the edges of a fact to a node that is from    *)
(* then on the same entity, and an older graph that a crash brings back    *)
(* has the same entities at least.                                         *)
(***************************************************************************)
\* SameEntity and Kept, for any pairs that were merged and any edges.
Joined(pairs, x, y) ==
  \/ x = y
  \/ \A S \in SUBSET Node :
       x \in S /\ (\A p \in pairs : p \intersect S # {} => p \subseteq S) => y \in S

Has(pairs, es, f) ==
  \/ Joined(pairs, f.from, f.to)
  \/ \E e \in es :
       e.type = f.type /\ Joined(pairs, e.from, f.from) /\ Joined(pairs, e.to, f.to)

\* A call that is to acknowledge f when its graph is written.
Owes(r, f) == r.next = "ack" /\ r.fact = f

\* f was acknowledged, or is about to be.
Answered(f) == f \in acked \/ \E d \in Caller : At(d, "ack") /\ call[d].fact = f

AbsorbedInv == \A p \in absorbed : p \subseteq Node

\* A call that loads owes nothing.
EarlyInv ==
  \A c \in Caller :
    call[c].step \in {"new", "hydrateNodes", "hydrateEdges"} => call[c].next # "ack"

KeptOnDisk ==
  Unbroken /\ "edges" \notin behind =>
    \A f \in Triple : Answered(f) => Has(absorbed, DOMAIN disk.edges, f)

KeptInQueue ==
  Unbroken =>
    \A c \in Caller : Timely(c, "edges") =>
      \A f \in Triple :
        Answered(f) \/ Owes(call[c], f) \/ (\E d \in Caller : <<d, c>> \in before /\ Owes(call[d], f))
          => Has(absorbed, DOMAIN call[c].read.edges, f)

KeptInMemory ==
  Unbroken /\ Loaded =>
    \A f \in Triple :
      Answered(f) \/ (\E d \in Caller : Owes(call[d], f))
        => Has(absorbed, DOMAIN memory.edges, f)

KeptInv == AbsorbedInv /\ EarlyInv /\ KeptOnDisk /\ KeptInQueue /\ KeptInMemory

\* Being one entity is an equivalence.
LEMMA JoinedTrans ==
  ASSUME NEW ps, NEW x, NEW y, NEW z, Joined(ps, x, y), Joined(ps, y, z)
  PROVE  Joined(ps, x, z)
BY DEF Joined

LEMMA JoinedSym ==
  ASSUME NEW ps, \A p \in ps : p \subseteq Node, NEW x \in Node, NEW y, Joined(ps, x, y)
  PROVE  Joined(ps, y, x)
<1> SUFFICES ASSUME x # y, NEW S \in SUBSET Node, y \in S,
                    \A p \in ps : p \intersect S # {} => p \subseteq S
             PROVE  x \in S
  BY DEF Joined
<1> DEFINE T == Node \ S
<1>1. \A p \in ps : p \intersect T # {} => p \subseteq T
  OBVIOUS
<1>2. T \in SUBSET Node /\ y \notin T
  OBVIOUS
<1>3. x \notin T
  BY <1>1, <1>2, Zenon DEF Joined
<1> QED
  BY <1>3

\* What is one entity stays one when more are merged.
LEMMA JoinedGrows ==
  ASSUME NEW ps, NEW qs, ps \subseteq qs, NEW x, NEW y, Joined(ps, x, y)
  PROVE  Joined(qs, x, y)
BY DEF Joined

LEMMA JoinedPair ==
  ASSUME NEW ps, NEW s, NEW t, {s, t} \in ps
  PROVE  Joined(ps, s, t) /\ Joined(ps, t, s)
BY DEF Joined

\* A graph with more edges, and more merged nodes, has the same facts.
LEMMA HasGrows ==
  ASSUME NEW ps, NEW qs, ps \subseteq qs, NEW es, NEW fs, es \subseteq fs,
         NEW f, Has(ps, es, f)
  PROVE  Has(qs, fs, f)
BY JoinedGrows DEF Has

\* A merge keeps the facts: those of edges between the two nodes are about one
\* entity from now on.
LEMMA MergeHas ==
  ASSUME NEW g, Graph(g), NEW s, NEW t, Mergeable(g, s, t),
         NEW ps, \A p \in ps : p \subseteq Node,
         NEW f \in Triple, Has(ps, DOMAIN g.edges, f)
  PROVE  {s, t} \subseteq Node /\ Has(ps \cup {{s, t}}, DOMAIN Merged(g, s, t).edges, f)
<1> DEFINE qs == ps \cup {{s, t}}
           es == DOMAIN Merged(g, s, t).edges
<1>1. {s, t} \subseteq Node
  <2>1. NodesOK(g.nodes) /\ s \in NodeIds(g.nodes) /\ t \in NodeIds(g.nodes)
    BY GraphHas DEF Mergeable
  <2>2. \A n \in NodeIds(g.nodes) : NodeOf(g.nodes, n) \in Entry /\ NodeOf(g.nodes, n).id = n
    BY <2>1, NodeOfEntry
  <2> QED
    BY <2>1, <2>2 DEF Entry
<1>2. es = (DOMAIN g.edges \ Touching(g, s))
             \cup {MovedEdge(e, s, t) : e \in MovedEdges(g, s, t)}
  BY MergedKept
<1> HIDE DEF es
<1>3. ps \subseteq qs /\ {s, t} \in qs /\ \A p \in qs : p \subseteq Node
  BY <1>1
<1> HIDE DEF qs
<1>4. CASE Joined(ps, f.from, f.to)
  BY <1>3, <1>4, JoinedGrows DEF Has, qs, es
<1>5. ASSUME NEW e \in DOMAIN g.edges, e.type = f.type,
             Joined(ps, e.from, f.from), Joined(ps, e.to, f.to)
      PROVE  Has(qs, es, f)
  <2>1. Joined(qs, e.from, f.from) /\ Joined(qs, e.to, f.to)
    BY <1>3, <1>5, JoinedGrows
  <2>2. e \in Edge /\ e.from \in Node /\ e.to \in Node
    BY GraphHas DEF EdgesOK, Edge
  <2>3. Joined(qs, s, t) /\ Joined(qs, t, s)
    BY <1>3, JoinedPair
  <2>4. CASE e \notin Touching(g, s)
    BY <1>2, <1>5, <2>1, <2>4 DEF Has
  <2>5. CASE e \in MovedEdges(g, s, t)
    <3> DEFINE a == IF e.from = s THEN t ELSE e.from
               b == IF e.to = s THEN t ELSE e.to
               m == MovedEdge(e, s, t)
    <3>1. m.from = a /\ m.to = b /\ m.type = e.type
      BY Zenon DEF MovedEdge
    <3>2. m \in es
      BY <1>2, <2>5
    <3> HIDE DEF m
    <3>3. Joined(qs, a, e.from) /\ Joined(qs, b, e.to)
      BY <2>3 DEF Joined
    <3> HIDE DEF a, b
    <3>4. Joined(qs, a, f.from) /\ Joined(qs, b, f.to)
      BY <2>1, <3>3, JoinedTrans
    <3> QED
      BY <1>5, <3>1, <3>2, <3>4 DEF Has
  <2>6. CASE Ends(e) = {s, t}
    <3>1. Joined(qs, e.from, e.to)
      <4>1. (e.from = s /\ e.to = t) \/ (e.from = t /\ e.to = s) \/ e.from = e.to
        BY <2>6 DEF Ends
      <4> QED
        BY <2>3, <4>1 DEF Joined
    <3>2. Joined(qs, f.from, e.from)
      BY <1>3, <2>1, <2>2, JoinedSym
    <3>3. Joined(qs, f.from, f.to)
      BY <2>1, <3>1, <3>2, JoinedTrans
    <3> QED
      BY <3>3 DEF Has
  <2> QED
    BY <2>4, <2>5, <2>6 DEF MovedEdges
<1> QED
  BY <1>1, <1>4, <1>5 DEF Has, qs, es

\* A step that gives no answer, and does not write edges, keeps the facts if what
\* memory has to hold then is there.
LEMMA NothingForgotten ==
  ASSUME OrderInv, KeptInv, UNCHANGED before, disk'.edges = disk.edges,
         "edges" \in behind => "edges" \in behind',
         \A d \in Caller :
           /\ Timely(d, "edges")' => Timely(d, "edges")
           /\ Writes(d) => /\ call'[d].read = call[d].read
                           /\ call'[d].next = call[d].next
                           /\ call'[d].fact = call[d].fact,
         absorbed \subseteq absorbed', AbsorbedInv', EarlyInv',
         Unbroken' => Unbroken,
         Unbroken' => \A f \in Triple : Answered(f)' => Answered(f),
         Unbroken' /\ Loaded' =>
           \A f \in Triple :
             Answered(f)' \/ (\E d \in Caller : Owes(call'[d], f))
               => Has(absorbed', DOMAIN memory'.edges, f)
  PROVE  KeptInv'
<1>1. KeptOnDisk'
  <2> SUFFICES ASSUME Unbroken', "edges" \notin behind', NEW f \in Triple, Answered(f)'
               PROVE  Has(absorbed', DOMAIN disk'.edges, f)
    BY Zenon DEF KeptOnDisk, Has, Joined
  <2>1. Has(absorbed, DOMAIN disk.edges, f)
    BY DEF KeptInv, KeptOnDisk
  <2> QED
    BY <2>1, HasGrows
<1>2. KeptInQueue'
  <2> SUFFICES ASSUME Unbroken', NEW c \in Caller, Timely(c, "edges")', NEW f \in Triple,
                      \/ Answered(f)' \/ Owes(call'[c], f)
                      \/ \E d \in Caller : <<d, c>> \in before' /\ Owes(call'[d], f)
               PROVE  Has(absorbed', DOMAIN call'[c].read.edges, f)
    BY Zenon DEF KeptInQueue, Has, Joined, Owes
  <2>1. Timely(c, "edges") /\ Writes(c)
    BY DEF Timely, Pending, Writes, At
  <2>2. \A d \in Caller : <<d, c>> \in before => Writes(d)
    BY DEF OrderInv
  <2>3. \/ Answered(f) \/ Owes(call[c], f)
        \/ \E d \in Caller : <<d, c>> \in before /\ Owes(call[d], f)
    BY <2>1, <2>2 DEF Owes
  <2>4. Has(absorbed, DOMAIN call[c].read.edges, f)
    BY <2>1, <2>3 DEF KeptInv, KeptInQueue
  <2>5. call'[c].read = call[c].read
    BY <2>1
  <2> QED
    BY <2>4, <2>5, HasGrows
<1>3. KeptInMemory'
  <2> SUFFICES ASSUME Unbroken', Loaded', NEW f \in Triple,
                      Answered(f)' \/ (\E d \in Caller : Owes(call'[d], f))
               PROVE  Has(absorbed', DOMAIN memory'.edges, f)
    BY Zenon DEF KeptInMemory, Has, Joined, Owes
  <2> QED
    OBVIOUS
<1> QED
  BY <1>1, <1>2, <1>3 DEF KeptInv

LEMMA QuietForgetsNothing ==
  ASSUME Inv, KeptInv, NEW c \in Caller, Quiet(c),
         absorbed \subseteq absorbed', AbsorbedInv',
         \A f \in Triple : Answered(f)' => Answered(f),
         Unbroken' =>
           \A f \in Triple :
             /\ Has(absorbed, DOMAIN memory.edges, f) => Has(absorbed', DOMAIN memory'.edges, f)
             /\ Owes(call'[c], f) =>
                  Owes(call[c], f) \/ Has(absorbed', DOMAIN memory'.edges, f)
  PROVE  KeptInv'
<1>1. \A d \in Caller : d # c => call'[d] = call[d]
  BY DEF Quiet, Others
<1>2. /\ UNCHANGED <<disk, hydrated, bootstrapped, landings, torn>>
      /\ call[c].step \notin FileSteps /\ call'[c].step \notin FileSteps
      /\ Unbroken' => Unbroken
  BY DEF Quiet, Unbroken
<1>3. /\ \A d \in Caller : (Writes(d)' <=> Writes(d)) /\ (Writes(d) => call'[d] = call[d])
      /\ \A d \in Caller : Timely(d, "edges")' => Timely(d, "edges")
      /\ UNCHANGED <<before, behind>>
  <2>1. \A d \in Caller : (Writes(d)' <=> Writes(d)) /\ (Writes(d) => call'[d] = call[d])
    BY <1>1, <1>2 DEF Writes, FileSteps
  <2>2. "edges" \in Files
    BY DEF Files
  <2> QED
    BY <1>2, <2>1, <2>2, OrderStays DEF Inv, landings
<1>4. EarlyInv'
  BY <1>1, <1>2 DEF KeptInv, EarlyInv, FileSteps
<1>5. ASSUME Unbroken', Loaded', NEW f \in Triple,
             Answered(f)' \/ (\E d \in Caller : Owes(call'[d], f))
      PROVE  Has(absorbed', DOMAIN memory'.edges, f)
  <2>1. Loaded
    <3>1. ASSUME NEW d \in Caller, Hydrates(d) PROVE Hydrates(d)'
      BY <1>1, <1>2, <3>1 DEF Hydrates, FileSteps
    <3> QED
      BY <1>2, <1>5, <3>1 DEF Loaded, Hydrating, Hydrates
  <2>2. \/ Has(absorbed', DOMAIN memory'.edges, f)
        \/ Answered(f) \/ \E d \in Caller : Owes(call[d], f)
    BY <1>1, <1>5
  <2>3. Answered(f) \/ (\E d \in Caller : Owes(call[d], f))
          => Has(absorbed, DOMAIN memory.edges, f)
    BY <1>2, <1>5, <2>1 DEF KeptInv, KeptInMemory
  <2> QED
    BY <1>5, <2>2, <2>3
<1> QED
  BY <1>2, <1>3, <1>4, <1>5, NothingForgotten DEF Inv

\* A step that answers nobody.
LEMMA NoAnswer ==
  ASSUME NEW c \in Caller, Others(c), UNCHANGED acked, call'[c].step # "ack"
  PROVE  \A f \in Triple : Answered(f)' => Answered(f)
BY DEF Answered, Others, At

\* Nor does it merge, remove edges, or take on a fact.
LEMMA SteadyForgetsNothing ==
  ASSUME Inv, KeptInv, NEW c \in Caller, Quiet(c), UNCHANGED <<acked, absorbed>>,
         call'[c].step # "ack",
         Unbroken' => DOMAIN memory.edges \subseteq DOMAIN memory'.edges,
         call'[c].next = "ack" => call[c].next = "ack" /\ call'[c].fact = call[c].fact
  PROVE  KeptInv'
<1>1. \A f \in Triple : Answered(f)' => Answered(f)
  BY NoAnswer DEF Quiet
<1>2. \A f \in Triple : Owes(call'[c], f) => Owes(call[c], f)
  BY DEF Owes
<1>3. AbsorbedInv'
  BY DEF KeptInv, AbsorbedInv
<1>4. Unbroken' =>
        \A f \in Triple :
          Has(absorbed, DOMAIN memory.edges, f) => Has(absorbed', DOMAIN memory'.edges, f)
  BY HasGrows
<1> QED
  BY <1>1, <1>2, <1>3, <1>4, QuietForgetsNothing

\* A graph that gets other nodes keeps its edges.
LEMMA SameEdges ==
  ASSUME NEW g, Graph(g), NEW ns
  PROVE  [g EXCEPT !.nodes = ns].edges = g.edges
<1>1. PICK a, b : g = [nodes |-> a, edges |-> b]
  BY DEF Graph
<1> QED
  BY <1>1

LEMMA OtherEdges ==
  ASSUME NEW g, Graph(g), NEW es
  PROVE  [g EXCEPT !.edges = es].edges = es
<1>1. PICK a, b : g = [nodes |-> a, edges |-> b]
  BY DEF Graph
<1> QED
  BY <1>1

\* How the actions change a call, as far as its facts are concerned.
LEMMA Debts ==
  ASSUME NEW r, Editable(r)
  PROVE  /\ \A s : LET x == [r EXCEPT !.step = s]
                   IN  x.step = s /\ x.next = r.next /\ x.fact = r.fact
         /\ \A s, n : LET x == [r EXCEPT !.step = s, !.next = n]
                      IN  x.step = s /\ x.next = n
         /\ \A s, n, f : LET x == [r EXCEPT !.step = s, !.next = n, !.fact = f]
                         IN  x.step = s /\ x.next = n /\ x.fact = f
         /\ \A s, n, m : LET x == [r EXCEPT !.step = s, !.next = n, !.merges = m]
                         IN  x.step = s /\ x.next = n
         /\ \A s, g : LET x == [r EXCEPT !.step = s, !.read = g]
                      IN  x.step = s /\ x.next = r.next /\ x.fact = r.fact /\ x.read = g
         /\ \A s, m : LET x == [r EXCEPT !.step = s, !.merges = m]
                      IN  x.step = s /\ x.next = r.next /\ x.fact = r.fact
         /\ \A m : LET x == [r EXCEPT !.merges = m]
                   IN  x.step = r.step /\ x.next = r.next /\ x.fact = r.fact
         /\ \A s, e : LET x == [r EXCEPT !.step = s, !.edges = e]
                      IN  x.step = s /\ x.next = r.next /\ x.fact = r.fact
         /\ \A s, e, k : LET x == [r EXCEPT !.step = s, !.edges = e, !.nodes = k]
                         IN  x.step = s /\ x.next = r.next /\ x.fact = r.fact
<1>1. \A a1, a2, a3, a4, a5, a6, a7 :
        LET x == Rec(a1, a2, a3, a4, a5, a6, a7)
        IN  x.step = a1 /\ x.next = a2 /\ x.read = a3 /\ x.fact = a7
  BY RecParts
<1>2. ASSUME NEW s
      PROVE  LET x == [r EXCEPT !.step = s] IN x.step = s /\ x.next = r.next /\ x.fact = r.fact
  <2>1. [r EXCEPT !.step = s] = Rec(s, r.next, r.read, r.merges, r.edges, r.nodes, r.fact)
    BY Zenon DEF Editable
  <2> QED
    BY <1>1, <2>1
<1>3. ASSUME NEW s, NEW n
      PROVE  LET x == [r EXCEPT !.step = s, !.next = n] IN x.step = s /\ x.next = n
  <2>1. [r EXCEPT !.step = s, !.next = n] = Rec(s, n, r.read, r.merges, r.edges, r.nodes, r.fact)
    BY Zenon DEF Editable
  <2> QED
    BY <1>1, <2>1
<1>4. ASSUME NEW s, NEW n, NEW f
      PROVE  LET x == [r EXCEPT !.step = s, !.next = n, !.fact = f] IN x.step = s /\ x.next = n /\ x.fact = f
  <2>1. \A x, y, z : [r EXCEPT !.step = x, !.next = y, !.fact = z]
                       = Rec(x, y, r.read, r.merges, r.edges, r.nodes, z)
    BY Zenon DEF Editable
  <2>2. [r EXCEPT !.step = s, !.next = n, !.fact = f]
          = Rec(s, n, r.read, r.merges, r.edges, r.nodes, f)
    BY <2>1, Zenon
  <2> QED
    BY <1>1, <2>2
<1>5. ASSUME NEW s, NEW n, NEW m
      PROVE  LET x == [r EXCEPT !.step = s, !.next = n, !.merges = m] IN x.step = s /\ x.next = n
  <2>1. [r EXCEPT !.step = s, !.next = n, !.merges = m] = Rec(s, n, r.read, m, r.edges, r.nodes, r.fact)
    BY Zenon DEF Editable
  <2> QED
    BY <1>1, <2>1
<1>6. ASSUME NEW s, NEW g
      PROVE  LET x == [r EXCEPT !.step = s, !.read = g] IN x.step = s /\ x.next = r.next /\ x.fact = r.fact /\ x.read = g
  <2>1. [r EXCEPT !.step = s, !.read = g] = Rec(s, r.next, g, r.merges, r.edges, r.nodes, r.fact)
    BY Zenon DEF Editable
  <2> QED
    BY <1>1, <2>1
<1>7. ASSUME NEW s, NEW m
      PROVE  LET x == [r EXCEPT !.step = s, !.merges = m] IN x.step = s /\ x.next = r.next /\ x.fact = r.fact
  <2>1. [r EXCEPT !.step = s, !.merges = m] = Rec(s, r.next, r.read, m, r.edges, r.nodes, r.fact)
    BY Zenon DEF Editable
  <2> QED
    BY <1>1, <2>1
<1>8. ASSUME NEW m
      PROVE  LET x == [r EXCEPT !.merges = m] IN x.step = r.step /\ x.next = r.next /\ x.fact = r.fact
  <2>1. [r EXCEPT !.merges = m] = Rec(r.step, r.next, r.read, m, r.edges, r.nodes, r.fact)
    BY Zenon DEF Editable
  <2> QED
    BY <1>1, <2>1
<1>9. ASSUME NEW s, NEW e
      PROVE  LET x == [r EXCEPT !.step = s, !.edges = e] IN x.step = s /\ x.next = r.next /\ x.fact = r.fact
  <2>1. [r EXCEPT !.step = s, !.edges = e] = Rec(s, r.next, r.read, r.merges, e, r.nodes, r.fact)
    BY Zenon DEF Editable
  <2> QED
    BY <1>1, <2>1
<1>10. ASSUME NEW s, NEW e, NEW k
      PROVE  LET x == [r EXCEPT !.step = s, !.edges = e, !.nodes = k] IN x.step = s /\ x.next = r.next /\ x.fact = r.fact
  <2>1. \A x, y, z : [r EXCEPT !.step = x, !.edges = y, !.nodes = z]
                       = Rec(x, r.next, r.read, r.merges, y, z, r.fact)
    BY Zenon DEF Editable
  <2>2. [r EXCEPT !.step = s, !.edges = e, !.nodes = k]
          = Rec(s, r.next, r.read, r.merges, e, k, r.fact)
    BY <2>1, Zenon
  <2> QED
    BY <1>1, <2>2
<1> QED
  BY <1>2, <1>3, <1>4, <1>5, <1>6, <1>7, <1>8, <1>9, <1>10, Zenon

\* A call that starts over, or is idle, owes nothing.
LEMMA IdleOwes ==
  /\ Idle.next = "idle" /\ New.next = "idle" /\ [Idle EXCEPT !.step = "export"].next = "idle"
BY DEF Idle, New

\* Nodes are upserted.
LEMMA StartNodeForgets ==
  ASSUME Inv, KeptInv, NEW c \in Caller, NEW n \in NewNode, StartNode(c, n)
  PROVE  KeptInv'
<1>1. Quiet(c)
  BY StartNodeQuiet DEF Inv
<1>2. Editable(call[c]) /\ Graph(memory) /\ TypeInv
  BY CallHas DEF Inv, TypeInv
<1>3. call'[c] = [call[c] EXCEPT !.step = "export", !.next = "idle"]
  BY <1>2, Put DEF StartNode, Persist
<1>4. call'[c].step = "export" /\ call'[c].next = "idle"
  BY <1>2, <1>3, Debts
<1>5. memory'.edges = memory.edges
  BY <1>2, SameEdges DEF StartNode
<1>6. UNCHANGED <<acked, absorbed>>
  BY DEF StartNode, history
<1> QED
  BY <1>1, <1>4, <1>5, <1>6, SteadyForgetsNothing

\* An upserted fact is in memory when its call begins to owe it.
LEMMA StartEdgeForgets ==
  ASSUME Inv, KeptInv, NEW c \in Caller, NEW f \in Fact, StartEdge(c, f)
  PROVE  KeptInv'
<1>1. Quiet(c)
  BY StartEdgeQuiet DEF Inv
<1>2. Editable(call[c]) /\ Graph(memory) /\ TypeInv
  BY CallHas DEF Inv, TypeInv
<1>3. call'[c] = [call[c] EXCEPT !.step = "export", !.next = "ack", !.fact = f]
  BY <1>2, Put DEF StartEdge, SaveAndReturn
<1>4. call'[c].step = "export" /\ call'[c].fact = f
  BY <1>2, <1>3, Debts
<1>5. memory'.edges = UpsertEdge(memory, EdgeOf(f))
  BY <1>2, OtherEdges DEF StartEdge
<1>6. DOMAIN memory'.edges = {EdgeOf(f)} \cup DOMAIN memory.edges
  BY <1>2, <1>5, EdgeOfFact, UpsertEdgeKept, GraphHas
<1>7. UNCHANGED <<acked, absorbed>>
  BY DEF StartEdge
<1>8. \A g \in Triple : Answered(g)' => Answered(g)
  BY <1>1, <1>4, <1>7, NoAnswer DEF Quiet
<1>9. Has(absorbed', DOMAIN memory'.edges, f)
  <2>1. EdgeOf(f).from = f.from /\ EdgeOf(f).to = f.to /\ EdgeOf(f).type = f.type
    BY DEF EdgeOf
  <2>2. \A x : Joined(absorbed', x, x)
    BY DEF Joined
  <2> QED
    BY <1>6, <2>1, <2>2 DEF Has
<1>10. \A g \in Triple :
        /\ Has(absorbed, DOMAIN memory.edges, g) => Has(absorbed', DOMAIN memory'.edges, g)
        /\ Owes(call'[c], g) => Has(absorbed', DOMAIN memory'.edges, g)
  BY <1>4, <1>6, <1>7, <1>9, HasGrows DEF Owes
<1>11. AbsorbedInv'
  BY <1>7 DEF KeptInv, AbsorbedInv
<1> QED
  BY <1>1, <1>7, <1>8, <1>10, <1>11, QuietForgetsNothing

\* An upsert returns: its fact was about to be acknowledged.
LEMMA AcknowledgeForgets ==
  ASSUME Inv, KeptInv, NEW c \in Caller, Acknowledge(c)
  PROVE  KeptInv'
<1>1. Quiet(c)
  BY AcknowledgeQuiet DEF Inv
<1>2. call'[c] = Idle
  BY Put DEF Acknowledge, Done, Inv
<1>3. /\ At(c, "ack") /\ acked' = acked \union {call[c].fact}
      /\ UNCHANGED <<absorbed, memory>>
  BY DEF Acknowledge
<1>4. \A f \in Triple : Answered(f)' => Answered(f)
  BY <1>1, <1>2, <1>3, IdleParts DEF Answered, Quiet, Others, At
<1>5. \A f \in Triple : ~Owes(call'[c], f)
  BY <1>2, IdleOwes DEF Owes
<1>6. AbsorbedInv'
  BY <1>3 DEF KeptInv, AbsorbedInv
<1> QED
  BY <1>1, <1>3, <1>4, <1>5, <1>6, QuietForgetsNothing

\* The reads of a consolidation.
LEMMA ReadsForgetNothing ==
  ASSUME Inv, KeptInv, NEW c \in Caller,
         Consolidate(c) \/ Plan(c) \/ ReadEdges(c) \/ ReadNodes(c)
  PROVE  KeptInv'
<1>1. Quiet(c)
  BY ConsolidateQuiet, PlanQuiet, ReadEdgesQuiet, ReadNodesQuiet DEF Inv
<1>2. Editable(call[c]) /\ TypeInv
  BY CallHas DEF Inv
<1>3. UNCHANGED <<memory, acked, absorbed>>
  BY DEF Consolidate, Plan, ReadEdges, ReadNodes, history
<1>4. call'[c].step # "ack" /\ call'[c].next = call[c].next /\ call'[c].fact = call[c].fact
  <2>1. CASE Consolidate(c)
    <3> DEFINE m == FindDuplicateMerges(memory.nodes)
    <3> HIDE DEF m
    <3>1. call'[c] = [call[c] EXCEPT !.step = "plan", !.merges = m]
      BY <1>2, <2>1, Put DEF Consolidate, m
    <3> QED
      BY <1>2, <3>1, Debts
  <2>2. CASE Plan(c)
    <3> DEFINE e == Retired(memory)
               k == Superseded(memory)
    <3> HIDE DEF e, k
    <3>1. call'[c] = [call[c] EXCEPT !.step = "merge", !.edges = e, !.nodes = k]
      BY <1>2, <2>2, Put DEF Plan, e, k
    <3> QED
      BY <1>2, <3>1, Debts
  <2>3. CASE ReadEdges(c)
    <3> DEFINE e == call[c].edges \intersect DOMAIN memory.edges
    <3> HIDE DEF e
    <3>1. call'[c] = [call[c] EXCEPT !.step = "retireEdges", !.edges = e]
      BY <1>2, <2>3, Put DEF ReadEdges, e
    <3> QED
      BY <1>2, <3>1, Debts
  <2>4. CASE ReadNodes(c)
    <3> DEFINE g == [call[c].read EXCEPT !.nodes = NodesOf(memory.nodes, call[c].nodes)]
    <3> HIDE DEF g
    <3>1. call'[c] = [call[c] EXCEPT !.step = "retireNodes", !.read = g]
      BY <1>2, <2>4, Put, Zenon DEF ReadNodes, g
    <3> QED
      BY <1>2, <3>1, Debts
  <2> QED
    BY <2>1, <2>2, <2>3, <2>4
<1> QED
  BY <1>1, <1>3, <1>4, SteadyForgetsNothing

\* A merge that is skipped, or breaks off, which ends the promise.
LEMMA SkipMergeForgets ==
  ASSUME Inv, KeptInv, NEW c \in Caller, SkipMerge(c)
  PROVE  KeptInv'
<1>1. Quiet(c)
  BY SkipMergeQuiet DEF Inv
<1>2. Editable(call[c]) /\ TypeInv /\ At(c, "merge")
  BY CallHas DEF Inv, SkipMerge
<1>3. UNCHANGED <<acked, absorbed>> /\ (memory' = memory \/ broken')
  BY Zenon DEF SkipMerge
<1>4. call'[c].step # "ack" /\ call'[c].next = call[c].next /\ call'[c].fact = call[c].fact
  <2> DEFINE m == Tail(call[c].merges)
  <2> HIDE DEF m
  <2>1. call'[c] = [call[c] EXCEPT !.merges = m]
    BY <1>2, Put, Zenon DEF SkipMerge, m
  <2> QED
    BY <1>2, <2>1, Debts DEF At
<1> QED
  BY <1>1, <1>3, <1>4, SteadyForgetsNothing DEF Unbroken

\* A call whose merge is done owes nothing.
LEMMA NextMergeOwes ==
  ASSUME TypeInv, NEW c \in Caller, NextMerge(c)
  PROVE  call'[c].step = "export" /\ call'[c].next = "merge"
<1> DEFINE m == Tail(call[c].merges)
<1> HIDE DEF m
<1>1. call'[c] = [call[c] EXCEPT !.step = "export", !.next = "merge", !.merges = m]
  BY Put, Zenon DEF NextMerge, m
<1> QED
  BY <1>1, CallHas, Debts

\* A merge moves the edges of its facts and joins the nodes.
LEMMA MergeNodesForgets ==
  ASSUME Inv, KeptInv, NEW c \in Caller, MergeNodes(c)
  PROVE  KeptInv'
<1> DEFINE s == Head(call[c].merges).source
           t == Head(call[c].merges).target
           g == Merged(memory, s, t)
<1>1. Quiet(c) /\ TypeInv /\ Graph(memory) /\ Editable(call[c])
  BY MergeNodesKept, CallHas DEF Inv, TypeInv
<1>2. /\ Mergeable(memory, s, t) /\ absorbed' = absorbed \union {{s, t}}
      /\ UNCHANGED acked
      /\ \/ memory' = g /\ Goto(c, "drop")
         \/ memory' = [g EXCEPT !.nodes = RemoveNode(g.nodes, s)] /\ NextMerge(c)
  BY Zenon DEF MergeNodes
<1> HIDE DEF s, t
<1>3. Graph(g)
  BY <1>1, <1>2, MergedKept
<1>4. \A f \in Triple :
        Has(absorbed, DOMAIN memory.edges, f) => Has(absorbed', DOMAIN g.edges, f)
  BY <1>1, <1>2, MergeHas DEF KeptInv, AbsorbedInv
<1>5. {s, t} \subseteq Node
  <2>1. NodesOK(memory.nodes) /\ s \in NodeIds(memory.nodes) /\ t \in NodeIds(memory.nodes)
    BY <1>1, <1>2, GraphHas DEF Mergeable
  <2>2. \A n \in NodeIds(memory.nodes) :
          NodeOf(memory.nodes, n) \in Entry /\ NodeOf(memory.nodes, n).id = n
    BY <2>1, NodeOfEntry
  <2> QED
    BY <2>1, <2>2 DEF Entry
<1> HIDE DEF g
<1>6. memory'.edges = g.edges
  BY <1>2, <1>3, SameEdges
<1>7. AbsorbedInv' /\ absorbed \subseteq absorbed'
  BY <1>2, <1>5 DEF KeptInv, AbsorbedInv
<1>8. /\ call'[c].step # "ack"
      /\ call'[c].next = "ack" => call[c].next = "ack" /\ call'[c].fact = call[c].fact
  <2>1. CASE Goto(c, "drop")
    <3>1. call'[c] = [call[c] EXCEPT !.step = "drop"]
      BY <1>1, <2>1, Put DEF Goto
    <3> QED
      BY <1>1, <3>1, Debts
  <2>2. CASE NextMerge(c)
    BY <1>1, <2>2, NextMergeOwes
  <2> QED
    BY <1>2, <2>1, <2>2
<1>9. \A f \in Triple : Answered(f)' => Answered(f)
  BY <1>1, <1>2, <1>8, NoAnswer DEF Quiet
<1>10. \A f \in Triple : Owes(call'[c], f) => Owes(call[c], f)
  BY <1>8 DEF Owes
<1> QED
  BY <1>1, <1>4, <1>6, <1>7, <1>9, <1>10, QuietForgetsNothing

LEMMA DropSourceForgets ==
  ASSUME Inv, KeptInv, NEW c \in Caller, DropSource(c)
  PROVE  KeptInv'
<1>1. Quiet(c) /\ TypeInv /\ Graph(memory)
  BY DropSourceKept DEF Inv, TypeInv
<1>2. call'[c].step = "export" /\ call'[c].next = "merge"
  BY <1>1, NextMergeOwes DEF DropSource
<1>3. memory'.edges = memory.edges
  BY <1>1, SameEdges DEF DropSource
<1>4. UNCHANGED <<acked, absorbed>>
  BY DEF DropSource, history
<1> QED
  BY <1>1, <1>2, <1>3, <1>4, SteadyForgetsNothing

\* Retired edges are edges still.
LEMMA RetireEdgesForgets ==
  ASSUME Inv, KeptInv, NEW c \in Caller, RetireEdges(c)
  PROVE  KeptInv'
<1>1. Quiet(c)
  BY RetireEdgesQuiet DEF Inv
<1>2. Editable(call[c]) /\ TypeInv /\ Graph(memory)
  BY CallHas DEF Inv, TypeInv
<1> DEFINE es == [e \in call[c].edges |-> "deprecated"]
<1>3. /\ UNCHANGED <<acked, absorbed>>
      /\ \/ /\ memory' = [memory EXCEPT !.edges = SetEdges(memory, es)]
            /\ Persist(c, "readNodes")
         \/ memory' = memory /\ Goto(c, "readNodes")
  BY Zenon DEF RetireEdges
<1> HIDE DEF es
<1>4. DOMAIN memory.edges \subseteq DOMAIN memory'.edges
  <2>1. [memory EXCEPT !.edges = SetEdges(memory, es)].edges = SetEdges(memory, es)
    BY <1>2, OtherEdges
  <2>2. DOMAIN memory.edges \subseteq DOMAIN SetEdges(memory, es)
    BY DEF SetEdges
  <2> QED
    BY <1>3, <2>1, <2>2
<1>5. /\ call'[c].step # "ack"
      /\ call'[c].next = "ack" => call[c].next = "ack" /\ call'[c].fact = call[c].fact
  <2>1. \/ call'[c] = [call[c] EXCEPT !.step = "export", !.next = "readNodes"]
        \/ call'[c] = [call[c] EXCEPT !.step = "readNodes"]
    BY <1>2, <1>3, Put DEF Persist, Goto
  <2>2. CASE call'[c] = [call[c] EXCEPT !.step = "export", !.next = "readNodes"]
    <3>1. call'[c].step = "export" /\ call'[c].next = "readNodes"
      BY <1>2, <2>2, Debts
    <3> QED
      BY <3>1
  <2>3. CASE call'[c] = [call[c] EXCEPT !.step = "readNodes"]
    <3>1. call'[c].step = "readNodes" /\ call'[c].next = call[c].next /\ call'[c].fact = call[c].fact
      BY <1>2, <2>3, Debts
    <3> QED
      BY <3>1
  <2> QED
    BY <2>1, <2>2, <2>3
<1> QED
  BY <1>1, <1>3, <1>4, <1>5, SteadyForgetsNothing

LEMMA RetireNodesForgets ==
  ASSUME Inv, KeptInv, NEW c \in Caller, RetireNodes(c)
  PROVE  KeptInv'
<1>1. Quiet(c)
  BY RetireNodesQuiet DEF Inv
<1>2. TypeInv /\ Graph(memory)
  BY DEF Inv, TypeInv
<1> DEFINE ns == RetireAll(memory.nodes, call[c].read.nodes)
<1> HIDE DEF ns
<1>3. /\ UNCHANGED <<acked, absorbed>>
      /\ memory' = [memory EXCEPT !.nodes = ns] \/ memory' = memory
      /\ Becomes(c, [Idle EXCEPT !.step = "export"]) \/ Becomes(c, Idle)
  BY Zenon DEF RetireNodes, history, Done, ns
<1>4. memory'.edges = memory.edges
  BY <1>2, <1>3, SameEdges
<1>5. call'[c].step # "ack" /\ call'[c].next = "idle"
  BY <1>2, <1>3, Put, IdleOwes, IdleParts
<1> QED
  BY <1>1, <1>3, <1>4, <1>5, SteadyForgetsNothing

\* A step of loading: the call answers nobody, and what memory holds when the graph
\* is loaded is what was said of it before, or of the disk.
LEMMA BootForgets ==
  ASSUME Inv, KeptInv, NEW c \in Caller, Others(c), UNCHANGED <<landings, disk, acked, absorbed>>,
         call[c].step \in {"new", "hydrateNodes", "hydrateEdges"},
         call'[c].step \notin {"ack", "writeNodes", "writeEdges"}, call'[c].next # "ack",
         Unbroken' => Unbroken,
         Unbroken' /\ Loaded' =>
           \/ Loaded /\ memory' = memory
           \/ /\ DOMAIN memory'.edges = DOMAIN disk.edges
              /\ \A d \in Caller : d # c => call[d].step = "new"
              /\ "edges" \notin behind
  PROVE  KeptInv'
<1>1. \A d \in Caller : d # c => call'[d] = call[d]
  BY DEF Others
<1>2. /\ \A d \in Caller : (Writes(d)' <=> Writes(d)) /\ (Writes(d) => call'[d] = call[d])
      /\ \A d \in Caller : Timely(d, "edges")' => Timely(d, "edges")
      /\ UNCHANGED <<before, behind>>
  <2>1. \A d \in Caller : (Writes(d)' <=> Writes(d)) /\ (Writes(d) => call'[d] = call[d])
    BY <1>1 DEF Writes
  <2>2. "edges" \in Files
    BY DEF Files
  <2> QED
    BY <2>1, <2>2, OrderStays DEF Inv, landings
<1>3. EarlyInv' /\ AbsorbedInv'
  BY <1>1 DEF KeptInv, EarlyInv, AbsorbedInv
<1>4. \A f \in Triple : Answered(f)' => Answered(f)
  BY NoAnswer, SMT
<1>5. ASSUME Unbroken', Loaded', NEW f \in Triple,
             Answered(f)' \/ (\E d \in Caller : Owes(call'[d], f))
      PROVE  Has(absorbed', DOMAIN memory'.edges, f)
  <2>1. CASE Loaded /\ memory' = memory
    <3>1. Answered(f) \/ \E d \in Caller : Owes(call[d], f)
      BY <1>1, <1>4, <1>5 DEF Owes
    <3> QED
      BY <1>5, <2>1, <3>1 DEF KeptInv, KeptInMemory
  <2>2. CASE /\ DOMAIN memory'.edges = DOMAIN disk.edges
             /\ \A d \in Caller : d # c => call[d].step = "new"
             /\ "edges" \notin behind
    <3>1. \A d \in Caller : ~Owes(call'[d], f)
      BY <1>1, <2>2 DEF Owes, KeptInv, EarlyInv
    <3>2. Answered(f)
      BY <1>4, <1>5, <3>1
    <3> QED
      BY <1>5, <2>2, <3>2 DEF KeptInv, KeptOnDisk
  <2> QED
    BY <1>5, <2>1, <2>2
<1> QED
  BY <1>2, <1>3, <1>4, <1>5, NothingForgotten DEF Inv

\* A call that finds the graph loaded, or races the load.
LEMMA ReadyForgets ==
  ASSUME Inv, KeptInv, NEW c \in Caller, At(c, "new"), Done(c), hydrated,
         raced' = (raced \/ Hydrating),
         UNCHANGED <<memory, disk, landings, acked, absorbed, torn, broken>>
  PROVE  KeptInv'
<1>1. call'[c] = Idle /\ Others(c)
  BY Put DEF Inv, Done
<1>2. call'[c].step = "idle" /\ call'[c].next = "idle" /\ call[c].step = "new"
  BY <1>1, IdleParts, IdleOwes DEF At
<1>3. Unbroken' => Unbroken /\ Loaded
  BY DEF Unbroken, Loaded
<1> QED
  BY <1>1, <1>2, <1>3, BootForgets

LEMMA LoadsForgetNothing ==
  ASSUME Inv, KeptInv, NEW c \in Caller, Boot(c)
  PROVE  KeptInv'
<1>1. TypeInv /\ Editable(call[c])
  BY CallHas DEF Inv
<1>2. CASE Ready(c)
  <2>1. hydrated
    BY <1>2 DEF Inv, HydrateInv, Ready
  <2> QED
    BY <1>2, <2>1, ReadyForgets DEF Ready
<1>3. CASE HydrateStart(c) /\ hydrated
  BY <1>3, ReadyForgets DEF HydrateStart
<1>4. CASE HydrateStart(c) /\ ~hydrated
  <2>1. /\ At(c, "new") /\ call'[c] = [call[c] EXCEPT !.step = "hydrateNodes"] /\ Others(c)
        /\ UNCHANGED <<landings, disk, acked, absorbed, torn, broken, raced>>
    BY <1>1, <1>4, Put DEF HydrateStart, Goto
  <2>2. call'[c].step = "hydrateNodes" /\ call'[c].next = call[c].next
    BY <1>1, <2>1, Debts
  <2>3. call[c].step = "new" /\ call[c].next # "ack"
    BY <2>1 DEF At, KeptInv, EarlyInv
  <2>4. ~Loaded'
    BY <2>2 DEF Loaded, Hydrating
  <2> QED
    BY <2>1, <2>2, <2>3, <2>4, BootForgets DEF Unbroken
<1>5. CASE HydrateNodes(c)
  <2> DEFINE g == [call[c].read EXCEPT !.nodes = disk.nodes]
  <2> HIDE DEF g
  <2>1. /\ At(c, "hydrateNodes") /\ Others(c)
        /\ call'[c] = [call[c] EXCEPT !.step = "hydrateEdges", !.read = g]
        /\ UNCHANGED <<landings, disk, acked, absorbed, torn, broken, raced>>
    BY <1>1, <1>5, Put, Zenon DEF HydrateNodes, history, g
  <2>2. call'[c].step = "hydrateEdges" /\ call'[c].next = call[c].next
    BY <1>1, <2>1, Debts
  <2>3. call[c].step = "hydrateNodes" /\ call[c].next # "ack"
    BY <2>1 DEF At, KeptInv, EarlyInv
  <2>4. ~Loaded'
    BY <2>2 DEF Loaded, Hydrating
  <2> QED
    BY <2>1, <2>2, <2>3, <2>4, BootForgets DEF Unbroken
<1>6. CASE HydrateEdges(c)
  <2> DEFINE g == [call[c].read EXCEPT !.edges = disk.edges]
  <2>1. /\ At(c, "hydrateEdges") /\ Others(c) /\ call'[c] = Idle
        /\ memory' = IF g # EmptyGraph /\ Attached(g) THEN g ELSE memory
        /\ torn' = (torn \/ ~Attached(g))
        /\ UNCHANGED <<landings, disk, acked, absorbed, broken, raced>>
    BY <1>1, <1>6, Put DEF HydrateEdges, history, Done
  <2>2. call'[c].step = "idle" /\ call'[c].next = "idle" /\ call[c].step = "hydrateEdges"
    BY <2>1, IdleParts, IdleOwes DEF At
  <2>3. ASSUME Unbroken'
        PROVE  /\ DOMAIN memory'.edges = DOMAIN disk.edges /\ "edges" \notin behind
               /\ \A d \in Caller : d # c => call[d].step = "new"
    <3>1. /\ memory = EmptyGraph /\ behind = {} /\ call[c].read.nodes = disk.nodes
          /\ \A d \in Caller : d # c => call[d].step = "new"
      BY <2>1, <2>2, <2>3 DEF Inv, HydrateInv, Hydrates, Unbroken, At
    <3>2. g = disk
      <4>1. disk = [nodes |-> disk.nodes, edges |-> disk.edges]
        BY <1>1 DEF TypeInv, Graph
      <4>2. \A x : [call[c].read EXCEPT !.edges = x] = [nodes |-> call[c].read.nodes, edges |-> x]
        BY <1>1, Zenon DEF Editable
      <4>3. g = [nodes |-> call[c].read.nodes, edges |-> disk.edges]
        BY <4>2, Zenon
      <4> QED
        BY <3>1, <4>1, <4>3
    <3>3. Attached(g)
      BY <2>1, <2>3 DEF Unbroken
    <3> HIDE DEF g
    <3> QED
      BY <2>1, <3>1, <3>2, <3>3
  <2> HIDE DEF g
  <2> QED
    BY <2>1, <2>2, <2>3, BootForgets DEF Unbroken
<1> QED
  BY <1>2, <1>3, <1>4, <1>5, <1>6 DEF Boot

\* The copy that is to be written has all facts so far.
LEMMA ExportForgets ==
  ASSUME Inv, KeptInv, NEW c \in Caller, Export(c)
  PROVE  KeptInv'
<1>1. TypeInv /\ Editable(call[c])
  BY CallHas DEF Inv
<1>2. /\ At(c, "export") /\ Others(c)
      /\ before' = before \union {<<d, c>> : d \in {x \in Caller : Writes(x)}}
      /\ call'[c] = [call[c] EXCEPT !.step = "writeNodes", !.read = memory]
      /\ UNCHANGED <<memory, disk, hydrated, acked, absorbed, torn, broken, raced,
                     overtaken, behind>>
  BY <1>1, Put DEF Export, history
<1>3. /\ call[c].step = "export" /\ call'[c].step = "writeNodes" /\ call'[c].next = call[c].next
      /\ call'[c].fact = call[c].fact /\ call'[c].read = memory
  BY <1>1, <1>2, Debts DEF At
<1>4. \A d \in Caller : d # c => call'[d] = call[d]
  BY <1>2 DEF Others
<1>5. \A d \in Caller, f \in Triple : Owes(call'[d], f) <=> Owes(call[d], f)
  BY <1>3, <1>4 DEF Owes
<1>6. \A f \in Triple : Answered(f)' => Answered(f)
  BY <1>2, <1>3, NoAnswer
<1>7. EarlyInv' /\ AbsorbedInv'
  BY <1>2, <1>3, <1>4 DEF KeptInv, EarlyInv, AbsorbedInv
<1>8. ASSUME Unbroken
      PROVE  Loaded
  <2>1. hydrated
    BY <1>3 DEF Inv, HydrateInv, At
  <2>2. ASSUME NEW d \in Caller, Hydrates(d) PROVE FALSE
    <3>1. d # c => At(c, "new")
      BY <1>8, <2>2 DEF Inv, HydrateInv, Unbroken
    <3> QED
      BY <1>3, <2>2, <3>1 DEF At, Hydrates
  <2> QED
    BY <2>1, <2>2 DEF Loaded, Hydrating, Hydrates
<1>9. ASSUME Unbroken, NEW f \in Triple, Answered(f) \/ \E d \in Caller : Owes(call[d], f)
      PROVE  Has(absorbed, DOMAIN memory.edges, f)
  BY <1>8, <1>9 DEF KeptInv, KeptInMemory
<1>10. KeptOnDisk'
  <2> SUFFICES ASSUME Unbroken', "edges" \notin behind', NEW f \in Triple, Answered(f)'
               PROVE  Has(absorbed', DOMAIN disk'.edges, f)
    BY Zenon DEF KeptOnDisk, Has, Joined
  <2> QED
    BY <1>2, <1>6 DEF KeptInv, KeptOnDisk, Unbroken
<1>11. KeptInMemory'
  <2> SUFFICES ASSUME Unbroken', NEW f \in Triple,
                      Answered(f)' \/ (\E d \in Caller : Owes(call'[d], f))
               PROVE  Has(absorbed', DOMAIN memory'.edges, f)
    BY Zenon DEF KeptInMemory, Has, Joined, Owes
  <2> QED
    BY <1>2, <1>5, <1>6, <1>9 DEF Unbroken
<1>12. KeptInQueue'
  <2> SUFFICES ASSUME Unbroken', NEW w \in Caller, Timely(w, "edges")', NEW f \in Triple,
                      \/ Answered(f)' \/ Owes(call'[w], f)
                      \/ \E d \in Caller : <<d, w>> \in before' /\ Owes(call'[d], f)
               PROVE  Has(absorbed', DOMAIN call'[w].read.edges, f)
    BY Zenon DEF KeptInQueue, Has, Joined, Owes
  <2>1. Unbroken
    BY <1>2 DEF Unbroken
  <2>2. CASE w = c
    BY <1>2, <1>3, <1>5, <1>6, <1>9, <2>1, <2>2
  <2>3. CASE w # c
    <3>1. call'[w] = call[w] /\ Timely(w, "edges")
      BY <1>2, <1>4, <2>3 DEF Timely, Pending, At
    <3>2. \A d \in Caller : <<d, w>> \in before' => <<d, w>> \in before
      BY <1>2, <2>3
    <3>3. \/ Answered(f) \/ Owes(call[w], f)
          \/ \E d \in Caller : <<d, w>> \in before /\ Owes(call[d], f)
      BY <1>5, <1>6, <3>2
    <3> QED
      BY <1>2, <2>1, <3>1, <3>3 DEF KeptInv, KeptInQueue
  <2> QED
    BY <2>2, <2>3
<1> QED
  BY <1>7, <1>10, <1>11, <1>12 DEF KeptInv

\* The nodes are written.
LEMMA WriteNodesForgets ==
  ASSUME Inv, KeptInv, NEW c \in Caller, WriteNodes(c)
  PROVE  KeptInv'
<1>1. TypeInv /\ Editable(call[c]) /\ Graph(disk)
  BY CallHas DEF Inv, TypeInv
<1>2. /\ At(c, "writeNodes") /\ Others(c)
      /\ call'[c] = [call[c] EXCEPT !.step = "writeEdges"]
      /\ disk' = [disk EXCEPT !.nodes = call[c].read.nodes] /\ Land(c, "nodes")
      /\ UNCHANGED <<memory, hydrated, before, acked, absorbed, torn, broken, raced>>
  BY <1>1, Put DEF WriteNodes, Goto, history
<1>3. /\ call[c].step = "writeNodes" /\ call'[c].step = "writeEdges"
      /\ call'[c].next = call[c].next /\ call'[c].fact = call[c].fact
  BY <1>1, <1>2, Debts DEF At
<1>4. call'[c].read = call[c].read
  <2>1. IsCall(call[c])
    BY <1>1, CallHas
  <2>2. PICK a1, a2, a3, a4, a5, a6, a7 :
          call[c] = [step |-> a1, next |-> a2, read |-> a3, merges |-> a4, edges |-> a5,
                     nodes |-> a6, fact |-> a7]
    BY <2>1 DEF IsCall, Rec
  <2> QED
    BY <1>2, <2>2
<1>5. \A d \in Caller : /\ d # c => call'[d] = call[d]
                        /\ call'[d].read = call[d].read /\ call'[d].next = call[d].next
                        /\ call'[d].fact = call[d].fact
  BY <1>2, <1>3, <1>4 DEF Others
<1>6. disk'.edges = disk.edges
  BY <1>1, <1>2, SameEdges
<1>7. EarlyInv' /\ AbsorbedInv'
  BY <1>2, <1>3, <1>5 DEF KeptInv, EarlyInv, AbsorbedInv
<1>8. \A f \in Triple : Answered(f)' => Answered(f)
  BY <1>2, <1>3, NoAnswer
<1>9. /\ "edges" \in behind => "edges" \in behind'
      /\ \A d \in Caller : Timely(d, "edges")' => Timely(d, "edges")
  <2>1. /\ overtaken' = (overtaken \ {<<c, "nodes">>})
             \union {<<d, "nodes">> : d \in {x \in Caller : <<x, c>> \in before /\ Pending(x, "nodes")}}
        /\ behind' = IF <<c, "nodes">> \in overtaken THEN behind \union {"nodes"} ELSE behind \ {"nodes"}
    BY <1>2, Zenon DEF Land
  <2>2. \A d \in Caller : <<d, "edges">> \in overtaken => <<d, "edges">> \in overtaken'
    BY <2>1
  <2>3. \A d \in Caller : Pending(d, "edges")' => Pending(d, "edges")
    BY <1>3, <1>5 DEF Pending, At
  <2> QED
    BY <2>1, <2>2, <2>3 DEF Timely
<1>10. Loaded' => Loaded
  BY <1>2, <1>3, <1>5 DEF Loaded, Hydrating
<1>11. ASSUME Unbroken', Loaded', NEW f \in Triple,
              Answered(f)' \/ (\E d \in Caller : Owes(call'[d], f))
       PROVE  Has(absorbed', DOMAIN memory'.edges, f)
  <2>1. Answered(f) \/ \E d \in Caller : Owes(call[d], f)
    BY <1>5, <1>8, <1>11 DEF Owes
  <2> QED
    BY <1>2, <1>10, <1>11, <2>1 DEF KeptInv, KeptInMemory, Unbroken
<1>12. Unbroken' => Unbroken
  BY <1>2 DEF Unbroken
<1>13. OrderInv /\ UNCHANGED before /\ absorbed \subseteq absorbed'
  BY <1>2 DEF Inv
<1> QED
  BY <1>5, <1>6, <1>7, <1>8, <1>9, <1>11, <1>12, <1>13, NothingForgotten

\* A copy that was not overtaken puts on disk all facts that were answered, its own,
\* which may be answered from now on, and those of older copies; the copies that
\* are to land after it, and are not overtaken, are newer and have them too.
LEMMA WriteEdgesForgets ==
  ASSUME Inv, KeptInv, NEW c \in Caller, WriteEdges(c)
  PROVE  KeptInv'
<1>1. TypeInv /\ Editable(call[c]) /\ Graph(disk) /\ CallOK(call[c]) /\ OrderInv
  BY CallHas DEF Inv, TypeInv
<1>2. /\ At(c, "writeEdges") /\ Others(c)
      /\ call'[c] = [call[c] EXCEPT !.step = call[c].next, !.read = EmptyGraph]
      /\ disk' = [disk EXCEPT !.edges = call[c].read.edges] /\ Land(c, "edges")
      /\ before' = {p \in before : c \notin {p[1], p[2]}}
      /\ UNCHANGED <<memory, hydrated, acked, absorbed, torn, broken, raced>>
  BY <1>1, Put DEF WriteEdges, history
<1>3. /\ call[c].step = "writeEdges" /\ call'[c].step = call[c].next
      /\ call'[c].next = call[c].next /\ call'[c].fact = call[c].fact
  BY <1>1, <1>2, Debts DEF At
<1>4. \A d \in Caller : d # c => call'[d] = call[d]
  BY <1>2 DEF Others
<1>5. \A d \in Caller, f \in Triple : Owes(call'[d], f) <=> Owes(call[d], f)
  BY <1>3, <1>4 DEF Owes
<1>6. \A f \in Triple : Answered(f)' => Answered(f) \/ Owes(call[c], f)
  BY <1>2, <1>3, <1>4 DEF Answered, At, Owes
<1>7. call'[c].step \in {"idle", "ack", "merge", "readNodes"}
  BY <1>1, <1>3 DEF CallOK
<1>8. /\ overtaken' = (overtaken \ {<<c, "edges">>})
           \union {<<d, "edges">> : d \in {x \in Caller : <<x, c>> \in before /\ Pending(x, "edges")}}
      /\ behind' = IF <<c, "edges">> \in overtaken THEN behind \union {"edges"} ELSE behind \ {"edges"}
  BY <1>2, Zenon DEF Land
<1>9. disk'.edges = call[c].read.edges
  BY <1>1, <1>2, OtherEdges
<1>10. EarlyInv' /\ AbsorbedInv'
  BY <1>2, <1>4, <1>7 DEF KeptInv, EarlyInv, AbsorbedInv
<1>11. KeptOnDisk'
  <2> SUFFICES ASSUME Unbroken', "edges" \notin behind', NEW f \in Triple, Answered(f)'
               PROVE  Has(absorbed', DOMAIN disk'.edges, f)
    BY Zenon DEF KeptOnDisk, Has, Joined
  <2>1. Answered(f) \/ Owes(call[c], f)
    BY <1>6
  <2>2. Timely(c, "edges")
    BY <1>3, <1>8 DEF Timely, Pending, At
  <2>3. Has(absorbed, DOMAIN call[c].read.edges, f)
    BY <1>2, <2>1, <2>2 DEF KeptInv, KeptInQueue, Unbroken
  <2> QED
    BY <1>2, <1>9, <2>3
<1>12. KeptInQueue'
  <2> SUFFICES ASSUME Unbroken', NEW w \in Caller, Timely(w, "edges")', NEW f \in Triple,
                      \/ Answered(f)' \/ Owes(call'[w], f)
                      \/ \E d \in Caller : <<d, w>> \in before' /\ Owes(call'[d], f)
               PROVE  Has(absorbed', DOMAIN call'[w].read.edges, f)
    BY Zenon DEF KeptInQueue, Has, Joined, Owes
  <2>1. w # c
    BY <1>7 DEF Timely, Pending, At
  <2>2. call'[w] = call[w] /\ Pending(w, "edges") /\ Writes(w)
    BY <1>4, <2>1 DEF Timely, Pending, Writes, At
  <2>3. Timely(w, "edges") /\ <<w, c>> \notin before
    BY <1>8, <2>1, <2>2 DEF Timely
  <2>4. <<c, w>> \in before
    BY <1>1, <1>3, <2>1, <2>2, <2>3 DEF OrderInv, Writes
  <2>5. \/ Answered(f) \/ Owes(call[w], f)
        \/ \E d \in Caller : <<d, w>> \in before /\ Owes(call[d], f)
    BY <1>2, <1>5, <1>6, <2>4
  <2>6. Has(absorbed, DOMAIN call[w].read.edges, f)
    BY <1>2, <2>3, <2>5 DEF KeptInv, KeptInQueue, Unbroken
  <2> QED
    BY <1>2, <2>2, <2>6
<1>13. KeptInMemory'
  <2> SUFFICES ASSUME Unbroken', Loaded', NEW f \in Triple,
                      Answered(f)' \/ (\E d \in Caller : Owes(call'[d], f))
               PROVE  Has(absorbed', DOMAIN memory'.edges, f)
    BY Zenon DEF KeptInMemory, Has, Joined, Owes
  <2>1. Answered(f) \/ \E d \in Caller : Owes(call[d], f)
    BY <1>5, <1>6
  <2>2. Loaded
    <3>1. \A d \in Caller : Hydrates(d) => Hydrates(d)'
      BY <1>3, <1>4 DEF Hydrates
    <3> QED
      BY <1>2, <3>1 DEF Loaded, Hydrating, Hydrates
  <2> QED
    BY <1>2, <2>1, <2>2 DEF KeptInv, KeptInMemory, Unbroken
<1> QED
  BY <1>10, <1>11, <1>12, <1>13 DEF KeptInv

\* A crash leaves the disk: edges that an overtaken save left there end the promise.
LEMMA CrashForgets ==
  ASSUME Inv, KeptInv, Crash
  PROVE  KeptInv'
<1>1. /\ ~hydrated' /\ call' = [c \in Caller |-> New]
      /\ torn' = (torn \/ "edges" \in behind)
      /\ UNCHANGED <<disk, acked, absorbed, raced, broken>>
  BY DEF Crash
<1>2. \A c \in Caller : call'[c].step = "new" /\ call'[c].next = "idle"
  BY <1>1, IdleParts, IdleOwes
<1>3. \A f \in Triple : Answered(f)' => Answered(f)
  BY <1>1, <1>2 DEF Answered, At
<1>4. EarlyInv' /\ AbsorbedInv'
  BY <1>1, <1>2 DEF KeptInv, EarlyInv, AbsorbedInv
<1>5. KeptOnDisk'
  <2> SUFFICES ASSUME Unbroken', NEW f \in Triple, Answered(f)'
               PROVE  Has(absorbed', DOMAIN disk'.edges, f)
    BY Zenon DEF KeptOnDisk, Has, Joined
  <2> QED
    BY <1>1, <1>3 DEF KeptInv, KeptOnDisk, Unbroken
<1>6. KeptInQueue' /\ KeptInMemory'
  BY <1>1, <1>2 DEF KeptInQueue, KeptInMemory, Loaded, Timely, Pending, At
<1> QED
  BY <1>4, <1>5, <1>6 DEF KeptInv

\* The facts that were stored are on disk.
LEMMA InitForgets ==
  ASSUME Init
  PROVE  KeptInv
<1>1. /\ disk = Stored /\ hydrated = FALSE /\ call = [c \in Caller |-> New]
      /\ acked = {FactOf(e) : e \in DOMAIN Stored.edges} /\ absorbed = {}
  BY DEF Init
<1>2. \A c \in Caller : call[c].step = "new" /\ call[c].next = "idle"
  BY <1>1, IdleParts, IdleOwes
<1>3. ASSUME NEW f \in Triple, Answered(f) PROVE Has(absorbed, DOMAIN disk.edges, f)
  <2>1. f \in acked
    BY <1>2, <1>3 DEF Answered, At
  <2>2. PICK e \in DOMAIN Stored.edges : f = FactOf(e)
    BY <1>1, <2>1
  <2>3. f.from = e.from /\ f.to = e.to /\ f.type = e.type
    BY <2>2 DEF FactOf
  <2>4. \A x : Joined(absorbed, x, x)
    BY DEF Joined
  <2> QED
    BY <1>1, <2>3, <2>4 DEF Has
<1>4. EarlyInv /\ AbsorbedInv
  BY <1>1, <1>2 DEF EarlyInv, AbsorbedInv
<1>5. KeptOnDisk /\ KeptInQueue /\ KeptInMemory
  BY <1>1, <1>2, <1>3 DEF KeptOnDisk, KeptInQueue, KeptInMemory, Loaded, Timely, Pending, At
<1> QED
  BY <1>4, <1>5 DEF KeptInv

\* No step loses a fact.
LEMMA NextForgets ==
  ASSUME Inv, KeptInv, [Next]_vars
  PROVE  KeptInv'
<1>1. CASE UNCHANGED vars
  <2>1. UNCHANGED <<memory, disk, hydrated, call, landings, acked, absorbed, raced, torn, broken>>
    BY <1>1 DEF vars, history
  <2>2. AbsorbedInv' /\ EarlyInv' /\ (Unbroken' => Unbroken) /\ (Loaded' => Loaded)
    BY <2>1 DEF KeptInv, AbsorbedInv, EarlyInv, Unbroken, Loaded, Hydrating
  <2>3. \A f \in Triple : Answered(f)' => Answered(f)
    BY <2>1 DEF Answered, At
  <2>4. /\ UNCHANGED <<before, behind>>
        /\ \A d \in Caller : Timely(d, "edges")' => Timely(d, "edges")
    BY <2>1 DEF Timely, Pending, At, landings
  <2> QED
    BY <2>1, <2>2, <2>3, <2>4, NothingForgotten DEF Inv, KeptInv, KeptInMemory
<1>2. CASE Crash
  BY <1>2, CrashForgets
<1>3. ASSUME NEW c \in Caller, Continue(c) \/ Upsert(c) \/ Consolidate(c)
      PROVE  KeptInv'
  <2>1. CASE Boot(c)
    BY <2>1, LoadsForgetNothing
  <2>2. CASE Save(c)
    BY <2>2, ExportForgets, WriteNodesForgets, WriteEdgesForgets DEF Save
  <2>3. CASE Acknowledge(c)
    BY <2>3, AcknowledgeForgets
  <2>4. CASE Apply(c)
    BY <2>4, ReadsForgetNothing, SkipMergeForgets, MergeNodesForgets, DropSourceForgets,
       RetireEdgesForgets, RetireNodesForgets DEF Apply
  <2>5. CASE Upsert(c)
    BY <2>5, StartNodeForgets, StartEdgeForgets DEF Upsert
  <2>6. CASE Consolidate(c)
    BY <2>6, ReadsForgetNothing
  <2> QED
    BY <1>3, <2>1, <2>2, <2>3, <2>4, <2>5, <2>6 DEF Continue
<1> QED
  BY <1>1, <1>2, <1>3 DEF Next

\* Facts are never lost: whatever merges, retirements, upserts, saves and crashes
\* run side by side, and in whatever order the writes of the saves land, a fact
\* whose upsert returned, or that was stored, is in the graph in memory once that
\* is loaded, between the nodes its ends were merged into; unless calls raced, a
\* merge broke off, or a start found files that do not fit together or edges that
\* an overtaken copy had left.
THEOREM StoreKeepsFacts == Spec => []FactsKept
<1>1. Init => Inv /\ KeptInv
  BY InitInv, InitForgets
<1>2. Inv /\ KeptInv /\ [Next]_vars => (Inv /\ KeptInv)'
  BY NextKept, NextForgets
<1>3. Inv /\ KeptInv => FactsKept
  <2> SUFFICES ASSUME Inv, KeptInv, Loaded, Unbroken, NEW f \in acked
               PROVE  Kept(f)
    BY DEF FactsKept, Unbroken
  <2>1. f \in Triple /\ Answered(f)
    BY DEF Inv, TypeInv, Answered
  <2>2. Has(absorbed, DOMAIN memory.edges, f)
    BY <2>1 DEF KeptInv, KeptInMemory
  <2> QED
    BY <2>2, Zenon DEF Has, Joined, Kept, SameEntity
<1> QED
  BY <1>1, <1>2, <1>3, PTL DEF Spec

(***************************************************************************)
(* The searches: GraphSearch.                                              *)
(*                                                                         *)
(* The indexes follow the edges by induction over the changes alone, once  *)
(* edges have their fields.                                                *)
(***************************************************************************)
AnyEdge == [from : NodeId, to : NodeId, directed : BOOLEAN, weight : 0..Unit]

\* A graph with the indexes of its edges.
IndexedBy(g, es) ==
  /\ g.edges = es
  /\ \A n \in NodeId : /\ g.out[n] = {id \in DOMAIN es : n \in OutKeys(es[id])}
                       /\ g.in[n] = {id \in DOMAIN es : n \in InKeys(es[id])}

EdgesIn(es, ns) == \A id \in DOMAIN es : {es[id].from, es[id].to} \subseteq ns

LEMMA WithoutIndexed ==
  ASSUME NEW g, NEW es, IndexedBy(g, es), NEW ids
  PROVE  IndexedBy(Without(g, ids), [id \in DOMAIN es \ ids |-> es[id]])
BY Z3 DEF IndexedBy, Without, Restrict

LEMMA IndexedIndexed ==
  ASSUME NEW g, NEW es, IndexedBy(g, es), NEW fs, DOMAIN fs \cap DOMAIN es = {}
  PROVE  IndexedBy(Indexed(g, fs),
           [id \in DOMAIN es \union DOMAIN fs |-> IF id \in DOMAIN fs THEN fs[id] ELSE es[id]])
BY Z3 DEF IndexedBy, Indexed

LEMMA WithIndexed ==
  ASSUME NEW g, NEW es, IndexedBy(g, es), NEW fs
  PROVE  IndexedBy(With(g, fs),
           [id \in DOMAIN es \union DOMAIN fs |-> IF id \in DOMAIN fs THEN fs[id] ELSE es[id]])
<1> DEFINE ids == DOMAIN fs \cap DOMAIN es
           hs  == [id \in DOMAIN es \ ids |-> es[id]]
           all == [id \in DOMAIN hs \union DOMAIN fs |-> IF id \in DOMAIN fs THEN fs[id] ELSE hs[id]]
<1>1. IndexedBy(Without(g, ids), hs)
  BY WithoutIndexed
<1>2. IndexedBy(Indexed(Without(g, ids), fs), all)
  BY <1>1, IndexedIndexed
<1>3. all = [id \in DOMAIN es \union DOMAIN fs |-> IF id \in DOMAIN fs THEN fs[id] ELSE es[id]]
  OBVIOUS
<1>4. With(g, fs) = Indexed(Without(g, ids), fs)
  BY DEF With, IndexedBy
<1> QED
  BY <1>2, <1>3, <1>4

LEMMA BareIndexed == IndexedBy(Bare, << >>)
BY DEF IndexedBy, Bare

\* The current graph, and the next.
LEMMA CurrentIndexed == IndexesAgree <=> IndexedBy(Current, edges) /\ EdgesIn(edges, nodes)
BY DEF IndexesAgree, IndexedBy, Current, EdgesIn

LEMMA BecomeIndexed ==
  ASSUME NEW g, NEW es, IndexedBy(g, es), Become(g), EdgesIn(es, nodes')
  PROVE  edges' = es /\ IndexesAgree'
BY DEF IndexesAgree, IndexedBy, EdgesIn, Become

SearchTypeInv ==
  /\ nodes \subseteq NodeId
  /\ \A id \in DOMAIN edges : edges[id] \in AnyEdge

LEMMA SearchInitIndexed == SearchInit => SearchTypeInv /\ IndexesAgree
<1> SUFFICES ASSUME SearchInit PROVE SearchTypeInv /\ IndexesAgree
  OBVIOUS
<1>1. PICK s \in Snapshot : LET g == Imported(s) IN edges = g.edges /\ outgoing = g.out /\ incoming = g.in
  BY DEF SearchInit
<1>2. \A id \in DOMAIN s : s[id] \in AnyEdge
  BY SearchAssumption DEF AnyEdge, Range
<1>3. IndexedBy(Imported(s),
         [id \in DOMAIN << >> \union DOMAIN s |-> IF id \in DOMAIN s THEN s[id] ELSE << >>[id]])
  BY BareIndexed, WithIndexed DEF Imported
<1>4. edges = [id \in DOMAIN s |-> s[id]]
  BY <1>1, <1>3 DEF IndexedBy
<1>5. IndexedBy(Current, edges)
  BY <1>1, <1>3, Zenon DEF IndexedBy, Current
<1>6. nodes = NodeId
  BY DEF SearchInit
<1> QED
  BY <1>2, <1>4, <1>5, <1>6, CurrentIndexed DEF SearchTypeInv, EdgesIn, AnyEdge

LEMMA WriteIndexed ==
  ASSUME SearchTypeInv, IndexesAgree, Write
  PROVE  (SearchTypeInv /\ IndexesAgree)'
<1>0. IndexedBy(Current, edges) /\ EdgesIn(edges, nodes)
  BY CurrentIndexed
<1>1. ASSUME NEW n \in NodeId, UpsertNodes(n)
      PROVE  (SearchTypeInv /\ IndexesAgree)'
  BY <1>1 DEF UpsertNodes, SearchTypeInv, IndexesAgree
<1>2. ASSUME NEW n \in NodeId, NEW cascade \in BOOLEAN, DeleteNode(n, cascade)
      PROVE  (SearchTypeInv /\ IndexesAgree)'
  <2> DEFINE connected == outgoing[n] \union incoming[n]
             es == [id \in DOMAIN edges \ (connected \intersect DOMAIN edges) |-> edges[id]]
  <2>1. IndexedBy(Without(Current, connected \intersect DOMAIN edges), es)
    BY <1>0, WithoutIndexed
  <2>2. Become(Without(Current, connected \intersect DOMAIN edges)) /\ nodes' = nodes \ {n}
    BY <1>2 DEF DeleteNode
  <2>3. \A id \in DOMAIN edges : n \in {edges[id].from, edges[id].to} => id \in connected
    BY DEF IndexesAgree, OutKeys, InKeys
  <2>4. EdgesIn(es, nodes')
    BY <1>0, <2>2, <2>3 DEF EdgesIn
  <2>5. edges' = es /\ IndexesAgree'
    BY <2>1, <2>2, <2>4, BecomeIndexed
  <2> QED
    BY <2>2, <2>5 DEF SearchTypeInv
<1>3. ASSUME NEW id \in EdgeId, DeleteEdge(id)
      PROVE  (SearchTypeInv /\ IndexesAgree)'
  <2> DEFINE es == [i \in DOMAIN edges \ {id} |-> edges[i]]
  <2>1. IndexedBy(Without(Current, {id}), es)
    BY <1>0, WithoutIndexed
  <2>2. Become(Without(Current, {id})) /\ nodes' = nodes
    BY <1>3 DEF DeleteEdge
  <2>3. edges' = es /\ IndexesAgree'
    <3>1. EdgesIn(es, nodes')
      BY <1>0, <2>2 DEF EdgesIn
    <3> QED
      BY <3>1, <2>1, <2>2, BecomeIndexed
  <2> QED
    BY <2>2, <2>3 DEF SearchTypeInv
<1>4. ASSUME NEW id \in EdgeId, NEW e \in Segment, UpsertEdges(id, e)
      PROVE  (SearchTypeInv /\ IndexesAgree)'
  <2> DEFINE fs == [i \in {id} |-> e]
             es == [i \in DOMAIN edges \union DOMAIN fs |-> IF i \in DOMAIN fs THEN fs[i] ELSE edges[i]]
  <2>1. IndexedBy(With(Current, fs), es)
    BY <1>0, WithIndexed
  <2>2. Become(With(Current, fs)) /\ nodes' = nodes /\ {e.from, e.to} \subseteq nodes
    BY <1>4 DEF UpsertEdges
  <2>3. edges' = es /\ IndexesAgree'
    <3>1. EdgesIn(es, nodes')
      BY <1>0, <2>2 DEF EdgesIn
    <3> QED
      BY <3>1, <2>1, <2>2, BecomeIndexed
  <2>4. e \in AnyEdge
    BY SearchAssumption DEF AnyEdge
  <2> QED
    BY <2>2, <2>3, <2>4 DEF SearchTypeInv
<1>5. CASE DecayEdges
  <2> DEFINE faded  == {id \in DOMAIN edges : edges[id].weight < 2 * MinWeight}
             halved == [id \in DOMAIN edges \ faded |-> [edges[id] EXCEPT !.weight = @ \div 2]]
             hs     == [id \in DOMAIN edges \ faded |-> edges[id]]
             es     == [id \in DOMAIN hs \union DOMAIN halved |->
                          IF id \in DOMAIN halved THEN halved[id] ELSE hs[id]]
  <2>1. IndexedBy(Without(Current, faded), hs)
    BY <1>0, WithoutIndexed
  <2>2. IndexedBy(With(Without(Current, faded), halved), es)
    <3> HIDE DEF faded, halved, hs
    <3> QED
      BY <2>1, WithIndexed
  <2>3. Become(With(Without(Current, faded), halved)) /\ nodes' = nodes
    BY <1>5 DEF DecayEdges
  <2>4. es = halved
    OBVIOUS
  <2>5. \A w \in 0..Unit : w \div 2 \in 0..Unit
    BY SearchAssumption
  <2>6. \A id \in DOMAIN halved :
          /\ halved[id] \in AnyEdge
          /\ halved[id].from = edges[id].from /\ halved[id].to = edges[id].to
    BY <2>5 DEF SearchTypeInv, AnyEdge
  <2>7. EdgesIn(es, nodes')
    BY <1>0, <2>3, <2>4, <2>6 DEF EdgesIn
  <2>8. edges' = es /\ IndexesAgree'
    BY <2>2, <2>3, <2>7, BecomeIndexed
  <2> QED
    BY <2>3, <2>4, <2>6, <2>8 DEF SearchTypeInv
<1>6. CASE Clear
  <2>1. Become(Bare) /\ nodes' = {}
    BY <1>6 DEF Clear
  <2>2. edges' = << >> /\ IndexesAgree'
    BY <2>1, BareIndexed, BecomeIndexed DEF EdgesIn
  <2> QED
    BY <2>1, <2>2 DEF SearchTypeInv
<1> QED
  BY <1>1, <1>2, <1>3, <1>4, <1>5, <1>6 DEF Write

LEMMA SearchChangesNothing == Search => UNCHANGED <<graph, changes>>
BY DEF Search, StartSearch, SkipItem, Arrive, Expand, RunDry

LEMMA SearchIndexed ==
  SearchTypeInv /\ IndexesAgree /\ [SearchNext]_searchVars => (SearchTypeInv /\ IndexesAgree)'
<1>1. CASE UNCHANGED graph
  BY <1>1 DEF graph, SearchTypeInv, IndexesAgree
<1> QED
  BY <1>1, WriteIndexed, SearchChangesNothing DEF SearchNext, searchVars

\* After any sequence of upserts that move an edge, decays and deletions, every edge
\* has its two nodes and the indexes have it under exactly the nodes where it is looked
\* for (setEdge, removeEdge, indexEdge, unindexEdge).
THEOREM IndexesFollow == SearchSpec => []IndexesAgree
BY SearchInitIndexed, SearchIndexed, PTL DEF SearchSpec

\* A set of numbers has a least.
LEMMA LeastNumber ==
  ASSUME NEW T \in SUBSET Nat, T # {}
  PROVE  \E m \in T : \A k \in T : m <= k
<1>1. IsWellFoundedOn(OpToRel(<, Nat), Nat)
  BY NatLessThanWellFounded
<1>2. PICK m \in T : \A k \in T : ~(<<k, m>> \in OpToRel(<, Nat))
  BY <1>1, WFMin
<1>3. \A k \in T : ~(k < m)
  BY <1>2 DEF OpToRel
<1> QED
  BY <1>3

\* Induction: a set that has 0, and with a number the next, has all.
LEMMA NumberInduction ==
  ASSUME NEW T, 0 \in T, \A m \in Nat : m \in T => m + 1 \in T
  PROVE  Nat \subseteq T
<1> DEFINE Rest == Nat \ T
<1> SUFFICES ASSUME Rest # {} PROVE FALSE
  OBVIOUS
<1>1. PICK m \in Rest : \A k \in Rest : m <= k
  BY LeastNumber
<1>2. m - 1 \in Nat /\ m - 1 \notin Rest
  BY <1>1
<1>3. (m - 1) + 1 = m
  BY <1>1
<1> QED
  BY <1>1, <1>2, <1>3

\* Recursion: what is repeated from a start gives a function of the repetitions.
Chain(g, n, start, F) == g[0] = start /\ \A i \in Nat : i < n => g[i + 1] = F[g[i]]

LEMMA Recursion ==
  ASSUME NEW T, NEW start \in T, NEW F \in [T -> T]
  PROVE  \E f \in [Nat -> T] : f[0] = start /\ \A k \in Nat : f[k + 1] = F[f[k]]
<1> DEFINE Chains(n) == {g \in [0 .. n -> T] : Chain(g, n, start, F)}
<1>1. \A n \in Nat : Chains(n) # {}
  <2> DEFINE N == {n \in Nat : Chains(n) # {}}
  <2>1. 0 \in N
    <3>1. [i \in 0 .. 0 |-> start] \in Chains(0)
      BY DEF Chain
    <3> QED
      BY <3>1
  <2>2. ASSUME NEW n \in Nat, n \in N PROVE n + 1 \in N
    <3>1. PICK g \in [0 .. n -> T] : Chain(g, n, start, F)
      BY <2>2
    <3> DEFINE h == [i \in 0 .. n + 1 |-> IF i <= n THEN g[i] ELSE F[g[n]]]
    <3>2. h \in [0 .. n + 1 -> T]
      BY <3>1
    <3>3. h[0] = start
      BY <3>1 DEF Chain
    <3>4. ASSUME NEW i \in Nat, i < n + 1 PROVE h[i + 1] = F[h[i]]
      BY <3>1, <3>4 DEF Chain
    <3> HIDE DEF h
    <3>5. h \in Chains(n + 1)
      BY <3>2, <3>3, <3>4 DEF Chain
    <3> QED
      BY <3>5
  <2> HIDE DEF N
  <2>3. Nat \subseteq N
    BY <2>1, <2>2, NumberInduction
  <2> QED
    BY <2>3 DEF N
<1>2. ASSUME NEW n \in Nat, NEW g \in Chains(n), NEW h \in Chains(n + 1)
      PROVE  g[n] = h[n]
  <2> DEFINE N == {k \in Nat : k <= n => g[k] = h[k]}
  <2>1. 0 \in N
    BY DEF Chain
  <2>2. \A k \in Nat : k \in N => k + 1 \in N
    BY DEF Chain
  <2> HIDE DEF N
  <2>3. Nat \subseteq N
    BY <2>1, <2>2, NumberInduction
  <2> QED
    BY <2>3 DEF N
<1> DEFINE c == [n \in Nat |-> CHOOSE g \in Chains(n) : TRUE]
           f == [n \in Nat |-> c[n][n]]
<1>3. \A n \in Nat : c[n] \in Chains(n)
  BY <1>1
<1> HIDE DEF c
<1>4. f \in [Nat -> T]
  BY <1>3
<1>5. f[0] = start
  BY <1>3 DEF Chain
<1>6. ASSUME NEW n \in Nat PROVE f[n + 1] = F[f[n]]
  <2>1. c[n][n] = c[n + 1][n]
    BY <1>2, <1>3
  <2>2. c[n + 1][n + 1] = F[c[n + 1][n]]
    BY <1>3 DEF Chain
  <2> QED
    BY <2>1, <2>2
<1> HIDE DEF f
<1> QED
  BY <1>4, <1>5, <1>6

\* The recursion of Within.
LEMMA WithinDef ==
  ASSUME NEW S \in SUBSET NodeId, NEW d, nodes \subseteq NodeId
  PROVE  /\ Within(S, d)[0] = S
         /\ \A k \in Nat : Within(S, d)[k + 1] = Around(Within(S, d)[k], d)
         /\ \A k \in Nat : Within(S, d)[k] \subseteq NodeId
<1> DEFINE T == SUBSET NodeId
           F == [X \in T |-> Around(X, d)]
           Def(f) == [k \in Nat |-> IF k = 0 THEN S ELSE Around(f[k - 1], d)]
           w == CHOOSE f : f = Def(f)
<1>1. F \in [T -> T]
  BY DEF Around, Arcs
<1>2. S \in T
  OBVIOUS
<1>3. \A X \in T : F[X] = Around(X, d)
  OBVIOUS
<1> HIDE DEF F, T
<1>4. PICK f \in [Nat -> T] : f[0] = S /\ \A k \in Nat : f[k + 1] = F[f[k]]
  BY <1>1, <1>2, Recursion
<1>5. \A k \in Nat : k # 0 => k - 1 \in Nat /\ (k - 1) + 1 = k
  OBVIOUS
<1>6. \A k \in Nat : k # 0 => f[k] = Around(f[k - 1], d)
  BY <1>3, <1>4, <1>5
<1>7. f = Def(f)
  BY <1>4, <1>6
<1>8. w = Def(w)
  BY <1>7
<1>9. Within(S, d) = w
  BY DEF Within
<1> HIDE DEF w
<1>10. w[0] = S
  BY <1>8
<1>11. ASSUME NEW k \in Nat PROVE w[k + 1] = Around(w[k], d)
  <2>1. k + 1 \in Nat /\ k + 1 # 0 /\ (k + 1) - 1 = k
    OBVIOUS
  <2> QED
    BY <1>8, <2>1
<1>12. \A k \in Nat : w[k] \subseteq NodeId
  <2> DEFINE N == {k \in Nat : w[k] \subseteq NodeId}
  <2>1. 0 \in N /\ \A k \in Nat : k \in N => k + 1 \in N
    BY <1>10, <1>11 DEF Around, Arcs
  <2> HIDE DEF N
  <2>2. Nat \subseteq N
    BY <2>1, NumberInduction
  <2> QED
    BY <2>2 DEF N
<1> QED
  BY <1>9, <1>10, <1>11, <1>12

\* Labels of nodes with costs.
Label == [node : NodeId, cost : Nat]

LEMMA CostsDef ==
  ASSUME NEW S \in SUBSET NodeId, NEW d, SearchTypeInv
  PROVE  /\ Costs(S, d)[0] = {[node |-> n, cost |-> 0] : n \in S}
         /\ \A k \in Nat : Costs(S, d)[k + 1] = Cheapest(Onward(Costs(S, d)[k], d))
         /\ \A k \in Nat : Costs(S, d)[k] \subseteq Label
<1> DEFINE T == SUBSET Label
           start == {[node |-> n, cost |-> 0] : n \in S}
           F == [X \in T |-> Cheapest(Onward(X, d))]
           Def(f) == [k \in Nat |-> IF k = 0 THEN start ELSE Cheapest(Onward(f[k - 1], d))]
           w == CHOOSE f : f = Def(f)
<1>1. \A X \in SUBSET Label : Cheapest(Onward(X, d)) \subseteq Label
  <2> TAKE X \in SUBSET Label
  <2>1. \A a \in Arcs(d) : a.to \in NodeId /\ a.cost \in Nat
    BY SearchAssumption DEF Arcs, SearchTypeInv
  <2>2. ASSUME NEW x \in X, NEW a \in Arcs(d) PROVE [node |-> a.to, cost |-> x.cost + a.cost] \in Label
    BY <2>1 DEF Label
  <2>3. Onward(X, d) \subseteq Label
    BY <2>2 DEF Onward
  <2> QED
    BY <2>3 DEF Cheapest
<1>2. F \in [T -> T]
  BY <1>1
<1>3. start \in T
  BY DEF Label
<1>4. \A X \in T : F[X] = Cheapest(Onward(X, d))
  OBVIOUS
<1> HIDE DEF F, T, start
<1>5. PICK f \in [Nat -> T] : f[0] = start /\ \A k \in Nat : f[k + 1] = F[f[k]]
  BY <1>2, <1>3, Recursion
<1>6. \A k \in Nat : k # 0 => k - 1 \in Nat /\ (k - 1) + 1 = k
  OBVIOUS
<1>7. \A k \in Nat : k # 0 => f[k] = Cheapest(Onward(f[k - 1], d))
  BY <1>4, <1>5, <1>6
<1>8. f = Def(f)
  BY <1>5, <1>7
<1>9. w = Def(w)
  BY <1>8
<1>10. Costs(S, d) = w
  BY DEF Costs, start
<1> HIDE DEF w
<1>11. w[0] = start
  BY <1>9
<1>12. ASSUME NEW k \in Nat PROVE w[k + 1] = Cheapest(Onward(w[k], d))
  <2>1. k + 1 \in Nat /\ k + 1 # 0 /\ (k + 1) - 1 = k
    OBVIOUS
  <2> QED
    BY <1>9, <2>1
<1>13. \A k \in Nat : w[k] \subseteq Label
  <2> DEFINE N == {k \in Nat : w[k] \subseteq Label}
  <2>1. 0 \in N
    BY <1>3, <1>11 DEF T
  <2>2. ASSUME NEW k \in Nat, k \in N PROVE k + 1 \in N
    BY <1>1, <1>12, <2>2
  <2> HIDE DEF N
  <2>3. Nat \subseteq N
    BY <2>1, <2>2, NumberInduction
  <2> QED
    BY <2>3 DEF N
<1> QED
  BY <1>10, <1>11, <1>12, <1>13 DEF start

(***************************************************************************)
(* Sequences.                                                              *)
(***************************************************************************)
\* A set in any order has all of its elements.
LEMMA OrderHasAll ==
  ASSUME NEW S, IsFiniteSet(S), NEW order \in SetToSeqs(S)
  PROVE  /\ order \in Seq(S)
         /\ \A m \in S : \E k \in DOMAIN order : order[k] = m
<1> DEFINE D == 1 .. Cardinality(S)
<1>1. Cardinality(S) \in Nat
  BY FS_CardinalityType
<1>2. order \in [D -> S] /\ \A i, j \in D : i # j => order[i] # order[j]
  BY DEF SetToSeqs
<1>3. order \in Injection(D, S)
  BY <1>2 DEF Injection, IsInjective
<1>4. Cardinality(D) = Cardinality(S)
  BY <1>1, FS_Interval
<1>5. order \in Surjection(D, S)
  BY <1>3, <1>4, FS_Injection
<1> QED
  BY <1>1, <1>2, <1>5 DEF Surjection

\* What is left when an item is taken out.
LEMMA RemoveAtKeeps ==
  ASSUME NEW T, NEW s \in Seq(T), NEW i \in DOMAIN s
  PROVE  LET r == RemoveAt(s, i) IN
         /\ r \in Seq(T) /\ Len(r) = Len(s) - 1
         /\ \A k \in DOMAIN r : r[k] = s[IF k < i THEN k ELSE k + 1]
<1> DEFINE a == SubSeq(s, 1, i - 1)
           b == SubSeq(s, i + 1, Len(s))
<1>1. Len(s) \in Nat /\ DOMAIN s = 1 .. Len(s) /\ i \in 1 .. Len(s)
  OBVIOUS
<1>2. a \in Seq(T) /\ Len(a) = i - 1 /\ \A k \in 1 .. i - 1 : a[k] = s[k]
  BY <1>1
<1>3. b \in Seq(T) /\ Len(b) = Len(s) - i /\ \A k \in 1 .. Len(s) - i : b[k] = s[k + i]
  BY <1>1
<1> HIDE DEF a, b
<1> HIDE DEF a, b
<1>4. /\ a \o b \in Seq(T) /\ Len(a \o b) = Len(a) + Len(b)
      /\ \A k \in 1 .. Len(a) + Len(b) :
           (a \o b)[k] = IF k <= Len(a) THEN a[k] ELSE b[k - Len(a)]
  BY <1>2, <1>3, ConcatProperties
<1>5. \A k \in 1 .. Len(s) - 1 : k < i => (a \o b)[k] = s[k]
  BY <1>1, <1>2, <1>3, <1>4
<1>6. \A k \in 1 .. Len(s) - 1 : k >= i => (a \o b)[k] = s[k + 1]
  <2> TAKE k \in 1 .. Len(s) - 1
  <2> HAVE k >= i
  <2>1. (a \o b)[k] = b[k - Len(a)]
    BY <1>1, <1>2, <1>3, <1>4
  <2>2. k - Len(a) \in 1 .. Len(s) - i /\ (k - Len(a)) + i = k + 1
    BY <1>1, <1>2
  <2> QED
    BY <1>3, <2>1, <2>2
<1>7. RemoveAt(s, i) = a \o b
  BY DEF RemoveAt, a, b
<1>8. Len(a \o b) = Len(s) - 1 /\ DOMAIN (a \o b) = 1 .. Len(s) - 1
  <2>1. Len(a \o b) = Len(s) - 1
    BY <1>1, <1>2, <1>3, <1>4
  <2>2. DOMAIN (a \o b) = 1 .. Len(a \o b)
    BY <1>4
  <2> QED
    BY <2>1, <2>2
<1> QED
  <2>1. \A k \in 1 .. Len(s) - 1 : (a \o b)[k] = s[IF k < i THEN k ELSE k + 1]
    <3> TAKE k \in 1 .. Len(s) - 1
    <3>1. k < i \/ k >= i
      BY <1>1
    <3> QED
      BY <1>1, <1>5, <1>6, <3>1
  <2> QED
    BY <1>4, <1>7, <1>8, <2>1

(***************************************************************************)
(* Neighbours.                                                             *)
(***************************************************************************)
\* neighbors finds the nodes that edges lead to, with their costs.
LEMMA NeighborsAreArcs ==
  ASSUME SearchTypeInv, IndexesAgree, NEW n \in nodes, NEW d \in {"out", "in", "both"}
  PROVE  /\ \A f \in Neighbors(n, d) :
              \E a \in Arcs(d) : a.from = n /\ f = [node |-> a.to, cost |-> a.cost]
         /\ \A a \in Arcs(d) : a.from = n => [node |-> a.to, cost |-> a.cost] \in Neighbors(n, d)
<1>0. n \in NodeId /\ Unit \in Nat
  BY SearchAssumption DEF SearchTypeInv
<1>1. \A id \in DOMAIN edges : Unit - edges[id].weight \in 0..Unit
  BY SearchAssumption DEF SearchTypeInv, AnyEdge
<1>2. ASSUME NEW id \in DOMAIN edges, NEW m \in nodes
      PROVE  /\ m \in Candidates(edges[id], n, d) <=> Leads(edges[id], n, m, d)
             /\ Leads(edges[id], n, m, d) => id \in NeighborEdgeIds(n, d)
  <2>1. edges[id].directed \in BOOLEAN
    BY DEF SearchTypeInv, AnyEdge
  <2>2. m \in Candidates(edges[id], n, d) <=> Leads(edges[id], n, m, d)
    BY <2>1 DEF Candidates, Leads
  <2>3. Leads(edges[id], n, m, d) => id \in NeighborEdgeIds(n, d)
    BY <1>0, <2>1 DEF Leads, NeighborEdgeIds, IndexesAgree, OutKeys, InKeys
  <2> QED
    BY <2>2, <2>3
<1>3. ASSUME NEW f \in Neighbors(n, d)
      PROVE  \E a \in Arcs(d) : a.from = n /\ f = [node |-> a.to, cost |-> a.cost]
  <2>1. PICK id \in NeighborEdgeIds(n, d) \intersect DOMAIN edges :
          \E m \in Candidates(edges[id], n, d) \intersect nodes :
            f = [node |-> m, cost |-> Unit - edges[id].weight]
    BY <1>3 DEF Neighbors
  <2>2. PICK m \in Candidates(edges[id], n, d) \intersect nodes :
            f = [node |-> m, cost |-> Unit - edges[id].weight]
    BY <2>1
  <2>3. [from |-> n, to |-> m, cost |-> Unit - edges[id].weight] \in Arcs(d)
    BY <1>1, <1>2 DEF Arcs
  <2> QED
    BY <2>2, <2>3
<1>4. ASSUME NEW a \in Arcs(d), a.from = n
      PROVE  [node |-> a.to, cost |-> a.cost] \in Neighbors(n, d)
  <2>1. a.to \in nodes
    BY DEF Arcs
  <2>2. PICK id \in DOMAIN edges : Leads(edges[id], n, a.to, d) /\ a.cost = Unit - edges[id].weight
    BY <1>4 DEF Arcs
  <2>3. id \in NeighborEdgeIds(n, d) /\ a.to \in Candidates(edges[id], n, d)
    BY <1>2, <2>1, <2>2
  <2> QED
    BY <2>1, <2>2, <2>3 DEF Neighbors
<1> QED
  BY <1>3, <1>4

\* What reach R by the arcs A is: it grows by what one arc leads to.
IsReach(R, A) ==
  \A k \in Nat :
    /\ R[k] \subseteq R[k + 1]
    /\ \A a \in A : a.from \in R[k] => a.to \in R[k + 1]
    /\ \A n \in R[k + 1] : n \in R[k] \/ \E a \in A : a.from \in R[k] /\ a.to = n

LEMMA WithinIsReach ==
  ASSUME NEW S \in SUBSET NodeId, NEW d, nodes \subseteq NodeId
  PROVE  IsReach(Within(S, d), Arcs(d))
<1> DEFINE R == Within(S, d)
           A == Arcs(d)
<1>1. \A k \in Nat : R[k + 1] = Around(R[k], d)
  BY WithinDef
<1> HIDE DEF R
<1>2. \A X : Around(X, d) = X \union {a.to : a \in {b \in A : b.from \in X}}
  BY DEF Around
<1> HIDE DEF A
<1>3. ASSUME NEW k \in Nat
      PROVE  /\ R[k] \subseteq R[k + 1]
             /\ \A a \in A : a.from \in R[k] => a.to \in R[k + 1]
             /\ \A n \in R[k + 1] : n \in R[k] \/ \E a \in A : a.from \in R[k] /\ a.to = n
  BY <1>1, <1>2
<1> QED
  BY <1>3 DEF IsReach, R, A

LEMMA ReachGrows ==
  ASSUME NEW R, NEW A, IsReach(R, A), NEW j \in Nat, NEW k \in Nat, j <= k
  PROVE  R[j] \subseteq R[k]
<1> DEFINE T == {i \in Nat : R[j] \subseteq R[j + i]}
<1>1. 0 \in T
  OBVIOUS
<1>2. ASSUME NEW i \in Nat, i \in T PROVE i + 1 \in T
  <2>1. j + i \in Nat /\ (j + i) + 1 = j + (i + 1)
    OBVIOUS
  <2>2. R[j + i] \subseteq R[(j + i) + 1]
    BY <2>1 DEF IsReach
  <2> QED
    BY <1>2, <2>1, <2>2
<1> HIDE DEF T
<1>3. Nat \subseteq T
  BY <1>1, <1>2, NumberInduction
<1>4. k - j \in Nat /\ j + (k - j) = k
  OBVIOUS
<1> QED
  BY <1>3, <1>4 DEF T

\* What the least costs C by the arcs A are: one for a node, and no more than by way
\* of any arc.
IsLeast(C, A) ==
  \A k \in Nat :
    /\ C[k] \subseteq Label
    /\ \A y, z \in C[k] : y.node = z.node => y = z
    /\ \A y \in C[k] : \E z \in C[k + 1] : z.node = y.node /\ z.cost <= y.cost
    /\ \A y \in C[k], a \in A : a.from = y.node =>
         \E z \in C[k + 1] : z.node = a.to /\ z.cost <= y.cost + a.cost
    /\ \A z \in C[k + 1] : \/ z \in C[k]
                           \/ \E y \in C[k], a \in A : /\ a.from = y.node /\ z.node = a.to
                                                       /\ z.cost = y.cost + a.cost

LEMMA CheapestHasLess ==
  ASSUME NEW L \in SUBSET Label, NEW x \in L
  PROVE  \E z \in Cheapest(L) : z.node = x.node /\ z.cost <= x.cost
<1> DEFINE T == {y.cost : y \in {z \in L : z.node = x.node}}
<1>1. T \in SUBSET Nat /\ x.cost \in T
  BY DEF Label
<1>2. PICK m \in T : \A k \in T : m <= k
  BY <1>1, LeastNumber
<1>3. PICK z \in L : z.node = x.node /\ z.cost = m
  BY <1>2
<1>4. \A y \in L : y.node = z.node => z.cost <= y.cost
  BY <1>2, <1>3
<1> QED
  BY <1>1, <1>2, <1>3, <1>4 DEF Cheapest

LEMMA CheapestOnce ==
  ASSUME NEW L \in SUBSET Label, NEW y \in Cheapest(L), NEW z \in Cheapest(L), y.node = z.node
  PROVE  y = z
<1>1. y \in Label /\ z \in Label /\ y.cost <= z.cost /\ z.cost <= y.cost
  BY DEF Cheapest
<1> QED
  BY <1>1 DEF Label

LEMMA CostsAreLeast ==
  ASSUME NEW S \in SUBSET NodeId, NEW d, SearchTypeInv
  PROVE  IsLeast(Costs(S, d), Arcs(d))
<1> DEFINE C == Costs(S, d)
<1>1. /\ C[0] = {[node |-> n, cost |-> 0] : n \in S}
      /\ \A k \in Nat : C[k + 1] = Cheapest(Onward(C[k], d))
      /\ \A k \in Nat : C[k] \subseteq Label
  BY CostsDef
<1> HIDE DEF C
<1>2. ASSUME NEW k \in Nat PROVE Onward(C[k], d) \in SUBSET Label
  <2>1. \A a \in Arcs(d) : a.to \in NodeId /\ a.cost \in Nat
    BY SearchAssumption DEF Arcs, SearchTypeInv
  <2>2. ASSUME NEW x \in C[k], NEW a \in Arcs(d) PROVE [node |-> a.to, cost |-> x.cost + a.cost] \in Label
    BY <1>1, <2>1 DEF Label
  <2> QED
    BY <1>1, <2>2 DEF Onward
<1>3. ASSUME NEW k \in Nat, NEW y \in C[k], NEW z \in C[k], y.node = z.node PROVE y = z
  <2>1. CASE k = 0
    BY <1>1, <1>3, <2>1
  <2>2. CASE k # 0
    <3>1. k - 1 \in Nat /\ (k - 1) + 1 = k
      BY <2>2
    <3>2. C[k] = Cheapest(Onward(C[k - 1], d))
      BY <1>1, <3>1
    <3> QED
      BY <1>2, <1>3, <3>1, <3>2, CheapestOnce
  <2> QED
    BY <2>1, <2>2
<1>4. ASSUME NEW k \in Nat, NEW y \in C[k]
      PROVE  \E z \in C[k + 1] : z.node = y.node /\ z.cost <= y.cost
  <2>1. y \in Onward(C[k], d)
    BY DEF Onward
  <2> QED
    BY <1>1, <1>2, <2>1, CheapestHasLess
<1>5. ASSUME NEW k \in Nat, NEW y \in C[k], NEW a \in Arcs(d), a.from = y.node
      PROVE  \E z \in C[k + 1] : z.node = a.to /\ z.cost <= y.cost + a.cost
  <2> DEFINE x == [node |-> a.to, cost |-> y.cost + a.cost]
  <2>1. x \in Onward(C[k], d)
    BY <1>5 DEF Onward
  <2>2. x.node = a.to /\ x.cost = y.cost + a.cost
    OBVIOUS
  <2> HIDE DEF x
  <2>3. \E z \in Cheapest(Onward(C[k], d)) : z.node = x.node /\ z.cost <= x.cost
    BY <1>2, <2>1, CheapestHasLess
  <2> QED
    BY <1>1, <2>2, <2>3
<1>6. ASSUME NEW k \in Nat, NEW z \in C[k + 1]
      PROVE  \/ z \in C[k]
             \/ \E y \in C[k], a \in Arcs(d) : /\ a.from = y.node /\ z.node = a.to
                                               /\ z.cost = y.cost + a.cost
  <2>1. z \in Onward(C[k], d)
    BY <1>1 DEF Cheapest
  <2> QED
    BY <2>1 DEF Onward
<1> QED
  BY <1>1, <1>3, <1>4, <1>5, <1>6 DEF IsLeast, C

LEMMA LeastShrinks ==
  ASSUME NEW C, NEW A, IsLeast(C, A), NEW j \in Nat, NEW k \in Nat, j <= k, NEW y \in C[j]
  PROVE  \E z \in C[k] : z.node = y.node /\ z.cost <= y.cost
<1> DEFINE T == {i \in Nat : \E z \in C[j + i] : z.node = y.node /\ z.cost <= y.cost}
<1>1. y.cost \in Nat
  BY DEF IsLeast, Label
<1>2. 0 \in T
  BY <1>1
<1>3. ASSUME NEW i \in Nat, i \in T PROVE i + 1 \in T
  <2>1. j + i \in Nat /\ (j + i) + 1 = j + (i + 1) /\ (j + i) + 1 \in Nat
    OBVIOUS
  <2>2. PICK z \in C[j + i] : z.node = y.node /\ z.cost <= y.cost
    BY <1>3
  <2>3. PICK x \in C[(j + i) + 1] : x.node = z.node /\ x.cost <= z.cost
    BY <2>1 DEF IsLeast
  <2>4. x.cost \in Nat /\ z.cost \in Nat
    BY <2>1 DEF IsLeast, Label
  <2>5. x.cost <= y.cost
    BY <1>1, <2>2, <2>3, <2>4
  <2> QED
    BY <2>1, <2>2, <2>3, <2>5
<1> HIDE DEF T
<1>4. Nat \subseteq T
  BY <1>2, <1>3, NumberInduction
<1>5. k - j \in Nat /\ j + (k - j) = k
  OBVIOUS
<1> QED
  BY <1>4, <1>5 DEF T

(***************************************************************************)
(* A pass of the loops: item i leaves the queue q, and the nodes of r, with*)
(* their costs, come to its end.                                           *)
(***************************************************************************)
Items == [node : NodeId, cost : Nat, depth : Nat]

Passed(q, i, r, depth, p) ==
  /\ p \in Seq(Items) /\ Len(p) >= Len(q) - 1
  /\ \A k \in DOMAIN p :
       \/ \E j \in DOMAIN q : j # i /\ p[k] = q[j]
       \/ \E m \in DOMAIN r : p[k] = Item(m, r[m], depth)
  /\ \A j \in DOMAIN q : j # i => \E k \in DOMAIN p : p[k] = q[j]
  /\ \A m \in DOMAIN r : \E k \in DOMAIN p : p[k] = Item(m, r[m], depth)
  /\ i = 1 => \A k \in DOMAIN p :
       IF k < Len(q) THEN p[k] = q[k + 1] ELSE \E m \in DOMAIN r : p[k] = Item(m, r[m], depth)

Merge(best, r) == [m \in DOMAIN best \union DOMAIN r |-> IF m \in DOMAIN r THEN r[m] ELSE best[m]]

LEMMA SkipPasses ==
  ASSUME NEW q \in Seq(Items), NEW i \in DOMAIN q, NEW r, DOMAIN r = {}, NEW depth
  PROVE  Passed(q, i, r, depth, RemoveAt(q, i))
<1> DEFINE p == RemoveAt(q, i)
<1>1. /\ p \in Seq(Items) /\ Len(p) = Len(q) - 1
      /\ \A k \in DOMAIN p : p[k] = q[IF k < i THEN k ELSE k + 1]
  BY RemoveAtKeeps
<1> HIDE DEF p
<1>2. Len(q) \in Nat /\ DOMAIN q = 1 .. Len(q) /\ DOMAIN p = 1 .. Len(q) - 1 /\ i \in 1 .. Len(q)
  BY <1>1
<1>3. \A k \in DOMAIN p : \E j \in DOMAIN q : j # i /\ p[k] = q[j]
  <2> TAKE k \in DOMAIN p
  <2> DEFINE j == IF k < i THEN k ELSE k + 1
  <2>1. j \in DOMAIN q /\ j # i
    BY <1>2
  <2> QED
    BY <1>1, <2>1
<1>4. \A j \in DOMAIN q : j # i => \E k \in DOMAIN p : p[k] = q[j]
  <2> TAKE j \in DOMAIN q
  <2> HAVE j # i
  <2> DEFINE k == IF j < i THEN j ELSE j - 1
  <2>1. k \in DOMAIN p /\ (IF k < i THEN k ELSE k + 1) = j
    BY <1>2
  <2> HIDE DEF k
  <2> QED
    BY <1>1, <2>1
<1>5. i = 1 => \A k \in DOMAIN p : k < Len(q) /\ p[k] = q[k + 1]
  BY <1>1, <1>2
<1> QED
  BY <1>1, <1>2, <1>3, <1>4, <1>5 DEF Passed, p

LEMMA ExpandPasses ==
  ASSUME NEW q \in Seq(Items), NEW i \in DOMAIN q, NEW r, NEW depth \in Nat,
         IsFiniteSet(DOMAIN r), DOMAIN r \subseteq NodeId, \A m \in DOMAIN r : r[m] \in Nat,
         NEW order \in SetToSeqs(DOMAIN r)
  PROVE  Passed(q, i, r, depth,
                RemoveAt(q, i) \o [k \in DOMAIN order |-> Item(order[k], r[order[k]], depth)])
<1> DEFINE s == RemoveAt(q, i)
           t == [k \in DOMAIN order |-> Item(order[k], r[order[k]], depth)]
           p == s \o t
<1>1. order \in Seq(DOMAIN r) /\ \A m \in DOMAIN r : \E k \in DOMAIN order : order[k] = m
  BY OrderHasAll
<1>2. t \in Seq(Items) /\ Len(t) = Len(order)
  <2>1. \A k \in 1 .. Len(order) : t[k] \in Items
    BY <1>1 DEF Item, Items
  <2>2. Len(order) \in Nat /\ DOMAIN order = 1 .. Len(order)
    BY <1>1
  <2>3. t \in [1 .. Len(order) -> Items]
    BY <2>1, <2>2
  <2> HIDE DEF t
  <2> QED
    BY <2>2, <2>3
<1>3. \A k \in DOMAIN t : \E m \in DOMAIN r : t[k] = Item(m, r[m], depth)
  BY <1>1
<1>4. \A m \in DOMAIN r : \E k \in DOMAIN t : t[k] = Item(m, r[m], depth)
  BY <1>1
<1> HIDE DEF t
<1>5. Passed(q, i, << >>, depth, s)
  BY SkipPasses
<1> HIDE DEF s
<1>6. s \in Seq(Items) /\ Len(s) \in Nat /\ Len(t) \in Nat /\ Len(s) >= Len(q) - 1
      /\ DOMAIN s = 1 .. Len(s) /\ DOMAIN t = 1 .. Len(t)
  BY <1>2, <1>5 DEF Passed
<1>7. /\ p \in Seq(Items) /\ Len(p) = Len(s) + Len(t)
      /\ \A k \in 1 .. Len(s) + Len(t) : p[k] = IF k <= Len(s) THEN s[k] ELSE t[k - Len(s)]
  BY <1>2, <1>6, ConcatProperties
<1> HIDE DEF p
<1>8. DOMAIN p = 1 .. Len(s) + Len(t)
  BY <1>7
<1>9. \A k \in DOMAIN p : \/ k \in DOMAIN s /\ p[k] = s[k]
                          \/ k > Len(s) /\ k - Len(s) \in DOMAIN t /\ p[k] = t[k - Len(s)]
  BY <1>6, <1>7, <1>8
<1>10. \A k \in DOMAIN s : k \in DOMAIN p /\ p[k] = s[k]
  BY <1>6, <1>7, <1>8
<1>11. \A k \in DOMAIN t : Len(s) + k \in DOMAIN p /\ p[Len(s) + k] = t[k]
  BY <1>6, <1>7, <1>8
<1>12. \A k \in DOMAIN p :
         \/ \E j \in DOMAIN q : j # i /\ p[k] = q[j]
         \/ \E m \in DOMAIN r : p[k] = Item(m, r[m], depth)
  BY <1>3, <1>5, <1>9 DEF Passed
<1>13. \A j \in DOMAIN q : j # i => \E k \in DOMAIN p : p[k] = q[j]
  BY <1>5, <1>10 DEF Passed
<1>14. \A m \in DOMAIN r : \E k \in DOMAIN p : p[k] = Item(m, r[m], depth)
  BY <1>4, <1>11
<1>15. ASSUME i = 1, NEW k \in DOMAIN p
       PROVE  IF k < Len(q) THEN p[k] = q[k + 1] ELSE \E m \in DOMAIN r : p[k] = Item(m, r[m], depth)
  <2>1. CASE k \in DOMAIN s
    <3>1. p[k] = s[k]
      BY <1>10, <2>1
    <3>2. k < Len(q) /\ s[k] = q[k + 1]
      BY <1>5, <1>15, <2>1 DEF Passed
    <3> QED
      BY <3>1, <3>2
  <2>2. CASE k \notin DOMAIN s
    <3>1. k - Len(s) \in DOMAIN t /\ p[k] = t[k - Len(s)]
      BY <1>9, <2>2
    <3>2. ~(k < Len(q))
      BY <1>6, <1>8, <2>2
    <3> QED
      BY <1>3, <3>1, <3>2
  <2> QED
    BY <2>1, <2>2
<1>16. Len(q) \in Nat
  OBVIOUS
<1>17. Len(p) >= Len(q) - 1
  BY <1>6, <1>7, <1>16
<1>18. Passed(q, i, r, depth, p)
  BY <1>7, <1>12, <1>13, <1>14, <1>15, <1>17 DEF Passed
<1> QED
  BY <1>18 DEF p, s, t

(***************************************************************************)
(* A search by hops: its queue q, the labels best, what it looks for, its  *)
(* depth D, the arcs A and what they reach, R.                             *)
(***************************************************************************)
QueueOK(q, best, D) ==
  /\ q \in Seq(Items) /\ best \in [DOMAIN best -> Nat]
  /\ \A i \in DOMAIN q : q[i].node \in DOMAIN best /\ q[i].depth <= D

Exactly(n, k, R) == n \in R[k] /\ \A j \in Nat : j < k => n \notin R[j]

\* A node that has left the queue is as deep as the search goes, or has all its
\* neighbours labelled.
Explored(n, best, to, D, A, R) ==
  \E k \in 0 .. D :
    /\ Exactly(n, k, R) /\ n \notin to
    /\ k < D => \A a \in A : a.from = n => a.to \in DOMAIN best

\* Items come in the order of their depths, which are those of their nodes.
HopsOK(q, best, to, D, A, R) ==
  /\ \A n \in DOMAIN best : n \in R[D] /\ best[n] = 0
  /\ \A i \in DOMAIN q :
       /\ Exactly(q[i].node, q[i].depth, R) /\ q[i].cost = 0
       /\ \A j \in DOMAIN q : i < j =>
            q[i].depth <= q[j].depth /\ q[j].depth <= q[i].depth + 1
  /\ \A n \in DOMAIN best :
       Explored(n, best, to, D, A, R) \/ \E i \in DOMAIN q : q[i].node = n
  /\ q # << >> => R[q[1].depth] \subseteq DOMAIN best

LEMMA HopsPass ==
  ASSUME NEW q, NEW best, NEW to, NEW D \in Nat, NEW A, NEW R, IsReach(R, A),
         QueueOK(q, best, D), HopsOK(q, best, to, D, A, R), q # << >>,
         q[1].node \notin to, NEW r, NEW p,
         IF q[1].depth < D
         THEN DOMAIN r = {a.to : a \in {b \in A : b.from = q[1].node}} \ DOMAIN best
         ELSE DOMAIN r = {},
         \A m \in DOMAIN r : r[m] = 0,
         Passed(q, 1, r, q[1].depth + 1, p)
  PROVE  QueueOK(p, Merge(best, r), D) /\ HopsOK(p, Merge(best, r), to, D, A, R)
<1> DEFINE x == q[1]
           d == x.depth
           b == Merge(best, r)
<1>1. /\ q \in Seq(Items) /\ Len(q) \in Nat /\ DOMAIN q = 1 .. Len(q) /\ 1 \in DOMAIN q
      /\ x \in Items /\ d \in Nat /\ d <= D /\ d + 1 \in Nat
  <2>1. q \in Seq(Items) /\ Len(q) \in Nat /\ DOMAIN q = 1 .. Len(q) /\ 1 \in DOMAIN q
    BY DEF QueueOK
  <2>2. x \in Items /\ d <= D
    BY <2>1 DEF QueueOK
  <2> QED
    BY <2>1, <2>2 DEF Items
<1>2. /\ p \in Seq(Items) /\ Len(p) \in Nat /\ DOMAIN p = 1 .. Len(p) /\ Len(p) >= Len(q) - 1
      /\ \A k \in DOMAIN p : p[k] \in Items
  BY DEF Passed
<1>3. /\ DOMAIN b = DOMAIN best \union DOMAIN r
      /\ \A n \in DOMAIN b : b[n] = 0
  BY DEF Merge, HopsOK
<1> HIDE DEF b
<1>4. DOMAIN r # {} => d < D
  OBVIOUS
<1>5. ASSUME NEW m \in DOMAIN r PROVE Exactly(m, d + 1, R)
  <2>1. PICK a \in A : a.from = x.node /\ a.to = m
    BY <1>4
  <2>2. m \notin DOMAIN best /\ R[d] \subseteq DOMAIN best /\ x.node \in R[d]
    BY <1>1, <1>4 DEF HopsOK, Exactly
  <2>3. m \in R[d + 1]
    BY <1>1, <2>1, <2>2 DEF IsReach
  <2>4. \A j \in Nat : j < d + 1 => R[j] \subseteq R[d]
    BY <1>1, ReachGrows
  <2> QED
    BY <2>2, <2>3, <2>4 DEF Exactly
<1>6. \A k \in DOMAIN p :
        \/ k < Len(q) /\ k + 1 \in DOMAIN q /\ p[k] = q[k + 1]
        \/ k >= Len(q) /\ \E m \in DOMAIN r : p[k] = Item(m, 0, d + 1)
  BY <1>1, <1>2 DEF Passed
<1>7. \A k \in DOMAIN p : p[k].depth \in Nat /\ d <= p[k].depth /\ p[k].depth <= d + 1
  <2> TAKE k \in DOMAIN p
  <2>1. CASE k < Len(q) /\ k + 1 \in DOMAIN q /\ p[k] = q[k + 1]
    <3>1. 1 < k + 1 /\ q[k + 1] \in Items
      BY <1>1, <1>2, <2>1
    <3>2. d <= q[k + 1].depth /\ q[k + 1].depth <= d + 1
      BY <1>1, <2>1, <3>1 DEF HopsOK
    <3> QED
      BY <2>1, <3>1, <3>2 DEF Items
  <2>2. CASE k >= Len(q) /\ \E m \in DOMAIN r : p[k] = Item(m, 0, d + 1)
    BY <1>1, <2>2 DEF Item
  <2> QED
    BY <1>6, <2>1, <2>2
<1>8. QueueOK(p, b, D)
  <2>1. b \in [DOMAIN b -> Nat]
    <3>1. b = [n \in DOMAIN b |-> b[n]]
      BY DEF Merge, b
    <3> QED
      BY <1>3, <3>1
  <2>2. ASSUME NEW k \in DOMAIN p PROVE p[k].node \in DOMAIN b /\ p[k].depth <= D
    <3>1. CASE k < Len(q) /\ k + 1 \in DOMAIN q /\ p[k] = q[k + 1]
      BY <1>3, <3>1 DEF QueueOK
    <3>2. CASE k >= Len(q) /\ \E m \in DOMAIN r : p[k] = Item(m, 0, d + 1)
      BY <1>1, <1>3, <1>4, <3>2 DEF Item
    <3> QED
      BY <1>6, <3>1, <3>2
  <2> QED
    BY <1>2, <2>1, <2>2 DEF QueueOK
<1>9. \A n \in DOMAIN b : n \in R[D] /\ b[n] = 0
  <2> TAKE n \in DOMAIN b
  <2>1. CASE n \in DOMAIN best
    BY <1>3, <2>1 DEF HopsOK
  <2>2. CASE n \in DOMAIN r
    <3>1. d + 1 <= D /\ n \in R[d + 1]
      BY <1>1, <1>4, <1>5, <2>2 DEF Exactly
    <3> QED
      BY <1>1, <1>3, <3>1, ReachGrows
  <2> QED
    BY <1>3, <2>1, <2>2
<1>10. ASSUME NEW i \in DOMAIN p
       PROVE  Exactly(p[i].node, p[i].depth, R) /\ p[i].cost = 0
  <2>1. CASE i < Len(q) /\ i + 1 \in DOMAIN q /\ p[i] = q[i + 1]
    BY <2>1 DEF HopsOK
  <2>2. CASE i >= Len(q) /\ \E m \in DOMAIN r : p[i] = Item(m, 0, d + 1)
    BY <1>5, <2>2 DEF Item
  <2> QED
    BY <1>6, <2>1, <2>2
<1>11. ASSUME NEW i \in DOMAIN p, NEW j \in DOMAIN p, i < j
       PROVE  p[i].depth <= p[j].depth /\ p[j].depth <= p[i].depth + 1
  <2>1. CASE j < Len(q)
    <3>1. i < Len(q) /\ i + 1 < j + 1
      BY <1>1, <1>2, <1>11, <2>1
    <3>2. p[i] = q[i + 1] /\ p[j] = q[j + 1] /\ i + 1 \in DOMAIN q /\ j + 1 \in DOMAIN q
      BY <1>1, <1>2, <1>6, <2>1, <3>1
    <3> QED
      BY <3>1, <3>2 DEF HopsOK
  <2>2. CASE ~(j < Len(q))
    <3>1. p[j].depth = d + 1
      BY <1>6, <2>2 DEF Item
    <3> QED
      BY <1>1, <1>7, <3>1
  <2> QED
    BY <2>1, <2>2
<1>12. Exactly(x.node, d, R)
  BY <1>1 DEF HopsOK
<1>13. ASSUME NEW n \in DOMAIN b
       PROVE  Explored(n, b, to, D, A, R) \/ \E k \in DOMAIN p : p[k].node = n
  <2>1. CASE n \in DOMAIN r
    BY <2>1 DEF Passed, Item
  <2>2. CASE n \in DOMAIN best /\ Explored(n, best, to, D, A, R)
    BY <1>3, <2>2 DEF Explored
  <2>3. CASE n = x.node
    <3>1. d < D => \A a \in A : a.from = n => a.to \in DOMAIN b
      BY <1>3, <2>3
    <3>2. d \in 0 .. D
      BY <1>1
    <3> QED
      BY <1>12, <2>3, <3>1, <3>2 DEF Explored
  <2>4. CASE \E i \in DOMAIN q : q[i].node = n
    BY <2>3, <2>4 DEF Passed
  <2> QED
    BY <1>3, <2>1, <2>2, <2>4 DEF HopsOK
<1>14. ASSUME p # << >> PROVE R[p[1].depth] \subseteq DOMAIN b
  <2>1. 1 \in DOMAIN p
    BY <1>2, <1>14
  <2>2. R[d] \subseteq DOMAIN b
    BY <1>1, <1>3 DEF HopsOK
  <2>3. CASE p[1].depth = d
    BY <2>2, <2>3
  <2>4. CASE p[1].depth = d + 1
    <3>1. d + 1 <= D
      BY <1>8, <2>1, <2>4 DEF QueueOK
    <3>2. \A k \in DOMAIN p : ~(p[k].depth <= d)
      <4> TAKE k \in DOMAIN p
      <4>1. k = 1 \/ 1 < k
        BY <1>2
      <4> QED
        BY <1>1, <1>7, <1>11, <2>1, <2>4, <4>1
    <3>3. ASSUME NEW n \in R[d] PROVE \A a \in A : a.from = n => a.to \in DOMAIN b
      <4>1. \A k \in DOMAIN p : p[k].node # n
        BY <1>1, <1>7, <1>10, <3>2 DEF Exactly
      <4>2. Explored(n, b, to, D, A, R)
        BY <1>13, <2>2, <4>1
      <4>3. PICK k \in 0 .. D : /\ Exactly(n, k, R)
                                /\ k < D => \A a \in A : a.from = n => a.to \in DOMAIN b
        BY <4>2 DEF Explored
      <4>4. ~(d < k)
        BY <1>1, <4>3 DEF Exactly
      <4> QED
        BY <1>1, <3>1, <4>3, <4>4
    <3>4. ASSUME NEW n \in R[d + 1] PROVE n \in DOMAIN b
      BY <1>1, <2>2, <3>3 DEF IsReach
    <3> QED
      BY <2>4, <3>4
  <2> QED
    BY <1>1, <1>7, <2>1, <2>3, <2>4
<1>15. HopsOK(p, b, to, D, A, R)
  BY <1>9, <1>10, <1>11, <1>13, <1>14 DEF HopsOK
<1> QED
  BY <1>8, <1>15 DEF b

\* With an empty queue, the search has reached all there is, and not what it looks for.
LEMMA HopsDone ==
  ASSUME NEW best, NEW to, NEW D \in Nat, NEW A, NEW R, IsReach(R, A),
         HopsOK(<< >>, best, to, D, A, R), R[0] \subseteq DOMAIN best
  PROVE  R[D] = DOMAIN best /\ to \cap R[D] = {}
<1>1. \A n \in DOMAIN best : Explored(n, best, to, D, A, R) /\ n \in R[D]
  BY DEF HopsOK
<1> DEFINE T == {k \in Nat : k <= D => R[k] \subseteq DOMAIN best}
<1>2. 0 \in T
  OBVIOUS
<1>3. ASSUME NEW k \in Nat, k \in T PROVE k + 1 \in T
  <2> SUFFICES ASSUME k + 1 <= D, NEW n \in R[k + 1] PROVE n \in DOMAIN best
    OBVIOUS
  <2>1. R[k] \subseteq DOMAIN best
    BY <1>3
  <2>2. ASSUME NEW a \in A, a.from \in R[k] PROVE a.to \in DOMAIN best
    <3>1. PICK j \in 0 .. D : /\ Exactly(a.from, j, R)
                              /\ j < D => \A c \in A : c.from = a.from => c.to \in DOMAIN best
      BY <1>1, <2>1, <2>2 DEF Explored
    <3>2. ~(k < j)
      BY <2>2, <3>1 DEF Exactly
    <3> QED
      BY <3>1, <3>2
  <2>3. n \in R[k] \/ \E a \in A : a.from \in R[k] /\ a.to = n
    BY DEF IsReach
  <2> QED
    BY <2>1, <2>2, <2>3
<1> HIDE DEF T
<1>4. Nat \subseteq T
  BY <1>2, <1>3, NumberInduction
<1>5. R[D] \subseteq DOMAIN best
  BY <1>4 DEF T
<1> QED
  BY <1>1, <1>5 DEF Explored

LEMMA QueueTypes ==
  ASSUME NEW q, NEW best, NEW D, QueueOK(q, best, D)
  PROVE  /\ \A n \in DOMAIN best : best[n] \in Nat
         /\ \A i \in DOMAIN q :
              /\ q[i] \in Items /\ q[i].cost \in Nat /\ q[i].depth \in Nat
              /\ q[i].depth <= D /\ q[i].node \in DOMAIN best
<1>1. \A i \in DOMAIN q : q[i] \in Items
  BY DEF QueueOK
<1> QED
  BY <1>1 DEF QueueOK, Items

(***************************************************************************)
(* A search by weight: its queue q, the labels best, what it looks for, its*)
(* depth D, the arcs A between the nodes N and the least costs, C.         *)
(***************************************************************************)
\* P are the nodes on the way to an item; labels only fall, so that they cost no more.
Way(x, P, best) ==
  /\ x.node \notin P /\ Cardinality(P) = x.depth
  /\ \A n \in P : best[n] <= x.cost

\* A node that has left the queue has no neighbour that costs more than by way of it.
Relaxed(n, best, to, A) ==
  /\ n \notin to
  /\ \A a \in A : a.from = n => a.to \in DOMAIN best /\ best[a.to] <= best[n] + a.cost

\* An item costs what some walk does.  With a depth that admits every path, none is cut
\* off: its nodes would be all there are.
WeightOK(q, best, to, D, A, C, N) ==
  /\ DOMAIN best \subseteq N
  /\ \A i \in DOMAIN q :
       /\ best[q[i].node] <= q[i].cost
       /\ \E y \in C[q[i].depth] : y.node = q[i].node /\ y.cost <= q[i].cost
       /\ \E P \in SUBSET DOMAIN best : Way(q[i], P, best)
  /\ D >= Cardinality(N) - 1 =>
       \A n \in DOMAIN best :
         \/ Relaxed(n, best, to, A)
         \/ \E i \in DOMAIN q : q[i].node = n /\ q[i].cost = best[n]

\* What a pass queues: neighbours that are new, or cost less by way of x.
Improved(x, r, best, A) ==
  /\ \A m \in DOMAIN r :
       /\ m \in DOMAIN best => r[m] < best[m]
       /\ \E a \in A : a.from = x.node /\ a.to = m /\ r[m] = x.cost + a.cost
  /\ \A a \in A : a.from = x.node =>
       IF a.to \in DOMAIN r THEN r[a.to] <= x.cost + a.cost
       ELSE a.to \in DOMAIN best /\ best[a.to] <= x.cost + a.cost

\* A way that is as long as there are other nodes passes all of them.
LEMMA LongWay ==
  ASSUME NEW N, IsFiniteSet(N), NEW P \in SUBSET N, NEW n \in N, n \notin P,
         Cardinality(P) >= Cardinality(N) - 1
  PROVE  P = N \ {n}
<1> DEFINE M == N \ {n}
<1>1. IsFiniteSet(M) /\ Cardinality(M) = Cardinality(N) - 1 /\ Cardinality(N) \in Nat
  BY FS_RemoveElement, FS_CardinalityType
<1>2. P \in SUBSET M
  OBVIOUS
<1> HIDE DEF M
<1>3. /\ IsFiniteSet(P) /\ Cardinality(P) <= Cardinality(M)
      /\ Cardinality(P) = Cardinality(M) => P = M
  BY <1>1, <1>2, FS_Subset
<1>4. Cardinality(P) \in Nat
  BY <1>3, FS_CardinalityType
<1> QED
  BY <1>1, <1>3, <1>4 DEF M

LEMMA WeightPass ==
  ASSUME NEW q, NEW best, NEW to, NEW D \in Nat, NEW N, IsFiniteSet(N),
         NEW A \in SUBSET [from : N, to : N, cost : Nat], NEW C, IsLeast(C, A),
         QueueOK(q, best, D), WeightOK(q, best, to, D, A, C, N), NEW i \in DOMAIN q,
         q[i].node \in to => q[i].cost > best[q[i].node],
         NEW r, NEW p,
         IF q[i].cost > best[q[i].node] \/ q[i].depth >= D THEN DOMAIN r = {}
         ELSE Improved(q[i], r, best, A),
         Passed(q, i, r, q[i].depth + 1, p)
  PROVE  QueueOK(p, Merge(best, r), D) /\ WeightOK(p, Merge(best, r), to, D, A, C, N)
<1> DEFINE x == q[i]
           d == x.depth
           b == Merge(best, r)
<1>1. /\ x \in Items /\ d \in Nat /\ x.cost \in Nat /\ d <= D
      /\ x.node \in DOMAIN best /\ best[x.node] \in Nat /\ best[x.node] <= x.cost
  BY QueueTypes DEF WeightOK
<1>2. /\ DOMAIN r # {} => /\ d < D /\ x.cost = best[x.node] /\ Improved(x, r, best, A)
  BY <1>1
<1>3. \A m \in DOMAIN r : r[m] \in Nat /\ x.cost <= r[m]
  BY <1>1, <1>2 DEF Improved
<1>4. /\ b \in [DOMAIN b -> Nat] /\ DOMAIN b = DOMAIN best \union DOMAIN r
      /\ \A m \in DOMAIN r : b[m] = r[m]
      /\ \A n \in DOMAIN best : b[n] \in Nat /\ best[n] \in Nat /\ b[n] <= best[n]
      /\ \A n \in DOMAIN best : n \notin DOMAIN r => b[n] = best[n]
  <2>1. \A n \in DOMAIN best : best[n] \in Nat
    BY DEF QueueOK
  <2>2. \A m \in DOMAIN r : m \in DOMAIN best => r[m] <= best[m]
    BY <1>2, <1>3, <2>1 DEF Improved
  <2> QED
    BY <1>3, <2>1, <2>2 DEF Merge
<1> HIDE DEF b
<1>5. /\ \A k \in DOMAIN p :
           \/ \E j \in DOMAIN q : j # i /\ p[k] = q[j]
           \/ \E m \in DOMAIN r : p[k] = Item(m, r[m], d + 1)
      /\ \A j \in DOMAIN q : j # i => \E k \in DOMAIN p : p[k] = q[j]
      /\ \A m \in DOMAIN r : \E k \in DOMAIN p : p[k] = Item(m, r[m], d + 1)
      /\ p \in Seq(Items)
  BY DEF Passed
<1>6. QueueOK(p, b, D)
  <2>1. ASSUME NEW k \in DOMAIN p PROVE p[k].node \in DOMAIN b /\ p[k].depth <= D
    <3>1. CASE \E j \in DOMAIN q : j # i /\ p[k] = q[j]
      BY <1>4, <3>1 DEF QueueOK
    <3>2. CASE \E m \in DOMAIN r : p[k] = Item(m, r[m], d + 1)
      BY <1>1, <1>2, <1>4, <3>2 DEF Item
    <3> QED
      BY <1>5, <3>1, <3>2
  <2> QED
    BY <1>4, <1>5, <2>1 DEF QueueOK
<1>7. DOMAIN b \subseteq N
  <2>1. \A m \in DOMAIN r : m \in N
    BY <1>2 DEF Improved
  <2> QED
    BY <1>4, <2>1 DEF WeightOK
<1>8. ASSUME NEW k \in DOMAIN p
      PROVE  /\ b[p[k].node] <= p[k].cost
             /\ \E y \in C[p[k].depth] : y.node = p[k].node /\ y.cost <= p[k].cost
             /\ \E P \in SUBSET DOMAIN b : Way(p[k], P, b)
  <2>1. CASE \E j \in DOMAIN q : j # i /\ p[k] = q[j]
    <3>1. PICK j \in DOMAIN q : p[k] = q[j]
      BY <2>1
    <3>2. q[j].cost \in Nat /\ q[j].node \in DOMAIN best
      BY QueueTypes
    <3>3. best[q[j].node] <= q[j].cost
      BY DEF WeightOK
    <3>4. b[q[j].node] <= q[j].cost
      BY <1>4, <3>2, <3>3
    <3>5. PICK P \in SUBSET DOMAIN best : Way(q[j], P, best)
      BY DEF WeightOK
    <3>6. \A n \in P : b[n] <= q[j].cost
      <4> TAKE n \in P
      <4>1. n \in DOMAIN best /\ best[n] <= q[j].cost
        BY <3>5 DEF Way
      <4> QED
        BY <1>4, <3>2, <4>1
    <3>7. P \in SUBSET DOMAIN b /\ Way(q[j], P, b)
      BY <1>4, <3>5, <3>6 DEF Way
    <3> QED
      BY <3>1, <3>4, <3>7 DEF WeightOK
  <2>2. CASE \E m \in DOMAIN r : p[k] = Item(m, r[m], d + 1)
    <3>1. PICK m \in DOMAIN r : p[k] = Item(m, r[m], d + 1)
      BY <2>2
    <3>2. p[k].node = m /\ p[k].cost = r[m] /\ p[k].depth = d + 1
      BY <3>1 DEF Item
    <3>3. PICK a \in A : a.from = x.node /\ a.to = m /\ r[m] = x.cost + a.cost
      BY <1>2 DEF Improved
    <3>4. a.cost \in Nat
      OBVIOUS
    <3>5. \E z \in C[d + 1] : z.node = m /\ z.cost <= r[m]
      <4>1. PICK y \in C[d] : y.node = x.node /\ y.cost <= x.cost
        BY DEF WeightOK
      <4>2. PICK z \in C[d + 1] : z.node = a.to /\ z.cost <= y.cost + a.cost
        <5>1. \A u \in C[d], e \in A : e.from = u.node =>
                \E z \in C[d + 1] : z.node = e.to /\ z.cost <= u.cost + e.cost
          BY <1>1, Zenon DEF IsLeast
        <5>2. a.from = y.node
          BY <3>3, <4>1
        <5> QED
          BY <5>1, <5>2
      <4>3. y.cost \in Nat /\ z.cost \in Nat
        BY <1>1 DEF IsLeast, Label
      <4>4. z.cost <= x.cost + a.cost
        BY <1>1, <3>4, <4>1, <4>2, <4>3
      <4> QED
        BY <3>3, <4>2, <4>4
    <3>6. PICK P \in SUBSET DOMAIN best : Way(x, P, best)
      BY DEF WeightOK
    <3> DEFINE Q == P \union {x.node}
    <3>7. IsFiniteSet(P)
      BY FS_Subset DEF WeightOK
    <3>8. Cardinality(Q) = d + 1
      BY <3>6, <3>7, FS_AddElement DEF Way
    <3>9. \A n \in Q : n \in DOMAIN best /\ best[n] <= x.cost
      BY <1>1, <3>6 DEF Way
    <3>10. m \notin Q
      <4> SUFFICES ASSUME m \in Q PROVE FALSE
        OBVIOUS
      <4>1. r[m] < best[m]
        BY <1>2, <3>9 DEF Improved
      <4> QED
        BY <1>1, <1>3, <1>4, <3>9, <4>1
    <3>11. \A n \in Q : b[n] <= r[m]
      BY <1>1, <1>3, <1>4, <3>9
    <3>12. Q \in SUBSET DOMAIN b
      BY <1>1, <1>4
    <3> HIDE DEF Q
    <3>13. Way(p[k], Q, b)
      BY <3>2, <3>8, <3>10, <3>11 DEF Way
    <3>14. b[m] <= r[m]
      BY <1>3, <1>4
    <3> QED
      BY <3>2, <3>5, <3>12, <3>13, <3>14
  <2> QED
    BY <1>5, <2>1, <2>2
<1>9. ASSUME D >= Cardinality(N) - 1, NEW n \in DOMAIN b
      PROVE  \/ Relaxed(n, b, to, A)
             \/ \E k \in DOMAIN p : p[k].node = n /\ p[k].cost = b[n]
  <2>1. CASE n \in DOMAIN r
    BY <1>4, <1>5, <2>1 DEF Item
  <2>2. CASE n \notin DOMAIN r /\ Relaxed(n, best, to, A)
    <3>1. n \in DOMAIN best /\ b[n] = best[n]
      BY <1>4, <2>2
    <3>2. ASSUME NEW a \in A, a.from = n
          PROVE  a.to \in DOMAIN b /\ b[a.to] <= b[n] + a.cost
      <4>1. a.to \in DOMAIN best /\ best[a.to] <= best[n] + a.cost
        BY <2>2, <3>2 DEF Relaxed
      <4>2. a.cost \in Nat
        OBVIOUS
      <4> QED
        BY <1>4, <3>1, <4>1, <4>2
    <3> QED
      BY <2>2, <3>2 DEF Relaxed
  <2>3. CASE n \notin DOMAIN r /\ \E j \in DOMAIN q : j # i /\ q[j].node = n /\ q[j].cost = best[n]
    BY <1>4, <1>5, <2>3
  <2>4. CASE n \notin DOMAIN r /\ x.node = n /\ x.cost = best[n]
    <3>1. n \in DOMAIN best /\ b[n] = best[n] /\ n \notin to /\ ~(x.cost > best[n])
      BY <1>1, <1>4, <2>4
    <3>2. ASSUME NEW a \in A, a.from = n
          PROVE  a.to \in DOMAIN b /\ b[a.to] <= b[n] + a.cost
      <4>1. a.cost \in Nat /\ a.to \in N
        OBVIOUS
      <4>2. CASE d >= D
        <5>1. PICK P \in SUBSET DOMAIN best : Way(x, P, best)
          BY DEF WeightOK
        <5>2. P \in SUBSET N /\ n \in N
          BY <3>1 DEF WeightOK
        <5>3. n \notin P /\ Cardinality(P) = d
          BY <2>4, <5>1 DEF Way
        <5>4. Cardinality(N) \in Nat
          BY FS_CardinalityType
        <5>5. Cardinality(P) >= Cardinality(N) - 1
          BY <1>1, <1>9, <4>2, <5>3, <5>4
        <5>6. P = N \ {n}
          BY <5>2, <5>3, <5>5, LongWay
        <5>7. CASE a.to = n
          BY <1>4, <3>1, <4>1, <5>7
        <5>8. CASE a.to # n
          <6>1. a.to \in DOMAIN best /\ best[a.to] <= best[n]
            BY <2>4, <4>1, <5>1, <5>6, <5>8 DEF Way
          <6> QED
            BY <1>4, <3>1, <4>1, <6>1
        <5> QED
          BY <5>7, <5>8
      <4>3. CASE ~(d >= D)
        <5>1. Improved(x, r, best, A)
          BY <2>4, <3>1, <4>3
        <5>2. IF a.to \in DOMAIN r THEN r[a.to] <= x.cost + a.cost
              ELSE a.to \in DOMAIN best /\ best[a.to] <= x.cost + a.cost
          BY <2>4, <3>2, <5>1 DEF Improved
        <5> QED
          BY <1>4, <2>4, <3>1, <5>2
      <4> QED
        BY <4>2, <4>3
    <3> QED
      BY <3>1, <3>2 DEF Relaxed
  <2>5. n \in DOMAIN r \/ n \in DOMAIN best
    BY <1>4
  <2>6. n \in DOMAIN best => \/ Relaxed(n, best, to, A)
                             \/ \E j \in DOMAIN q : q[j].node = n /\ q[j].cost = best[n]
    BY <1>9 DEF WeightOK
  <2> QED
    BY <2>1, <2>2, <2>3, <2>4, <2>5, <2>6
<1>10. WeightOK(p, b, to, D, A, C, N)
  BY <1>7, <1>8, <1>9 DEF WeightOK
<1> QED
  BY <1>6, <1>10 DEF b

\* What costs less than all of the queue has its least cost for a label.
LEMMA LabelsAreLow ==
  ASSUME NEW q, NEW best, NEW to, NEW D \in Nat, NEW N,
         NEW A \in SUBSET [from : N, to : N, cost : Nat], NEW C, IsLeast(C, A),
         QueueOK(q, best, D), WeightOK(q, best, to, D, A, C, N), D >= Cardinality(N) - 1,
         \A y \in C[0] : y.node \in DOMAIN best /\ best[y.node] <= y.cost,
         NEW z \in C[D]
  PROVE  \/ z.node \in DOMAIN best /\ best[z.node] <= z.cost
         \/ \E j \in DOMAIN q : q[j].cost <= z.cost
<1> DEFINE Low(y) == \/ y.node \in DOMAIN best /\ best[y.node] <= y.cost
                     \/ \E j \in DOMAIN q : q[j].cost <= y.cost
           T == {k \in Nat : \A y \in C[k] : Low(y)}
<1>1. 0 \in T
  OBVIOUS
<1>2. ASSUME NEW k \in Nat, k \in T PROVE k + 1 \in T
  <2> SUFFICES ASSUME NEW y \in C[k + 1] PROVE Low(y)
    OBVIOUS
  <2>1. \A u \in C[k] : Low(u)
    BY <1>2
  <2>2. y \in C[k] \/ \E u \in C[k], a \in A : /\ a.from = u.node /\ y.node = a.to
                                               /\ y.cost = u.cost + a.cost
    BY DEF IsLeast
  <2>3. ASSUME NEW u \in C[k], NEW a \in A, a.from = u.node, y.node = a.to, y.cost = u.cost + a.cost
        PROVE  Low(y)
    <3>1. u.cost \in Nat /\ a.cost \in Nat
      BY DEF IsLeast, Label
    <3>2. \A j \in DOMAIN q : q[j].cost \in Nat
      BY QueueTypes
    <3>3. \A n \in DOMAIN best : best[n] \in Nat
      BY DEF QueueOK
    <3>4. CASE \E j \in DOMAIN q : q[j].cost <= u.cost
      BY <2>3, <3>1, <3>2, <3>4
    <3>5. CASE u.node \in DOMAIN best /\ best[u.node] <= u.cost
      <4>1. CASE Relaxed(u.node, best, to, A)
        <5>1. a.to \in DOMAIN best /\ best[a.to] <= best[u.node] + a.cost
          BY <2>3, <4>1 DEF Relaxed
        <5> QED
          BY <2>3, <3>1, <3>3, <3>5, <5>1
      <4>2. CASE \E j \in DOMAIN q : q[j].node = u.node /\ q[j].cost = best[u.node]
        BY <2>3, <3>1, <3>2, <3>5, <4>2
      <4> QED
        BY <3>5, <4>1, <4>2 DEF WeightOK
    <3> QED
      BY <2>1, <3>4, <3>5
  <2> QED
    BY <2>1, <2>2, <2>3
<1> HIDE DEF T
<1>3. Nat \subseteq T
  BY <1>1, <1>2, NumberInduction
<1> QED
  BY <1>3 DEF T

\* The target that comes first in the order of costs has its least cost.
LEMMA WeightFound ==
  ASSUME NEW q, NEW best, NEW D \in Nat, NEW N,
         NEW A \in SUBSET [from : N, to : N, cost : Nat], NEW C, IsLeast(C, A),
         NEW i \in DOMAIN q,
         QueueOK(q, best, D), WeightOK(q, best, {q[i].node}, D, A, C, N), D >= Cardinality(N) - 1,
         \A y \in C[0] : y.node \in DOMAIN best /\ best[y.node] <= y.cost,
         q[i].cost <= best[q[i].node],
         \A j \in DOMAIN q : q[i].cost <= q[j].cost
  PROVE  {[node |-> q[i].node, cost |-> q[i].cost]} = {c \in C[D] : c.node \in {q[i].node}}
<1> DEFINE x == q[i]
<1>1. x \in Items /\ x.cost \in Nat /\ x.depth \in Nat /\ x.depth <= D
  BY QueueTypes
<1>2. PICK y \in C[x.depth] : y.node = x.node /\ y.cost <= x.cost
  BY DEF WeightOK
<1>3. PICK z \in C[D] : z.node = y.node /\ z.cost <= y.cost
  BY <1>1, LeastShrinks
<1>4. y \in Label /\ z \in Label
  BY <1>1 DEF IsLeast
<1>5. x.cost <= z.cost
  <2>1. best[x.node] \in Nat /\ \A j \in DOMAIN q : q[j].cost \in Nat
    BY QueueTypes
  <2>2. \/ z.node \in DOMAIN best /\ best[z.node] <= z.cost
        \/ \E j \in DOMAIN q : q[j].cost <= z.cost
    BY LabelsAreLow
  <2> QED
    BY <1>1, <1>2, <1>3, <1>4, <2>1, <2>2 DEF Label
<1>6. z = [node |-> x.node, cost |-> x.cost]
  BY <1>1, <1>2, <1>3, <1>4, <1>5 DEF Label
<1>7. \A c \in C[D] : c.node = x.node => c = z
  BY <1>2, <1>3 DEF IsLeast
<1> QED
  BY <1>2, <1>3, <1>6, <1>7

\* With an empty queue, there is no walk to the target.
LEMMA WeightNone ==
  ASSUME NEW best, NEW to, NEW D \in Nat, NEW N,
         NEW A \in SUBSET [from : N, to : N, cost : Nat], NEW C, IsLeast(C, A),
         QueueOK(<< >>, best, D), WeightOK(<< >>, best, to, D, A, C, N), D >= Cardinality(N) - 1,
         \A y \in C[0] : y.node \in DOMAIN best /\ best[y.node] <= y.cost
  PROVE  {c \in C[D] : c.node \in to} = {}
<1>1. \A c \in C[D] : c.node \in DOMAIN best
  <2>1. QueueOK(<< >>, best, D) /\ DOMAIN << >> = {}
    OBVIOUS
  <2> QED
    BY <2>1, LabelsAreLow
<1>2. \A n \in DOMAIN best : n \notin to
  BY DEF WeightOK, Relaxed
<1> QED
  BY <1>1, <1>2

(***************************************************************************)
(* Between two steps of a search that nothing disturbs.                    *)
(***************************************************************************)
Asked(kind, direction, depth, from, to) ==
  /\ kind \in {"hops", "weight", "expand"} /\ direction \in {"out", "in", "both"}
  /\ depth \in Nat /\ from \subseteq NodeId
  /\ kind = "expand" => to = {}
  /\ kind # "expand" => \E s, t \in nodes : from = {s} /\ to = {t}

SearchShape ==
  search = [step |-> search.step, kind |-> search.kind, direction |-> search.direction,
            depth |-> search.depth, from |-> search.from, to |-> search.to,
            queue |-> search.queue, best |-> search.best, seen |-> search.seen,
            path |-> search.path]

\* What has a label can be walked to, or was asked for.
LabelsInv ==
  /\ DOMAIN search.best \subseteq nodes \union search.from
  /\ \A n \in search.from : n \in DOMAIN search.best /\ search.best[n] = 0
  /\ search.kind = "expand" => search.seen = DOMAIN search.best \intersect nodes

RunInv ==
  /\ search.step = "run" /\ SearchShape /\ LabelsInv
  /\ Asked(search.kind, search.direction, search.depth, search.from, search.to)
  /\ QueueOK(search.queue, search.best, search.depth)
  /\ search.kind = "weight" =>
       WeightOK(search.queue, search.best, search.to, search.depth, Arcs(search.direction),
                Costs(search.from, search.direction), nodes)
  /\ search.kind # "weight" =>
       HopsOK(search.queue, search.best, search.to, search.depth, Arcs(search.direction),
              Within(search.from, search.direction))

SearchInv == (Calm /\ search.step = "run" => RunInv) /\ SearchesAreRight

LEMMA GraphStays ==
  ASSUME UNCHANGED graph, search'.from = search.from, search'.direction = search.direction
  PROVE  /\ nodes' = nodes
         /\ Arcs(search.direction)' = Arcs(search.direction)
         /\ Within(search.from, search.direction)' = Within(search.from, search.direction)
         /\ Costs(search.from, search.direction)' = Costs(search.from, search.direction)
<1>1. nodes' = nodes
  BY DEF graph
<1>2. Arcs(search.direction)' = Arcs(search.direction)
  BY DEF Arcs, graph, Leads
<1>3. Within(search.from, search.direction)' = Within(search.from, search.direction)
  BY DEF Within, Around, Arcs, graph, Leads
<1>4. Costs(search.from, search.direction)' = Costs(search.from, search.direction)
  BY DEF Costs, Cheapest, Onward, Arcs, graph, Leads
<1> QED
  BY <1>1, <1>2, <1>3, <1>4

\* A pass leaves what was asked.
LEMMA PassRuns ==
  ASSUME RunInv, UNCHANGED graph, NEW q, NEW best, NEW seen,
         search' = [search EXCEPT !.queue = q, !.best = best, !.seen = seen],
         DOMAIN best \subseteq nodes \union search.from,
         \A n \in search.from : n \in DOMAIN best /\ best[n] = 0,
         search.kind = "expand" => seen = DOMAIN best \intersect nodes,
         QueueOK(q, best, search.depth),
         search.kind = "weight" =>
           WeightOK(q, best, search.to, search.depth, Arcs(search.direction),
                    Costs(search.from, search.direction), nodes),
         search.kind # "weight" =>
           HopsOK(q, best, search.to, search.depth, Arcs(search.direction),
                  Within(search.from, search.direction))
  PROVE  RunInv'
<1>1. search' = [step |-> search.step, kind |-> search.kind, direction |-> search.direction,
                 depth |-> search.depth, from |-> search.from, to |-> search.to,
                 queue |-> q, best |-> best, seen |-> seen, path |-> search.path]
  BY DEF RunInv, SearchShape
<1>2. /\ search'.step = search.step /\ search'.kind = search.kind
      /\ search'.direction = search.direction
      /\ search'.depth = search.depth /\ search'.from = search.from /\ search'.to = search.to
      /\ search'.queue = q /\ search'.best = best /\ search'.seen = seen
  BY <1>1
<1>3. /\ nodes' = nodes
      /\ Arcs(search.direction)' = Arcs(search.direction)
      /\ Within(search.from, search.direction)' = Within(search.from, search.direction)
      /\ Costs(search.from, search.direction)' = Costs(search.from, search.direction)
  BY <1>2, GraphStays
<1>4. SearchShape'
  BY <1>1 DEF SearchShape
<1>5. LabelsInv'
  BY <1>2, <1>3 DEF LabelsInv
<1>6. Asked(search.kind, search.direction, search.depth, search.from, search.to)'
  BY <1>2, <1>3 DEF Asked, RunInv
<1>7. QueueOK(search.queue, search.best, search.depth)'
  BY <1>2 DEF QueueOK
<1>8. (search.kind = "weight" =>
         WeightOK(search.queue, search.best, search.to, search.depth, Arcs(search.direction),
                  Costs(search.from, search.direction), nodes))'
  BY <1>2, <1>3
<1>9. (search.kind # "weight" =>
         HopsOK(search.queue, search.best, search.to, search.depth, Arcs(search.direction),
                Within(search.from, search.direction)))'
  BY <1>2, <1>3
<1> QED
  BY <1>2, <1>4, <1>5, <1>6, <1>7, <1>8, <1>9 DEF RunInv

LEMMA MinIsLeast ==
  ASSUME NEW T \in SUBSET Nat, T # {}
  PROVE  Min(T) \in T /\ \A k \in T : Min(T) <= k
BY LeastNumber DEF Min

\* The arcs are finite in cost and between nodes.
LEMMA ArcsTyped ==
  ASSUME SearchTypeInv, NEW d
  PROVE  Arcs(d) \in SUBSET [from : nodes, to : nodes, cost : Nat]
BY SearchAssumption DEF Arcs

\* What a pass queues, by hops and by weight.
LEMMA ReachedByHops ==
  ASSUME SearchTypeInv, IndexesAgree, NEW x, x.node \in nodes, search.kind # "weight",
         search.direction \in {"out", "in", "both"}
  PROVE  /\ DOMAIN Reached(x) = {a.to : a \in {b \in Arcs(search.direction) : b.from = x.node}}
                                  \ DOMAIN search.best
         /\ \A m \in DOMAIN Reached(x) : Reached(x)[m] = 0
<1> DEFINE d     == search.direction
           found == Neighbors(x.node, d)
           new   == {f.node : f \in found} \ DOMAIN search.best
<1>1. Reached(x) = [m \in new |-> 0]
  BY DEF Reached
<1>2. {f.node : f \in found} = {a.to : a \in {b \in Arcs(d) : b.from = x.node}}
  <2>1. \A f \in found : \E a \in Arcs(d) : a.from = x.node /\ f = [node |-> a.to, cost |-> a.cost]
    BY NeighborsAreArcs
  <2>2. \A a \in Arcs(d) : a.from = x.node => [node |-> a.to, cost |-> a.cost] \in found
    BY NeighborsAreArcs
  <2> HIDE DEF found
  <2>3. \A f \in found : \E a \in Arcs(d) : a.from = x.node /\ f.node = a.to
    BY <2>1
  <2>4. \A a \in Arcs(d) : a.from = x.node => \E f \in found : f.node = a.to
    BY <2>2
  <2> QED
    BY <2>3, <2>4
<1> QED
  BY <1>1, <1>2

LEMMA ReachedByWeight ==
  ASSUME SearchTypeInv, IndexesAgree, NEW x, x.node \in nodes, x.cost \in Nat,
         search.kind = "weight", search.direction \in {"out", "in", "both"},
         \A n \in DOMAIN search.best : search.best[n] \in Nat
  PROVE  /\ Improved(x, Reached(x), search.best, Arcs(search.direction))
         /\ \A m \in DOMAIN Reached(x) : Reached(x)[m] \in Nat
<1> DEFINE d       == search.direction
           best    == search.best
           A       == Arcs(d)
           found   == Neighbors(x.node, d)
           costs(m) == {f.cost : f \in {g \in found : g.node = m}}
           cost(m) == x.cost + Min(costs(m))
           ends    == {f.node : f \in found}
           new     == ends \ DOMAIN best
           better  == {m \in ends \ new : cost(m) < best[m]}
<1>1. Reached(x) = [m \in new \union better |-> cost(m)]
  BY DEF Reached
<1>2. /\ \A f \in found : \E a \in A : a.from = x.node /\ f = [node |-> a.to, cost |-> a.cost]
      /\ \A a \in A : a.from = x.node => [node |-> a.to, cost |-> a.cost] \in found
  BY NeighborsAreArcs
<1>3. A \in SUBSET [from : nodes, to : nodes, cost : Nat]
  BY ArcsTyped
<1> HIDE DEF found, A
<1>4. \A f \in found : \E a \in A : a.from = x.node /\ f.node = a.to /\ f.cost = a.cost /\ a.cost \in Nat
  BY <1>2, <1>3
<1>5. ASSUME NEW a \in A, a.from = x.node PROVE a.to \in ends /\ a.cost \in costs(a.to)
  <2> DEFINE f == [node |-> a.to, cost |-> a.cost]
  <2>1. f \in found
    BY <1>2, <1>5
  <2>2. f.node = a.to /\ f.cost = a.cost
    OBVIOUS
  <2> QED
    BY <2>1, <2>2
<1> HIDE DEF cost
<1>6. ASSUME NEW m \in ends
      PROVE  /\ cost(m) \in Nat
             /\ \E a \in A : a.from = x.node /\ a.to = m /\ cost(m) = x.cost + a.cost
             /\ \A a \in A : a.from = x.node /\ a.to = m => cost(m) <= x.cost + a.cost
  <2> DEFINE cs == costs(m)
             least == Min(cs)
  <2>1. cs \in SUBSET Nat /\ cs # {}
    BY <1>4
  <2>2. \A k \in cs : \E a \in A : a.from = x.node /\ a.to = m /\ a.cost = k
    BY <1>4
  <2>3. \A a \in A : a.from = x.node /\ a.to = m => a.cost \in cs
    BY <1>5
  <2> HIDE DEF cs
  <2>4. least \in cs /\ \A k \in cs : least <= k
    BY <2>1, MinIsLeast
  <2> HIDE DEF least
  <2>5. cost(m) = x.cost + least
    BY DEF least, cs, cost
  <2>6. least \in Nat
    BY <2>1, <2>4
  <2>7. \A a \in A : a.from = x.node /\ a.to = m => x.cost + least <= x.cost + a.cost
    BY <1>3, <2>3, <2>4, <2>6
  <2> QED
    BY <2>2, <2>4, <2>5, <2>6, <2>7
<1> DEFINE r == Reached(x)
<1>7. DOMAIN r = new \union better /\ \A m \in DOMAIN r : r[m] = cost(m) /\ m \in ends
  BY <1>1
<1>8. \A m \in DOMAIN r : m \in DOMAIN best => r[m] < best[m]
  BY <1>7
<1>9. \A m \in ends : m \notin DOMAIN r => m \in DOMAIN best /\ best[m] <= cost(m)
  BY <1>6, <1>7
<1> HIDE DEF r, new, better
<1>10. \A m \in DOMAIN r : \E a \in A : a.from = x.node /\ a.to = m /\ r[m] = x.cost + a.cost
  BY <1>6, <1>7
<1>11. ASSUME NEW a \in A, a.from = x.node
       PROVE  IF a.to \in DOMAIN r THEN r[a.to] <= x.cost + a.cost
              ELSE a.to \in DOMAIN best /\ best[a.to] <= x.cost + a.cost
  <2>1. a.to \in ends /\ cost(a.to) \in Nat /\ cost(a.to) <= x.cost + a.cost
    BY <1>5, <1>6, <1>11
  <2>2. CASE a.to \in DOMAIN r
    BY <1>7, <2>1, <2>2
  <2>3. CASE a.to \notin DOMAIN r
    <3>1. a.to \in DOMAIN best /\ best[a.to] <= cost(a.to) /\ best[a.to] \in Nat
      BY <1>9, <2>1, <2>3
    <3>2. a.cost \in Nat
      BY <1>3
    <3> QED
      BY <2>1, <2>3, <3>1, <3>2
  <2> QED
    BY <2>2, <2>3
<1>12. Improved(x, r, best, A)
  BY <1>8, <1>10, <1>11 DEF Improved
<1>13. \A m \in DOMAIN r : r[m] \in Nat
  BY <1>6, <1>7
<1> QED
  BY <1>12, <1>13 DEF r, A

(***************************************************************************)
(* The steps of a search.                                                  *)
(***************************************************************************)
LEMMA MergeNothing ==
  ASSUME NEW best, best \in [DOMAIN best -> Nat]
  PROVE  Merge(best, << >>) = best
BY DEF Merge

LEMMA RunFacts ==
  ASSUME SearchTypeInv, RunInv
  PROVE  /\ search.queue \in Seq(Items) /\ search.depth \in Nat /\ search.from \in SUBSET NodeId
         /\ search.kind \in {"hops", "weight", "expand"}
         /\ search.direction \in {"out", "in", "both"}
         /\ IsFiniteSet(nodes)
         /\ IsReach(Within(search.from, search.direction), Arcs(search.direction))
         /\ Within(search.from, search.direction)[0] = search.from
         /\ IsLeast(Costs(search.from, search.direction), Arcs(search.direction))
         /\ \A y \in Costs(search.from, search.direction)[0] : y.node \in search.from /\ y.cost = 0
         /\ Arcs(search.direction) \in SUBSET [from : nodes, to : nodes, cost : Nat]
         /\ search.best \in [DOMAIN search.best -> Nat]
<1>1. /\ search.queue \in Seq(Items) /\ search.depth \in Nat /\ search.from \in SUBSET NodeId
      /\ search.kind \in {"hops", "weight", "expand"}
      /\ search.direction \in {"out", "in", "both"}
      /\ search.best \in [DOMAIN search.best -> Nat]
  BY DEF RunInv, Asked, QueueOK
<1>2. IsFiniteSet(nodes)
  BY SearchAssumption, FS_Subset DEF SearchTypeInv
<1>3. /\ IsReach(Within(search.from, search.direction), Arcs(search.direction))
      /\ Within(search.from, search.direction)[0] = search.from
  BY <1>1, WithinIsReach, WithinDef DEF SearchTypeInv
<1>4. IsLeast(Costs(search.from, search.direction), Arcs(search.direction))
  BY <1>1, CostsAreLeast
<1>5. Costs(search.from, search.direction)[0] = {[node |-> n, cost |-> 0] : n \in search.from}
  BY <1>1, CostsDef
<1>6. \A y \in Costs(search.from, search.direction)[0] : y.node \in search.from /\ y.cost = 0
  BY <1>5
<1>7. Arcs(search.direction) \in SUBSET [from : nodes, to : nodes, cost : Nat]
  BY ArcsTyped
<1> QED
  BY <1>1, <1>2, <1>3, <1>4, <1>6, <1>7

\* An item of a search by hops is never outdated, and in its turn the first.
LEMMA HopsTurn ==
  ASSUME RunInv, search.kind # "weight", NEW i, Turn(i)
  PROVE  i = 1 /\ search.queue # << >> /\ ~Outdated(search.queue[i])
<1>1. i = 1 /\ i \in DOMAIN search.queue
  BY DEF Turn, InOrder
<1>2. search.queue[i].cost = 0 /\ search.best[search.queue[i].node] = 0
  BY <1>1 DEF RunInv, HopsOK, QueueOK
<1>3. search.queue # << >>
  BY <1>1
<1> QED
  BY <1>1, <1>2, <1>3 DEF Outdated

\* A queue and labels with which the search can go on.
Goes(q, best) ==
  /\ QueueOK(q, best, search.depth)
  /\ search.kind = "weight" =>
       WeightOK(q, best, search.to, search.depth, Arcs(search.direction),
                Costs(search.from, search.direction), nodes)
  /\ search.kind # "weight" =>
       HopsOK(q, best, search.to, search.depth, Arcs(search.direction),
              Within(search.from, search.direction))

\* What item i queues.
Found(i, r) ==
  IF Outdated(search.queue[i]) \/ TooDeep(search.queue[i]) THEN DOMAIN r = {}
  ELSE IF search.kind = "weight"
       THEN Improved(search.queue[i], r, search.best, Arcs(search.direction))
       ELSE /\ DOMAIN r = {a.to : a \in {b \in Arcs(search.direction) : b.from = search.queue[i].node}}
                            \ DOMAIN search.best
            /\ \A m \in DOMAIN r : r[m] = 0

LEMMA PassGoes ==
  ASSUME SearchTypeInv, RunInv, NEW i, Turn(i), NEW r, NEW p, Found(i, r),
         AtTarget(search.queue[i]) => Outdated(search.queue[i]),
         Passed(search.queue, i, r, search.queue[i].depth + 1, p)
  PROVE  Goes(p, Merge(search.best, r))
<1> DEFINE q == search.queue
           b == search.best
           D == search.depth
           A == Arcs(search.direction)
           C == Costs(search.from, search.direction)
           R == Within(search.from, search.direction)
           N == nodes
<1>1. /\ i \in DOMAIN q /\ D \in Nat /\ IsFiniteSet(N)
      /\ IsReach(R, A) /\ IsLeast(C, A) /\ A \in SUBSET [from : N, to : N, cost : Nat]
      /\ QueueOK(q, b, D)
  BY RunFacts DEF Turn, RunInv
<1>2. /\ q[i].node \in search.to => q[i].cost > b[q[i].node]
      /\ Passed(q, i, r, q[i].depth + 1, p)
  BY DEF AtTarget, Outdated
<1>3. CASE search.kind = "weight"
  <2>1. WeightOK(q, b, search.to, D, A, C, N)
    BY <1>3 DEF RunInv
  <2>2. IF q[i].cost > b[q[i].node] \/ q[i].depth >= D THEN DOMAIN r = {}
        ELSE Improved(q[i], r, b, A)
    BY <1>3 DEF Found, Outdated, TooDeep
  <2>3. QueueOK(p, Merge(b, r), D) /\ WeightOK(p, Merge(b, r), search.to, D, A, C, N)
    <3> HIDE DEF q, b, D, A, C, N
    <3> QED
      BY <1>1, <1>2, <2>1, <2>2, WeightPass
  <2> QED
    BY <1>3, <2>3 DEF Goes
<1>4. CASE search.kind # "weight"
  <2>1. HopsOK(q, b, search.to, D, A, R)
    BY <1>4 DEF RunInv
  <2>2. i = 1 /\ q # << >> /\ ~Outdated(q[1])
    BY <1>4, HopsTurn
  <2>3. q[1].depth \in Nat
    BY <1>1, <2>2, QueueTypes
  <2>4. /\ IF q[1].depth < D
           THEN DOMAIN r = {a.to : a \in {c \in A : c.from = q[1].node}} \ DOMAIN b
           ELSE DOMAIN r = {}
        /\ \A m \in DOMAIN r : r[m] = 0
    BY <1>1, <1>4, <2>2, <2>3 DEF Found, TooDeep
  <2>5. q[1].node \notin search.to
    BY <2>2 DEF AtTarget
  <2>6. QueueOK(p, Merge(b, r), D) /\ HopsOK(p, Merge(b, r), search.to, D, A, R)
    <3> HIDE DEF q, b, D, A, R
    <3> QED
      BY <1>1, <1>2, <2>1, <2>2, <2>4, <2>5, HopsPass
  <2> QED
    BY <1>4, <2>6 DEF Goes
<1> QED
  BY <1>3, <1>4

LEMMA SkipKeepsRunning ==
  ASSUME SearchTypeInv, RunInv, NEW i, SkipItem(i)
  PROVE  RunInv'
<1> DEFINE x == search.queue[i]
           q == RemoveAt(search.queue, i)
<1>1. /\ Turn(i) /\ i \in DOMAIN search.queue /\ UNCHANGED graph
      /\ search' = [search EXCEPT !.queue = q]
      /\ Outdated(x) \/ (~AtTarget(x) /\ TooDeep(x))
  BY DEF SkipItem, Turn
<1>2. Passed(search.queue, i, << >>, x.depth + 1, q) /\ Merge(search.best, << >>) = search.best
  BY <1>1, RunFacts, SkipPasses, MergeNothing
<1>3. Found(i, << >>)
  BY <1>1 DEF Found
<1> HIDE DEF q
<1>4. Goes(q, search.best)
  <2> DEFINE r == << >>
  <2>1. Found(i, r) /\ Passed(search.queue, i, r, x.depth + 1, q)
    BY <1>2, <1>3
  <2> HIDE DEF r
  <2>2. Goes(q, Merge(search.best, r))
    BY <1>1, <2>1, PassGoes
  <2> QED
    BY <1>2, <2>2 DEF r
<1>5. search' = [search EXCEPT !.queue = q, !.best = search.best, !.seen = search.seen]
  BY <1>1 DEF RunInv, SearchShape
<1>6. LabelsInv
  BY DEF RunInv
<1> QED
  BY <1>1, <1>4, <1>5, <1>6, PassRuns DEF Goes, LabelsInv

LEMMA ReachedGoes ==
  ASSUME SearchTypeInv, IndexesAgree, RunInv, NEW i, Turn(i), search.queue[i].node \in nodes,
         ~Outdated(search.queue[i]), ~TooDeep(search.queue[i])
  PROVE  /\ Found(i, Reached(search.queue[i]))
         /\ DOMAIN Reached(search.queue[i]) \subseteq nodes
         /\ \A m \in DOMAIN Reached(search.queue[i]) : Reached(search.queue[i])[m] \in Nat
         /\ search.kind # "weight" =>
              \A m \in DOMAIN Reached(search.queue[i]) : m \notin DOMAIN search.best
<1> DEFINE x == search.queue[i]
           r == Reached(x)
           A == Arcs(search.direction)
<1>1. /\ i \in DOMAIN search.queue /\ search.queue \in Seq(Items)
      /\ search.direction \in {"out", "in", "both"}
      /\ A \in SUBSET [from : nodes, to : nodes, cost : Nat]
      /\ search.best \in [DOMAIN search.best -> Nat]
  BY RunFacts DEF Turn
<1>2. x.cost \in Nat
  BY <1>1, QueueTypes DEF RunInv
<1>3. CASE search.kind = "weight"
  <2>1. Improved(x, r, search.best, A) /\ \A m \in DOMAIN r : r[m] \in Nat
    BY <1>1, <1>2, <1>3, ReachedByWeight
  <2>2. DOMAIN r \subseteq nodes
    <3> HIDE DEF r, x
    <3> QED
      BY <1>1, <2>1 DEF Improved
  <2> QED
    BY <1>3, <2>1, <2>2 DEF Found
<1>4. CASE search.kind # "weight"
  <2>1. /\ DOMAIN r = {a.to : a \in {b \in A : b.from = x.node}} \ DOMAIN search.best
        /\ \A m \in DOMAIN r : r[m] = 0
    BY <1>1, <1>4, ReachedByHops
  <2>2. Found(i, r)
    BY <1>4, <2>1 DEF Found
  <2> HIDE DEF r, x
  <2> QED
    BY <1>1, <1>4, <2>1, <2>2 DEF r, x
<1> QED
  BY <1>3, <1>4

LEMMA ExpandKeepsRunning ==
  ASSUME SearchTypeInv, IndexesAgree, RunInv, NEW i, Expand(i), search.queue[i].node \in nodes
  PROVE  RunInv'
<1> DEFINE x == search.queue[i]
           r == Reached(x)
<1>1. /\ Turn(i) /\ i \in DOMAIN search.queue /\ UNCHANGED graph
      /\ ~Outdated(x) /\ ~AtTarget(x) /\ ~TooDeep(x)
  BY DEF Expand, Turn
<1>2. PICK order \in SetToSeqs(DOMAIN r) :
        search' = [search EXCEPT
              !.queue = RemoveAt(@, i) \o
                        [k \in DOMAIN order |-> Item(order[k], r[order[k]], x.depth + 1)],
              !.best = [m \in DOMAIN @ \union DOMAIN r |-> IF m \in DOMAIN r THEN r[m] ELSE @[m]],
              !.seen = @ \union DOMAIN r]
  BY DEF Expand
<1> DEFINE q == RemoveAt(search.queue, i) \o
                [k \in DOMAIN order |-> Item(order[k], r[order[k]], x.depth + 1)]
           b == Merge(search.best, r)
           s == search.seen \union DOMAIN r
<1>3. search' = [search EXCEPT !.queue = q, !.best = b, !.seen = s]
  BY <1>2 DEF Merge
<1>4. /\ Found(i, r) /\ DOMAIN r \subseteq nodes /\ \A m \in DOMAIN r : r[m] \in Nat
      /\ search.kind # "weight" => \A m \in DOMAIN r : m \notin DOMAIN search.best
  BY <1>1, ReachedGoes
<1>5. /\ search.queue \in Seq(Items) /\ IsFiniteSet(nodes) /\ nodes \subseteq NodeId
      /\ search.best \in [DOMAIN search.best -> Nat]
  BY RunFacts DEF SearchTypeInv
<1>6. x.depth + 1 \in Nat /\ IsFiniteSet(DOMAIN r) /\ DOMAIN r \subseteq NodeId
  <2>1. x.depth \in Nat
    BY <1>1, QueueTypes DEF RunInv
  <2> HIDE DEF r, x
  <2> QED
    BY <1>4, <1>5, <2>1, FS_Subset
<1> HIDE DEF r
<1>7. Passed(search.queue, i, r, x.depth + 1, q)
  <2> DEFINE d == x.depth + 1
  <2> SUFFICES Passed(search.queue, i, r, d, RemoveAt(search.queue, i) \o
                [k \in DOMAIN order |-> Item(order[k], r[order[k]], d)])
    OBVIOUS
  <2>1. d \in Nat
    BY <1>6
  <2> HIDE DEF d
  <2> QED
    BY <1>1, <1>4, <1>5, <1>6, <1>2, <2>1, ExpandPasses
<1> HIDE DEF q, x
<1>8. Goes(q, b)
  BY <1>1, <1>4, <1>7, PassGoes DEF x
<1>9. \A n \in search.from : n \notin DOMAIN r
  <2> SUFFICES ASSUME NEW n \in search.from, n \in DOMAIN r PROVE FALSE
    OBVIOUS
  <2>1. n \in DOMAIN search.best /\ search.best[n] = 0
    BY DEF RunInv, LabelsInv
  <2>2. search.kind = "weight"
    BY <1>4, <2>1
  <2>3. r[n] < search.best[n]
    BY <1>1, <1>4, <2>1, <2>2 DEF Found, Improved, x
  <2> QED
    BY <1>4, <2>1, <2>3
<1>10. /\ DOMAIN b = DOMAIN search.best \union DOMAIN r
       /\ \A n \in search.from : n \in DOMAIN b /\ b[n] = 0
       /\ search.kind = "expand" => s = DOMAIN b \intersect nodes
       /\ DOMAIN b \subseteq nodes \union search.from
  BY <1>4, <1>9 DEF Merge, RunInv, LabelsInv
<1> HIDE DEF b, s
<1> QED
  BY <1>1, <1>3, <1>8, <1>10, PassRuns DEF Goes

(***************************************************************************)
(* The ends of a search.                                                   *)
(***************************************************************************)
\* SearchesAreRight, of a search that ends with step and path.
EndsRight(step, path) ==
  LET R == Within(search.from, search.direction)
      C == Costs(search.from, search.direction)
  IN \/ step = "failed" /\ search.kind = "expand" /\ ~(search.from \subseteq nodes)
     \/ /\ step = "done" /\ search.kind = "expand"
        /\ search.seen = R[search.depth] \intersect nodes
     \/ /\ step = "done" /\ search.kind = "hops"
        /\ IF search.to \subseteq R[search.depth]
           THEN \E x \in path : /\ x.node \in search.to
                                /\ x.depth = Min({k \in 0..search.depth : x.node \in R[k]})
           ELSE path = {}
     \/ /\ step = "done" /\ search.kind = "weight"
        /\ search.depth >= Cardinality(nodes) - 1 =>
             {[node |-> x.node, cost |-> x.cost] : x \in path} =
               {c \in C[search.depth] : c.node \in search.to}

LEMMA FinishRight ==
  ASSUME SearchShape, UNCHANGED graph, NEW step, NEW path, Finish(step, path),
         EndsRight(step, path)
  PROVE  SearchesAreRight' /\ search'.step # "run"
<1>1. /\ search'.step = step /\ search'.path = path /\ search'.kind = search.kind
      /\ search'.direction = search.direction /\ search'.depth = search.depth
      /\ search'.from = search.from /\ search'.to = search.to /\ search'.seen = search.seen
  BY DEF SearchShape, Finish
<1>2. /\ nodes' = nodes
      /\ Within(search.from, search.direction)' = Within(search.from, search.direction)
      /\ Costs(search.from, search.direction)' = Costs(search.from, search.direction)
  BY <1>1, GraphStays
<1>3. SearchesAreRight'
  BY <1>1, <1>2 DEF SearchesAreRight, EndsRight
<1> QED
  BY <1>1, <1>3 DEF EndsRight

\* To arrive by hops is to be as deep as the node is.
LEMMA ArriveByHops ==
  ASSUME SearchTypeInv, RunInv, NEW i, Arrive(i), search.kind # "weight"
  PROVE  EndsRight("done", {search.queue[i]})
<1> DEFINE x == search.queue[i]
           D == search.depth
           R == Within(search.from, search.direction)
           T == {k \in 0..D : x.node \in R[k]}
<1>1. i \in DOMAIN search.queue /\ x.node \in search.to
  BY DEF Arrive, Turn, AtTarget
<1>2. search.kind = "hops" /\ \E t \in nodes : search.to = {t}
  BY <1>1 DEF RunInv, Asked
<1>3. Exactly(x.node, x.depth, R) /\ x.depth \in 0..D /\ D \in Nat
  BY <1>1, RunFacts, QueueTypes DEF RunInv, HopsOK
<1>4. x.node \in R[D]
  BY <1>3, RunFacts, ReachGrows DEF Exactly
<1>5. x.depth = Min(T)
  <2>1. x.depth \in T /\ T \in SUBSET Nat /\ \A k \in T : x.depth <= k
    <3> HIDE DEF R, x
    <3> QED
      BY <1>3 DEF Exactly
  <2> HIDE DEF T
  <2>2. Min(T) \in T /\ Min(T) <= x.depth /\ x.depth <= Min(T)
    BY <2>1, MinIsLeast
  <2>3. x.depth \in Nat /\ Min(T) \in Nat
    BY <1>3, <2>1, <2>2
  <2> HIDE DEF x
  <2> QED
    BY <2>2, <2>3
<1>6. search.to \subseteq R[D]
  BY <1>1, <1>2, <1>4
<1> QED
  BY <1>1, <1>2, <1>5, <1>6 DEF EndsRight

\* What the order by cost brings first costs the least.
LEMMA ArriveByWeight ==
  ASSUME SearchTypeInv, RunInv, NEW i, Arrive(i), search.kind = "weight"
  PROVE  EndsRight("done", {search.queue[i]})
<1> DEFINE q == search.queue
           b == search.best
           D == search.depth
           A == Arcs(search.direction)
           C == Costs(search.from, search.direction)
           N == nodes
<1>1. /\ i \in DOMAIN q /\ q[i].node \in search.to /\ ~(q[i].cost > b[q[i].node])
      /\ \A j \in DOMAIN q : ~Sooner(q[j], q[i])
  BY DEF Arrive, Turn, AtTarget, Outdated, InOrder
<1>2. search.to = {q[i].node}
  BY <1>1 DEF RunInv, Asked
<1>3. /\ D \in Nat /\ IsLeast(C, A) /\ A \in SUBSET [from : N, to : N, cost : Nat]
      /\ QueueOK(q, b, D) /\ WeightOK(q, b, {q[i].node}, D, A, C, N)
      /\ \A y \in C[0] : y.node \in search.from /\ y.cost = 0
  BY <1>2, RunFacts DEF RunInv
<1>4. \A n \in search.from : n \in DOMAIN b /\ b[n] = 0
  BY DEF RunInv, LabelsInv
<1>5. \A y \in C[0] : y.node \in DOMAIN b /\ b[y.node] <= y.cost
  <2> HIDE DEF C, b
  <2> QED
    BY <1>3, <1>4
<1>6. q[i].cost <= b[q[i].node] /\ \A j \in DOMAIN q : q[i].cost <= q[j].cost
  <2> HIDE DEF q, b, D
  <2>1. /\ \A n \in DOMAIN b : b[n] \in Nat
        /\ \A j \in DOMAIN q : q[j].cost \in Nat /\ q[j].node \in DOMAIN b
    BY <1>3, QueueTypes
  <2> QED
    BY <1>1, <2>1 DEF Sooner
<1>7. D >= Cardinality(N) - 1 =>
        {[node |-> q[i].node, cost |-> q[i].cost]} = {c \in C[D] : c.node \in {q[i].node}}
  <2> SUFFICES ASSUME D >= Cardinality(N) - 1
               PROVE  {[node |-> q[i].node, cost |-> q[i].cost]} =
                        {c \in C[D] : c.node \in {q[i].node}}
    OBVIOUS
  <2>1. /\ i \in DOMAIN q /\ QueueOK(q, b, D) /\ WeightOK(q, b, {q[i].node}, D, A, C, N)
        /\ D \in Nat /\ IsLeast(C, A) /\ A \in SUBSET [from : N, to : N, cost : Nat]
        /\ \A y \in C[0] : y.node \in DOMAIN b /\ b[y.node] <= y.cost
        /\ q[i].cost <= b[q[i].node] /\ \A j \in DOMAIN q : q[i].cost <= q[j].cost
        /\ D >= Cardinality(N) - 1
    BY <1>1, <1>3, <1>5, <1>6
  <2> HIDE DEF q, b, D, A, C, N
  <2> QED
    BY <2>1, WeightFound
<1>8. {[node |-> y.node, cost |-> y.cost] : y \in {q[i]}} =
        {[node |-> q[i].node, cost |-> q[i].cost]}
  OBVIOUS
<1> QED
  BY <1>2, <1>7, <1>8 DEF EndsRight

LEMMA RunDryRight ==
  ASSUME SearchTypeInv, RunInv, search.queue = << >>
  PROVE  EndsRight("done", {})
<1> DEFINE b == search.best
           D == search.depth
           A == Arcs(search.direction)
           C == Costs(search.from, search.direction)
           R == Within(search.from, search.direction)
           N == nodes
<1>1. /\ D \in Nat /\ IsReach(R, A) /\ IsLeast(C, A) /\ A \in SUBSET [from : N, to : N, cost : Nat]
      /\ QueueOK(<< >>, b, D)
      /\ R[0] = search.from /\ \A y \in C[0] : y.node \in search.from /\ y.cost = 0
      /\ search.kind \in {"hops", "weight", "expand"}
  BY RunFacts DEF RunInv
<1>2. \A n \in search.from : n \in DOMAIN b /\ b[n] = 0
  BY DEF RunInv, LabelsInv
<1>3. CASE search.kind = "weight"
  <2>1. WeightOK(<< >>, b, search.to, D, A, C, N)
    BY <1>3 DEF RunInv
  <2>2. D >= Cardinality(N) - 1 => {c \in C[D] : c.node \in search.to} = {}
    <3> HIDE DEF b, D, A, C, N
    <3>1. \A y \in C[0] : y.node \in DOMAIN b /\ b[y.node] <= y.cost
      BY <1>1, <1>2
    <3> QED
      BY <1>1, <2>1, <3>1, WeightNone
  <2>3. {[node |-> y.node, cost |-> y.cost] : y \in {}} = {}
    OBVIOUS
  <2> QED
    BY <1>3, <2>2, <2>3 DEF EndsRight
<1>4. CASE search.kind # "weight"
  <2>1. HopsOK(<< >>, b, search.to, D, A, R)
    BY <1>4 DEF RunInv
  <2>2. R[D] = DOMAIN b /\ search.to \cap R[D] = {}
    <3> HIDE DEF b, D, A, R
    <3>1. R[0] \subseteq DOMAIN b
      BY <1>1, <1>2
    <3> QED
      BY <1>1, <2>1, <3>1, HopsDone
  <2>3. CASE search.kind = "expand"
    <3>1. search.seen = DOMAIN b \intersect nodes
      BY <2>3 DEF RunInv, LabelsInv
    <3> QED
      BY <2>2, <2>3, <3>1 DEF EndsRight
  <2>4. CASE search.kind = "hops"
    <3>1. search.to # {}
      BY <2>4 DEF RunInv, Asked
    <3>2. ~(search.to \subseteq R[D])
      BY <2>2, <3>1
    <3> QED
      BY <2>4, <3>2 DEF EndsRight
  <2> QED
    BY <1>1, <1>4, <2>3, <2>4
<1> QED
  BY <1>3, <1>4

LEMMA FailedRight ==
  ASSUME RunInv, NEW i \in DOMAIN search.queue, search.queue[i].node \notin nodes
  PROVE  EndsRight("failed", {})
<1>1. search.queue[i].node \in DOMAIN search.best
  BY QueueTypes DEF RunInv
<1>2. search.queue[i].node \in search.from
  BY <1>1 DEF RunInv, LabelsInv
<1> QED
  BY <1>2 DEF RunInv, Asked, EndsRight

(***************************************************************************)
(* The start of a search, and all of its steps.                            *)
(***************************************************************************)
LEMMA StartQueue ==
  ASSUME NEW from \in SUBSET NodeId, IsFiniteSet(NodeId), NEW order \in SetToSeqs(from),
         NEW D \in Nat
  PROVE  LET q == [i \in DOMAIN order |-> Item(order[i], 0, 0)]
             b == [n \in from |-> 0]
         IN /\ QueueOK(q, b, D)
            /\ \A i \in DOMAIN q : q[i].node \in from /\ q[i].cost = 0 /\ q[i].depth = 0
            /\ \A n \in from : \E i \in DOMAIN q : q[i].node = n
<1> DEFINE q == [i \in DOMAIN order |-> Item(order[i], 0, 0)]
           b == [n \in from |-> 0]
<1>1. /\ order \in Seq(from)
      /\ \A m \in from : \E k \in DOMAIN order : order[k] = m
  BY FS_Subset, OrderHasAll
<1>2. \A i \in DOMAIN order : order[i] \in from
  BY <1>1
<1>3. DOMAIN q = DOMAIN order /\ \A i \in DOMAIN order : q[i] = Item(order[i], 0, 0)
  OBVIOUS
<1>4. \A i \in DOMAIN q : q[i].node \in from /\ q[i].cost = 0 /\ q[i].depth = 0
  BY <1>2, <1>3 DEF Item
<1>5. q \in Seq(Items)
  <2>1. Len(order) \in Nat /\ DOMAIN order = 1 .. Len(order)
    BY <1>1
  <2>2. \A i \in DOMAIN order : Item(order[i], 0, 0) \in Items
    BY <1>2 DEF Item, Items
  <2>3. q = [i \in 1 .. Len(order) |-> Item(order[i], 0, 0)]
    BY <2>1
  <2>4. \A n \in Nat : \A f \in [1 .. n -> Items] : f \in Seq(Items)
    OBVIOUS
  <2> HIDE DEF q
  <2>5. q \in [1 .. Len(order) -> Items]
    BY <2>1, <2>2, <2>3
  <2> QED
    BY <2>1, <2>4, <2>5
<1>6. DOMAIN b = from /\ b \in [DOMAIN b -> Nat]
  OBVIOUS
<1>7. QueueOK(q, b, D)
  BY <1>4, <1>5, <1>6 DEF QueueOK
<1>8. \A n \in from : \E i \in DOMAIN q : q[i].node = n
  BY <1>1, <1>3 DEF Item
<1> QED
  BY <1>4, <1>7, <1>8

LEMMA StartHops ==
  ASSUME NEW q, NEW from, NEW to, NEW D \in Nat, NEW A, NEW R, IsReach(R, A), R[0] = from,
         \A i \in DOMAIN q : q[i].node \in from /\ q[i].cost = 0 /\ q[i].depth = 0,
         \A n \in from : \E i \in DOMAIN q : q[i].node = n, q \in Seq(Items)
  PROVE  HopsOK(q, [n \in from |-> 0], to, D, A, R)
<1> DEFINE b == [n \in from |-> 0]
<1>1. DOMAIN b = from /\ \A n \in from : b[n] = 0
  OBVIOUS
<1>2. \A n \in from : n \in R[D]
  BY ReachGrows
<1>3. \A n \in from : Exactly(n, 0, R)
  BY DEF Exactly
<1>4. ASSUME NEW i \in DOMAIN q
      PROVE  /\ Exactly(q[i].node, q[i].depth, R) /\ q[i].cost = 0
             /\ \A j \in DOMAIN q : i < j =>
                  q[i].depth <= q[j].depth /\ q[j].depth <= q[i].depth + 1
  BY <1>3
<1>5. q # << >> => R[q[1].depth] \subseteq DOMAIN b
  <2> SUFFICES ASSUME q # << >> PROVE R[q[1].depth] \subseteq DOMAIN b
    OBVIOUS
  <2>1. 1 \in DOMAIN q
    OBVIOUS
  <2> QED
    BY <1>1, <2>1
<1> HIDE DEF b
<1> QED
  BY <1>1, <1>2, <1>4, <1>5 DEF HopsOK, b

LEMMA StartWeight ==
  ASSUME NEW q, NEW N, NEW from \in SUBSET N, NEW to, NEW D \in Nat, NEW A, NEW C,
         C[0] = {[node |-> n, cost |-> 0] : n \in from},
         \A i \in DOMAIN q : q[i].node \in from /\ q[i].cost = 0 /\ q[i].depth = 0,
         \A n \in from : \E i \in DOMAIN q : q[i].node = n
  PROVE  WeightOK(q, [n \in from |-> 0], to, D, A, C, N)
<1> DEFINE b == [n \in from |-> 0]
<1>1. DOMAIN b = from /\ \A n \in from : b[n] = 0
  OBVIOUS
<1> HIDE DEF b
<1>2. ASSUME NEW i \in DOMAIN q
      PROVE  /\ b[q[i].node] <= q[i].cost
             /\ \E y \in C[q[i].depth] : y.node = q[i].node /\ y.cost <= q[i].cost
             /\ \E P \in SUBSET DOMAIN b : Way(q[i], P, b)
  <2>1. q[i].node \in from /\ q[i].cost = 0 /\ q[i].depth = 0
    OBVIOUS
  <2>2. [node |-> q[i].node, cost |-> 0] \in C[0]
    BY <2>1
  <2>3. Way(q[i], {}, b)
    BY <2>1, FS_EmptySet DEF Way
  <2> QED
    BY <1>1, <2>1, <2>2, <2>3
<1>3. \A n \in DOMAIN b : \E i \in DOMAIN q : q[i].node = n /\ q[i].cost = b[n]
  BY <1>1
<1> QED
  BY <1>1, <1>2, <1>3 DEF WeightOK, b

LEMMA StartRuns ==
  ASSUME SearchTypeInv, NEW q \in Query, StartSearch(q)
  PROVE  RunInv' /\ search'.step = "run"
<1>1. /\ UNCHANGED graph /\ (q.kind = "expand" \/ q.from \union q.to \subseteq nodes)
      /\ nodes \subseteq NodeId /\ nodes' = nodes
  BY DEF StartSearch, SearchTypeInv, graph
<1>2. PICK order \in SetToSeqs(q.from) :
       search' = [step |-> "run", kind |-> q.kind, direction |-> q.direction, depth |-> q.depth,
                  from |-> q.from, to |-> q.to,
                  queue |-> [i \in DOMAIN order |-> Item(order[i], 0, 0)],
                  best |-> [n \in q.from |-> 0], seen |-> q.from \intersect nodes, path |-> {}]
  BY DEF StartSearch
<1>3. /\ q.kind \in {"hops", "weight", "expand"} /\ q.direction \in {"out", "in", "both"}
      /\ q.depth \in Nat /\ q.from \in SUBSET NodeId /\ q.to \in SUBSET NodeId
      /\ IF q.kind = "expand" THEN q.to = {}
         ELSE Cardinality(q.from) = 1 /\ Cardinality(q.to) = 1
      /\ IsFiniteSet(NodeId)
  BY SearchAssumption
<1>4. ASSUME q.kind # "expand" PROVE \E s, t \in nodes : q.from = {s} /\ q.to = {t}
  <2>1. \A S \in SUBSET nodes : Cardinality(S) = 1 => \E s \in nodes : S = {s}
    BY <1>1, <1>3, FS_Subset, FS_Singleton
  <2> QED
    BY <1>1, <1>3, <1>4, <2>1
<1> DEFINE Q == [i \in DOMAIN order |-> Item(order[i], 0, 0)]
           b == [n \in q.from |-> 0]
<1>5. /\ search'.step = "run" /\ search'.kind = q.kind /\ search'.direction = q.direction
      /\ search'.depth = q.depth /\ search'.from = q.from /\ search'.to = q.to
      /\ search'.queue = Q /\ search'.best = b /\ search'.seen = q.from \intersect nodes
      /\ SearchShape'
  BY <1>2 DEF SearchShape
<1>6. /\ QueueOK(Q, b, q.depth) /\ Q \in Seq(Items)
      /\ \A i \in DOMAIN Q : Q[i].node \in q.from /\ Q[i].cost = 0 /\ Q[i].depth = 0
      /\ \A n \in q.from : \E i \in DOMAIN Q : Q[i].node = n
  BY <1>3, StartQueue DEF QueueOK
<1>7. Arcs(q.direction)' = Arcs(q.direction)
  BY <1>1 DEF graph, Arcs
<1>8. DOMAIN b = q.from /\ \A n \in q.from : b[n] = 0
  OBVIOUS
<1> HIDE DEF Q
<1>9. q.kind # "weight" =>
        HopsOK(Q, b, q.to, q.depth, Arcs(q.direction), Within(q.from, q.direction))
  <2> DEFINE A == Arcs(q.direction)
             R == Within(q.from, q.direction)
  <2>1. IsReach(R, A) /\ R[0] = q.from
    BY <1>1, <1>3, WithinIsReach, WithinDef
  <2> HIDE DEF A, R
  <2> QED
    BY <1>3, <1>6, <2>1, StartHops DEF A, R
<1>10. q.kind = "weight" =>
         WeightOK(Q, b, q.to, q.depth, Arcs(q.direction), Costs(q.from, q.direction), nodes)
  <2> DEFINE A == Arcs(q.direction)
             C == Costs(q.from, q.direction)
  <2>1. C[0] = {[node |-> n, cost |-> 0] : n \in q.from}
    BY <1>3, CostsDef
  <2> HIDE DEF A, C
  <2> QED
    BY <1>1, <1>3, <1>6, <2>1, StartWeight DEF A, C
<1>11. /\ Within(search.from, search.direction)' = Within(q.from, q.direction)
       /\ Costs(search.from, search.direction)' = Costs(q.from, q.direction)
       /\ Arcs(search.direction)' = Arcs(q.direction)
  BY <1>1, <1>5 DEF graph, Within, Costs, Around, Onward, Cheapest, Arcs
<1> HIDE DEF b
<1>12. Asked(q.kind, q.direction, q.depth, q.from, q.to)
  BY <1>3, <1>4 DEF Asked
<1>13. LabelsInv'
  BY <1>1, <1>5, <1>8 DEF LabelsInv
<1>14. Asked(search.kind, search.direction, search.depth, search.from, search.to)'
  BY <1>1, <1>5, <1>12 DEF Asked
<1> QED
  BY <1>1, <1>5, <1>6, <1>9, <1>10, <1>11, <1>13, <1>14 DEF RunInv

LEMMA ItemStep ==
  ASSUME SearchTypeInv, IndexesAgree, RunInv, NEW i \in DOMAIN search.queue,
         SkipItem(i) \/ Arrive(i) \/ Expand(i)
  PROVE  RunInv' \/ (SearchesAreRight' /\ search'.step # "run")
<1>1. CASE SkipItem(i)
  BY <1>1, SkipKeepsRunning
<1>2. CASE Arrive(i)
  <2>1. EndsRight("done", {search.queue[i]})
    BY <1>2, ArriveByHops, ArriveByWeight
  <2>2. SearchShape /\ UNCHANGED graph /\ Finish("done", {search.queue[i]})
    BY <1>2 DEF Arrive, RunInv
  <2> QED
    BY <2>1, <2>2, FinishRight
<1>3. CASE Expand(i) /\ search.queue[i].node \in nodes
  BY <1>3, ExpandKeepsRunning
<1>4. CASE Expand(i) /\ search.queue[i].node \notin nodes
  <2>1. EndsRight("failed", {})
    BY <1>4, FailedRight
  <2>2. SearchShape /\ UNCHANGED graph /\ Finish("failed", {})
    BY <1>4 DEF Expand, RunInv
  <2> QED
    BY <2>1, <2>2, FinishRight
<1> QED
  BY <1>1, <1>2, <1>3, <1>4

\* The first conjunct of SearchInv carries the second when the search ends; after
\* that nothing but a change of the graph is left to happen, and it disturbs.
LEMMA SearchInvKept ==
  ASSUME SearchTypeInv, IndexesAgree, SearchInv, [SearchNext]_searchVars
  PROVE  SearchInv'
<1>1. CASE Write
  <2>1. disturbed' = TRUE
    BY <1>1 DEF Write, Change, UpsertNodes, DeleteNode, DeleteEdge, UpsertEdges, DecayEdges, Clear
  <2> QED
    BY <2>1 DEF SearchInv, SearchesAreRight, Calm
<1>2. ASSUME NEW q \in Query, StartSearch(q) PROVE SearchInv'
  <2>1. RunInv' /\ search'.step = "run"
    BY <1>2, StartRuns
  <2> QED
    BY <2>1 DEF SearchInv, SearchesAreRight
<1>3. ASSUME NEW i \in DOMAIN search.queue, SkipItem(i) \/ Arrive(i) \/ Expand(i)
      PROVE  SearchInv'
  <2>1. search.step = "run" /\ disturbed' = disturbed
    BY <1>3 DEF SkipItem, Arrive, Expand, Turn
  <2>2. CASE disturbed
    BY <2>1, <2>2 DEF SearchInv, SearchesAreRight, Calm
  <2>3. CASE ~disturbed
    <3>1. RunInv
      BY <2>1, <2>3 DEF SearchInv, Calm
    <3>2. RunInv' \/ (SearchesAreRight' /\ search'.step # "run")
      BY <1>3, <3>1, ItemStep
    <3>3. RunInv' => SearchesAreRight'
      BY DEF RunInv, SearchesAreRight
    <3> QED
      BY <3>2, <3>3 DEF SearchInv
  <2> QED
    BY <2>2, <2>3
<1>4. CASE RunDry
  <2>1. /\ search.step = "run" /\ disturbed' = disturbed /\ search.queue = << >>
        /\ UNCHANGED graph /\ Finish("done", {})
    BY <1>4 DEF RunDry
  <2>2. CASE disturbed
    BY <2>1, <2>2 DEF SearchInv, SearchesAreRight, Calm
  <2>3. CASE ~disturbed
    <3>1. RunInv
      BY <2>1, <2>3 DEF SearchInv, Calm
    <3>2. SearchesAreRight' /\ search'.step # "run"
      BY <2>1, <3>1, RunDryRight, FinishRight DEF RunInv
    <3> QED
      BY <3>2 DEF SearchInv
  <2> QED
    BY <2>2, <2>3
<1>5. CASE UNCHANGED searchVars
  <2>1. UNCHANGED <<graph, search, disturbed>>
    BY <1>5 DEF searchVars
  <2>2. /\ nodes' = nodes
        /\ Arcs(search.direction)' = Arcs(search.direction)
        /\ Within(search.from, search.direction)' = Within(search.from, search.direction)
        /\ Costs(search.from, search.direction)' = Costs(search.from, search.direction)
    BY <2>1, GraphStays
  <2>3. ASSUME RunInv PROVE RunInv'
    <3>1. search' = [search EXCEPT !.queue = search.queue, !.best = search.best,
                                   !.seen = search.seen]
      BY <2>1, <2>3 DEF RunInv, SearchShape
    <3>2. UNCHANGED graph
      BY <2>1
    <3> QED
      BY <2>3, <3>1, <3>2, PassRuns DEF RunInv, LabelsInv
  <2>4. SearchesAreRight => SearchesAreRight'
    BY <2>1, <2>2 DEF SearchesAreRight, Calm
  <2> QED
    BY <2>1, <2>3, <2>4 DEF SearchInv, Calm
<1> QED
  BY <1>1, <1>2, <1>3, <1>4, <1>5 DEF SearchNext, Search

\* Of a graph that nobody changes meanwhile, a search by hops finds a path with the
\* fewest, a weighted one a path of least cost if its depth admits every path, and an
\* expansion all that is within its depth (fewestHopsPath, weightedShortestPath,
\* expandFromEntities).
THEOREM SearchesFind == SearchSpec => []SearchesAreRight
<1>1. SearchInit => SearchInv
  BY DEF SearchInit, NoSearch, SearchInv, SearchesAreRight, Calm
<1>2. SearchTypeInv /\ IndexesAgree /\ [SearchNext]_searchVars => (SearchTypeInv /\ IndexesAgree)'
  BY SearchIndexed
<1>3. SearchTypeInv /\ IndexesAgree /\ SearchInv /\ [SearchNext]_searchVars => SearchInv'
  BY SearchInvKept
<1>4. SearchInv => SearchesAreRight
  BY DEF SearchInv
<1> QED
  BY <1>1, <1>2, <1>3, <1>4, SearchInitIndexed, PTL DEF SearchSpec
=============================================================================
