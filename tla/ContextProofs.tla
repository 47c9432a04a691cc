---------------------------- MODULE ContextProofs ----------------------------
(***************************************************************************)
(* Proofs about Context, for any callers, facts, queries, limits, sizes    *)
(* and capacities.                                                         *)
(***************************************************************************)
EXTENDS Context, WellFoundedInduction, FiniteSetTheorems, TLAPS

(***************************************************************************)
(* The cache.                                                              *)
(***************************************************************************)
\* No two entries have one key.
OneEach(s) == \A i, j \in DOMAIN s : s[i].key = s[j].key => i = j

\* The entries of t are entries of s, in the order of s, and so have a key each.
Within(t, s) ==
  \A i \in DOMAIN t : \E j \in DOMAIN s : t[i] = s[j]

\* Deleting a key leaves the other entries, each once.
LEMMA DeleteKey ==
  ASSUME NEW S, NEW s \in Seq(S), OneEach(s), NEW key
  PROVE  /\ Without(s, key) \in Seq(S)
         /\ OneEach(Without(s, key)) /\ Within(Without(s, key), s)
         /\ \A i \in DOMAIN Without(s, key) : Without(s, key)[i].key # key
         /\ Len(Without(s, key)) <= Len(s)
         /\ (\E i \in DOMAIN s : s[i].key = key) => Len(Without(s, key)) + 1 = Len(s)
<1>1. CASE ~\E i \in DOMAIN s : s[i].key = key
  <2>1. Without(s, key) = s
    BY <1>1 DEF Without
  <2>2. Len(s) \in Nat
    OBVIOUS
  <2> QED
    BY <1>1, <2>1, <2>2 DEF Within
<1>2. CASE \E i \in DOMAIN s : s[i].key = key
  <2>1. PICK n \in DOMAIN s : s[n].key = key /\ Without(s, key) = RemoveAt(s, n)
    BY <1>2 DEF Without
  <2> DEFINE t == RemoveAt(s, n)
  <2>2. n \in Nat /\ 1 <= n /\ n <= Len(s) /\ Len(s) \in Nat
    BY <2>1
  <2>3. t \in Seq(S) /\ Len(t) + 1 = Len(s)
    BY <2>2 DEF RemoveAt
  <2>4. \A i \in DOMAIN t : /\ i < n => i \in DOMAIN s /\ t[i] = s[i]
                            /\ n <= i => i + 1 \in DOMAIN s /\ t[i] = s[i + 1]
                            /\ i \in Nat
    <3> DEFINE a == SubSeq(s, 1, n - 1)
               b == SubSeq(s, n + 1, Len(s))
    <3>1. a \in Seq(S) /\ Len(a) = n - 1 /\ \A i \in 1 .. n - 1 : a[i] = s[i]
      BY <2>2
    <3>2. b \in Seq(S) /\ Len(b) = Len(s) - n /\ \A i \in 1 .. Len(s) - n : b[i] = s[n + i]
      BY <2>2
    <3>3. t = a \o b
      BY DEF RemoveAt
    <3>4. DOMAIN t = 1 .. Len(s) - 1
      BY <2>2, <2>3
    <3> HIDE DEF a, b, t
    <3> TAKE i \in DOMAIN t
    <3>5. i \in 1 .. Len(s) - 1
      BY <3>4
    <3>6. CASE i < n
      BY <2>2, <3>1, <3>2, <3>3, <3>5, <3>6
    <3>7. CASE n <= i
      <4>1. t[i] = b[i - (n - 1)]
        BY <2>2, <3>1, <3>2, <3>3, <3>5, <3>7
      <4>2. i - (n - 1) \in 1 .. Len(s) - n /\ n + (i - (n - 1)) = i + 1
        BY <2>2, <3>5, <3>7
      <4>3. t[i] = s[i + 1]
        BY <3>2, <4>1, <4>2
      <4> QED
        BY <2>2, <3>5, <3>7, <4>3
    <3> QED
      BY <2>2, <3>5, <3>6, <3>7
  <2> HIDE DEF t
  <2>5. Within(t, s)
    BY <2>2, <2>4 DEF Within
  <2>6. OneEach(t)
    BY <2>2, <2>4 DEF OneEach
  <2>7. \A i \in DOMAIN t : t[i].key # key
    BY <2>1, <2>2, <2>4 DEF OneEach
  <2>8. Len(t) \in Nat
    BY <2>3
  <2> QED
    BY <2>1, <2>2, <2>3, <2>5, <2>6, <2>7, <2>8 DEF t
<1> QED
  BY <1>1, <1>2

\* A hit is an entry of the cache, of its key and young enough.
LEMMA HitIsEntry ==
  ASSUME NEW S, NEW s \in Seq(S), NEW key, NEW e \in Hits(s, key)
  PROVE  /\ \E j \in DOMAIN s : e = s[j]
         /\ e.key = key /\ ~Expired(e)
  BY DEF Hits, Entries, ToSet

\* get: every entry that stays is as it was, and has its key alone.
LEMMA GetKeeps ==
  ASSUME NEW S, NEW s \in Seq(S), OneEach(s), NEW key
  PROVE  /\ AfterGet(s, key) \in Seq(S) /\ OneEach(AfterGet(s, key))
         /\ Within(AfterGet(s, key), s)
         /\ Len(AfterGet(s, key)) <= Len(s)
<1> DEFINE w == Without(s, key)
<1>1. /\ w \in Seq(S) /\ OneEach(w) /\ Within(w, s)
      /\ \A i \in DOMAIN w : w[i].key # key
      /\ Len(w) <= Len(s)
      /\ (\E i \in DOMAIN s : s[i].key = key) => Len(w) + 1 = Len(s)
  BY DeleteKey
<1>2. CASE Hits(s, key) = {}
  BY <1>1, <1>2 DEF AfterGet
<1>3. CASE Hits(s, key) # {}
  <2>1. PICK e \in Hits(s, key) : AfterGet(s, key) = Append(w, e)
    BY <1>3 DEF AfterGet, Used
  <2>2. PICK j \in DOMAIN s : e = s[j] /\ e.key = key
    BY HitIsEntry
  <2>3. e \in S /\ Len(w) + 1 = Len(s)
    BY <1>1, <2>2
  <2> DEFINE t == Append(w, e)
  <2>4. /\ t \in Seq(S) /\ Len(t) = Len(w) + 1
        /\ \A i \in DOMAIN t : (i \in DOMAIN w /\ t[i] = w[i]) \/ (i = Len(t) /\ t[i] = e)
    BY <1>1, <2>3
  <2> HIDE DEF w, t
  <2>5. Within(t, s)
    BY <1>1, <2>2, <2>4 DEF Within
  <2>6. OneEach(t)
    BY <1>1, <2>2, <2>4 DEF OneEach
  <2>7. Len(s) \in Nat /\ Len(t) = Len(s)
    BY <2>3, <2>4
  <2> QED
    BY <2>1, <2>4, <2>5, <2>6, <2>7 DEF t
<1> QED
  BY <1>2, <1>3

\* put: the new entry replaces that of its key; what is more than the cache takes
\* goes.
LEMMA PutKeeps ==
  ASSUME NEW S, NEW s \in Seq(S), OneEach(s), Len(s) <= MaxEntries, NEW e \in S
  PROVE  /\ AfterPut(s, e) \in Seq(S) /\ OneEach(AfterPut(s, e))
         /\ \A i \in DOMAIN AfterPut(s, e) :
              \/ AfterPut(s, e)[i] = e
              \/ AfterPut(s, e)[i].key # e.key /\ \E j \in DOMAIN s : AfterPut(s, e)[i] = s[j]
         /\ Len(AfterPut(s, e)) <= MaxEntries
<1> DEFINE w == Without(s, e.key)
           t == Append(w, e)
<1>1. /\ w \in Seq(S) /\ OneEach(w) /\ Within(w, s)
      /\ \A i \in DOMAIN w : w[i].key # e.key
      /\ Len(w) <= Len(s)
  BY DeleteKey
<1>2. /\ t \in Seq(S) /\ Len(t) = Len(w) + 1
      /\ \A i \in DOMAIN t : (i \in DOMAIN w /\ t[i] = w[i]) \/ (i = Len(t) /\ t[i] = e)
  BY <1>1
<1>3. AfterPut(s, e) = Evict(t)
  BY DEF AfterPut
<1>4. Len(t) \in Nat /\ Len(w) \in Nat /\ Len(s) \in Nat /\ MaxEntries \in Nat /\ MaxEntries >= 1
  BY <1>1, <1>2, CacheAssumption
<1> HIDE DEF w, t
<1>5. OneEach(t)
  BY <1>1, <1>2 DEF OneEach
<1>6. \A i \in DOMAIN t : t[i] = e \/ (t[i].key # e.key /\ \E j \in DOMAIN s : t[i] = s[j])
  BY <1>1, <1>2 DEF Within
<1>7. CASE Len(t) <= MaxEntries
  BY <1>2, <1>3, <1>4, <1>5, <1>6, <1>7 DEF Evict
<1>8. CASE Len(t) > MaxEntries
  <2> DEFINE d == Len(t) - MaxEntries
             u == SubSeq(t, d + 1, Len(t))
  <2>1. AfterPut(s, e) = u
    BY <1>3, <1>8 DEF Evict
  <2>2. d \in Nat /\ d <= Len(t)
    BY <1>4, <1>8
  <2>3. /\ u \in Seq(S) /\ Len(u) = MaxEntries
        /\ \A i \in DOMAIN u : i \in Nat /\ i + d \in DOMAIN t /\ u[i] = t[i + d]
    <3>1. u \in Seq(S) /\ Len(u) = Len(t) - d /\ \A i \in 1 .. Len(u) : u[i] = t[d + 1 + i - 1]
      <4> HIDE DEF d
      <4> QED
        BY <1>2, <1>4, <2>2
    <3>2. Len(t) - d = MaxEntries /\ DOMAIN t = 1 .. Len(t) /\ DOMAIN u = 1 .. Len(u)
      BY <1>2, <1>4, <3>1
    <3> HIDE DEF u
    <3>3. ASSUME NEW i \in DOMAIN u PROVE i \in Nat /\ i + d \in DOMAIN t /\ u[i] = t[i + d]
      <4>1. i \in 1 .. MaxEntries
        BY <3>1, <3>2
      <4>2. d + 1 + i - 1 = i + d /\ i + d \in 1 .. Len(t)
        BY <1>4, <2>2, <4>1
      <4> QED
        BY <3>1, <3>2, <4>1, <4>2
    <3> QED
      BY <3>1, <3>2, <3>3
  <2> HIDE DEF d, u
  <2>4. OneEach(u)
    <3> SUFFICES ASSUME NEW i \in DOMAIN u, NEW j \in DOMAIN u, u[i].key = u[j].key PROVE i = j
      BY DEF OneEach
    <3>1. i + d = j + d
      BY <1>5, <2>3 DEF OneEach
    <3> QED
      BY <2>2, <2>3, <3>1
  <2> QED
    BY <1>4, <1>6, <2>1, <2>3, <2>4
<1> QED
  BY <1>4, <1>7, <1>8

\* Time: entries keep their places and what they hold.
LEMMA AgedKeeps ==
  ASSUME NEW S, NEW s \in Seq(S)
  PROVE  /\ DOMAIN Aged(s) = DOMAIN s /\ Len(Aged(s)) = Len(s)
         /\ \A i \in DOMAIN s :
              Aged(s)[i] = [s[i] EXCEPT !.age = IF @ > Ttl THEN @ ELSE @ + 1]
  BY DEF Aged


(***************************************************************************)
(* What holds between two steps.                                           *)
(***************************************************************************)
\* A call at work has a query; the facts it found and that were retired since
\* were retired after it had searched.
CallOK(r) ==
  /\ r.pc # "idle" => r.key \in Query
  /\ r.pc \in {"searched", "read"} =>
       \A f \in r.items : facts[f] = "retired" => retiredAt[f] <= r.lag

\* What the last briefing of a query advertised is what its entry holds; its
\* facts were active when their briefing searched.
EntryOK(e) ==
  /\ promised[e.key] = [recall |-> Behind(Cardinality(e.items), RecallCap),
                        recent |-> Behind(e.recent, RecentCap)]
  /\ ~Expired(e) =>
       \A f \in e.items : facts[f] = "retired" => retiredAt[f] <= e.lag + e.age

Inv ==
  /\ TypeOK
  /\ \A f \in Fact : facts[f] # "retired" => retiredAt[f] = 0
  /\ \A c \in Caller : CallOK(call[c])
  /\ \A i \in DOMAIN cache : EntryOK(cache[i])

\* The parts of an entry and of a call.
LEMMA Parts ==
  /\ \A r \in Call : /\ r.items \subseteq Fact /\ r.recent \in 0 .. MaxEvents
                     /\ r.lag \in 0 .. MaxLag /\ r.limit \in Nat
  /\ \A e \in Entry : /\ e.items \subseteq Fact /\ e.recent \in 0 .. MaxEvents
                      /\ e.lag \in 0 .. MaxLag /\ e.age \in 0 .. Ttl + 1 /\ e.key \in Query
<1>1. ASSUME NEW r \in Call
      PROVE  /\ r.items \subseteq Fact /\ r.recent \in 0 .. MaxEvents
             /\ r.lag \in 0 .. MaxLag /\ r.limit \in Nat
  <2>1. r.limit \in Limits \cup {0}
    BY DEF Call
  <2>2. Limits \subseteq Nat
    BY ContextAssumption
  <2>3. r.limit \in Nat
    <3>1. CASE r.limit \in Limits
      BY <2>2, <3>1, Zenon
    <3>2. CASE r.limit = 0
      BY <3>2
    <3> QED
      BY <2>1, <3>1, <3>2
  <2> QED
    BY <2>3 DEF Call
<1>2. ASSUME NEW e \in Entry
      PROVE  /\ e.items \subseteq Fact /\ e.recent \in 0 .. MaxEvents
             /\ e.lag \in 0 .. MaxLag /\ e.age \in 0 .. Ttl + 1 /\ e.key \in Query
  BY DEF Entry
<1> QED
  BY <1>1, <1>2

\* A caller that does nothing.
LEMMA IdleIsCall == Idle \in Call
  BY ContextAssumption DEF Idle, Call

\* The first of a set of facts are some of them.
LEMMA TopWithin == \A S, n : Top(S, n) \subseteq S
  BY DEF Top

\* One call goes on, and what it now is is right.
LEMMA OneCall ==
  ASSUME Inv, NEW c \in Caller, NEW r \in Call,
         call' = [call EXCEPT ![c] = r], UNCHANGED <<facts, retiredAt>>, CallOK(r)
  PROVE  call' \in [Caller -> Call] /\ \A b \in Caller : CallOK(call[b])'
<1>1. call' \in [Caller -> Call]
  BY DEF Inv, TypeOK
<1>2. \A b \in Caller : call'[b] = IF b = c THEN r ELSE call[b]
  BY DEF Inv, TypeOK
<1> QED
  BY <1>1, <1>2 DEF Inv, CallOK

\* Facts are learned and retired.
LEMMA FactKept ==
  ASSUME Inv, NEW f \in Fact, Learn(f) \/ Retire(f)
  PROVE  Inv'
<1>1. /\ facts' \in [Fact -> {"none", "active", "retired"}]
      /\ retiredAt' \in [Fact -> 0 .. Ttl + MaxLag + 1]
      /\ events' \in 0 .. MaxEvents
      /\ UNCHANGED <<cache, promised, call>>
  <2>1. Ttl + MaxLag + 1 \in Nat /\ 0 \in 0 .. Ttl + MaxLag + 1 /\ MaxEvents \in Nat
    BY ContextAssumption, CacheAssumption
  <2>2. CASE Learn(f)
    BY <2>1, <2>2 DEF Inv, TypeOK, Learn
  <2>3. CASE Retire(f)
    BY <2>3 DEF Inv, TypeOK, Retire
  <2> QED
    BY <2>2, <2>3
<1>2. TypeOK'
  BY <1>1 DEF Inv, TypeOK
<1>3. \A g \in Fact : /\ facts'[g] = "retired" => retiredAt'[g] = retiredAt[g]
                      /\ facts'[g] = "retired" => facts[g] = "retired" \/ retiredAt[g] = 0
                      /\ facts'[g] # "retired" => retiredAt'[g] = 0
  BY DEF Inv, TypeOK, Learn, Retire
<1>4. \A c \in Caller : CallOK(call[c])'
  <2> SUFFICES ASSUME NEW c \in Caller PROVE CallOK(call[c])'
    OBVIOUS
  <2>1. call[c] \in Call /\ CallOK(call[c])
    BY DEF Inv, TypeOK
  <2>2. call[c].items \subseteq Fact /\ call[c].lag >= 0
    BY <2>1, Parts
  <2> QED
    BY <1>1, <1>3, <2>1, <2>2 DEF CallOK
<1>5. \A i \in DOMAIN cache : EntryOK(cache[i])'
  <2> SUFFICES ASSUME NEW i \in DOMAIN cache PROVE EntryOK(cache[i])'
    BY <1>1
  <2>1. cache[i] \in Entry /\ EntryOK(cache[i])
    BY DEF Inv, TypeOK
  <2>2. cache[i].items \subseteq Fact /\ cache[i].lag + cache[i].age >= 0
    BY <2>1, Parts
  <2> QED
    BY <1>1, <1>3, <2>1, <2>2 DEF EntryOK
<1> QED
  BY <1>1, <1>2, <1>3, <1>4, <1>5 DEF Inv

\* Time passes for facts, calls and entries alike.
LEMMA TickKept ==
  ASSUME Inv, Tick
  PROVE  Inv'
<1>1. /\ cache \in Seq(Entry) /\ call \in [Caller -> Call] /\ Len(cache) <= MaxEntries
      /\ facts' = facts /\ events' = events /\ promised' = promised
      /\ MaxLag \in Nat /\ Ttl \in Nat
  BY ContextAssumption, CacheAssumption DEF Inv, TypeOK, Tick
<1>2. \A f \in Fact : /\ retiredAt[f] \in 0 .. Ttl + MaxLag + 1
                      /\ retiredAt'[f] \in 0 .. Ttl + MaxLag + 1
                      /\ retiredAt'[f] <= retiredAt[f] + 1
                      /\ facts[f] # "retired" => retiredAt'[f] = retiredAt[f]
  BY <1>1 DEF Inv, TypeOK, Tick
<1>3. retiredAt' \in [Fact -> 0 .. Ttl + MaxLag + 1]
  BY <1>2 DEF Tick
<1>4. \A c \in Caller : /\ call'[c] \in Call
                        /\ CallOK(call[c])'
  <2> SUFFICES ASSUME NEW c \in Caller PROVE call'[c] \in Call /\ CallOK(call[c])'
    OBVIOUS
  <2>1. call[c] \in Call /\ CallOK(call[c])
    BY <1>1 DEF Inv
  <2>2. call[c].items \subseteq Fact /\ call[c].lag \in 0 .. MaxLag
    BY <2>1, Parts
  <2>3. CASE HasSearched(c)
    <3>1. call'[c] = [call[c] EXCEPT !.lag = @ + 1] /\ call[c].lag < MaxLag
      BY <2>3 DEF Tick
    <3>2. call[c].lag + 1 \in 0 .. MaxLag
      BY <1>1, <2>2, <3>1
    <3>3. /\ call'[c].pc = call[c].pc /\ call'[c].key = call[c].key
          /\ call'[c].items = call[c].items /\ call'[c].lag = call[c].lag + 1
      BY <2>1, <3>1 DEF Call
    <3>4. call'[c] \in Call
      BY <2>1, <3>1, <3>2 DEF Call
    <3>5. \A f \in call[c].items : facts[f] = "retired" => retiredAt'[f] <= call[c].lag + 1
      <4> SUFFICES ASSUME NEW f \in call[c].items, facts[f] = "retired"
                   PROVE  retiredAt'[f] <= call[c].lag + 1
        OBVIOUS
      <4>1. f \in Fact /\ retiredAt[f] <= call[c].lag
        BY <2>1, <2>2, <2>3 DEF CallOK, HasSearched
      <4>2. retiredAt'[f] <= retiredAt[f] + 1 /\ retiredAt[f] \in Nat /\ retiredAt'[f] \in Nat
        BY <1>1, <1>2, <4>1
      <4>3. \A k, m, n \in Nat : k <= m /\ n <= k + 1 => n <= m + 1
        OBVIOUS
      <4>4. call[c].lag \in Nat
        BY <1>1, <2>2
      <4> QED
        BY <4>1, <4>2, <4>3, <4>4
    <3> QED
      BY <1>1, <2>1, <3>3, <3>4, <3>5 DEF CallOK
  <2>4. CASE ~HasSearched(c)
    <3>1. call'[c] = call[c]
      BY <2>4 DEF Tick
    <3> QED
      BY <2>1, <2>4, <3>1 DEF CallOK, HasSearched
  <2> QED
    BY <2>3, <2>4
<1>5. call' \in [Caller -> Call]
  BY <1>4 DEF Tick
<1>6. /\ DOMAIN cache' = DOMAIN cache /\ Len(cache') = Len(cache)
      /\ \A i \in DOMAIN cache :
           cache'[i] = [cache[i] EXCEPT !.age = IF @ > Ttl THEN @ ELSE @ + 1]
  BY <1>1, AgedKeeps DEF Tick
<1>7. \A i \in DOMAIN cache :
        /\ cache[i] \in Entry /\ cache'[i] \in Entry
        /\ cache'[i].key = cache[i].key /\ cache'[i].items = cache[i].items
        /\ cache'[i].lag = cache[i].lag /\ cache'[i].recent = cache[i].recent
        /\ cache'[i].age = IF cache[i].age > Ttl THEN cache[i].age ELSE cache[i].age + 1
  <2> SUFFICES ASSUME NEW i \in DOMAIN cache
               PROVE  /\ cache[i] \in Entry /\ cache'[i] \in Entry
                      /\ cache'[i].key = cache[i].key /\ cache'[i].items = cache[i].items
                      /\ cache'[i].lag = cache[i].lag /\ cache'[i].recent = cache[i].recent
                      /\ cache'[i].age = IF cache[i].age > Ttl THEN cache[i].age ELSE cache[i].age + 1
    OBVIOUS
  <2>1. cache[i] \in Entry
    BY <1>1
  <2>2. cache[i].age \in 0 .. Ttl + 1
    BY <2>1, Parts
  <2>3. (IF cache[i].age > Ttl THEN cache[i].age ELSE cache[i].age + 1) \in 0 .. Ttl + 1
    BY <1>1, <2>2
  <2> QED
    BY <1>6, <2>1, <2>3 DEF Entry
<1>8. \A i \in DOMAIN cache : EntryOK(cache[i])'
  <2> SUFFICES ASSUME NEW i \in DOMAIN cache PROVE EntryOK(cache[i])'
    OBVIOUS
  <2>1. cache[i] \in Entry /\ EntryOK(cache[i])
    BY <1>7 DEF Inv
  <2>2. cache[i].items \subseteq Fact /\ cache[i].lag \in Nat /\ cache[i].age \in Nat
    BY <1>1, <2>1, Parts
  <2>3. ASSUME cache'[i].age <= Ttl, NEW f \in cache[i].items, facts[f] = "retired"
        PROVE  retiredAt'[f] <= cache[i].lag + cache'[i].age
    <3>1. cache[i].age <= Ttl /\ cache'[i].age = cache[i].age + 1
      BY <1>1, <1>7, <2>2, <2>3
    <3>2. f \in Fact /\ retiredAt[f] <= cache[i].lag + cache[i].age
      BY <1>1, <2>1, <2>2, <2>3, <3>1 DEF EntryOK, Expired
    <3>3. retiredAt'[f] <= retiredAt[f] + 1 /\ retiredAt[f] \in Nat /\ retiredAt'[f] \in Nat
      BY <1>1, <1>2, <3>2
    <3>4. \A k, l, m, n \in Nat : k <= l + m /\ n <= k + 1 => n <= l + (m + 1)
      OBVIOUS
    <3> QED
      BY <2>2, <3>1, <3>2, <3>3, <3>4
  <2>4. cache'[i].age \in Int
    BY <1>7, <2>2
  <2>5. ~Expired(cache'[i]) => cache'[i].age <= Ttl
    BY <1>1, <2>4 DEF Expired
  <2> QED
    BY <1>1, <1>7, <2>1, <2>3, <2>5 DEF EntryOK
<1>9. cache' \in Seq(Entry)
  <2>1. cache' = Aged(cache)
    BY DEF Tick
  <2>2. Len(cache) \in Nat /\ DOMAIN cache = 1 .. Len(cache)
    BY <1>1
  <2>3. cache' \in [1 .. Len(cache) -> Entry]
    BY <1>6, <1>7, <2>1, <2>2 DEF Aged
  <2> QED
    BY <2>2, <2>3
<1>10. \A i, j \in DOMAIN cache' : cache'[i].key = cache'[j].key => i = j
  BY <1>6, <1>7 DEF Inv, TypeOK
<1>11. TypeOK'
  BY <1>1, <1>3, <1>5, <1>6, <1>9, <1>10 DEF Inv, TypeOK
<1> QED
  BY <1>1, <1>2, <1>4, <1>6, <1>8, <1>11 DEF Inv

\* A call begins, searches or ends without touching the cache.
LEMMA CallKept ==
  ASSUME Inv, NEW c \in Caller, NEW r \in Call,
         call' = [call EXCEPT ![c] = r], CallOK(r),
         UNCHANGED <<memory, cache, promised>>
  PROVE  Inv'
<1>1. call' \in [Caller -> Call] /\ \A b \in Caller : CallOK(call[b])'
  BY OneCall DEF memory
<1>2. TypeOK'
  BY <1>1 DEF Inv, TypeOK, memory
<1> QED
  BY <1>1, <1>2 DEF Inv, EntryOK, Expired, memory

\* A new briefing is right.
LEMMA BeginRight ==
  ASSUME Inv, NEW c \in Caller, NEW mode \in {"compact", "full"}, NEW q \in Query, NEW n \in Limits
  PROVE  Begin(c, mode, q, n) \in Call /\ CallOK(Begin(c, mode, q, n))
<1> DEFINE gone == {f \in Fact : facts[f] = "retired"}
           r == [Idle EXCEPT !.pc = "reading", !.mode = mode, !.key = q, !.limit = n,
                             !.retired = gone]
<1>1. gone \subseteq Fact
  OBVIOUS
<1>2. Begin(c, mode, q, n) = r
  BY DEF Begin
<1> HIDE DEF gone
<1>3. r \in Call /\ r.pc = "reading" /\ r.key = q
  BY <1>1, IdleIsCall DEF Call
<1>4. CallOK(r)
  BY <1>3 DEF CallOK
<1> QED
  BY <1>2, <1>3, <1>4

\* A briefing is asked for; what it finds is active when it searches; events are
\* read; the answer is taken.
LEMMA BriefingKept ==
  ASSUME Inv, NEW c \in Caller,
         \/ \E mode \in {"compact", "full"}, q \in Query, n \in Limits : Ask(c, mode, q, n)
         \/ Search(c) \/ ReadRecent(c) \/ Take(c)
  PROVE  Inv'
<1>1. call[c] \in Call /\ CallOK(call[c])
  BY DEF Inv, TypeOK
<1>2. CASE \E mode \in {"compact", "full"}, q \in Query, n \in Limits : Ask(c, mode, q, n)
  BY <1>2, BeginRight, CallKept DEF Ask
<1>3. CASE Search(c)
  <2>1. PICK found \in {Found(c), {}} :
          call' = [call EXCEPT ![c].pc = "searched", ![c].items = found, ![c].retired = {}]
    BY <1>3 DEF Search
  <2> DEFINE r == [call[c] EXCEPT !.pc = "searched", !.items = found, !.retired = {}]
  <2>2. found \subseteq {f \in Fact : facts[f] = "active"}
    BY <2>1, TopWithin DEF Found
  <2>3. r \in Call /\ r.items = found /\ r.key = call[c].key
    BY <1>1, <2>2 DEF Call
  <2>4. CallOK(r)
    BY <1>1, <1>3, <2>2, <2>3 DEF CallOK, Search, At
  <2>5. call' = [call EXCEPT ![c] = r]
    BY <2>1 DEF Inv, TypeOK
  <2> QED
    BY <1>3, <2>3, <2>4, <2>5, CallKept DEF Search
<1>4. CASE ReadRecent(c)
  <2>1. PICK n \in {Smaller(events, RecentLimit(c)), 0} :
          call' = [call EXCEPT ![c].pc = "read", ![c].recent = n, ![c].limit = 0]
    BY <1>4 DEF ReadRecent
  <2> DEFINE r == [call[c] EXCEPT !.pc = "read", !.recent = n, !.limit = 0]
  <2>2. n \in 0 .. MaxEvents
    <3>1. RecentLimit(c) \in Nat
      BY <1>1, Parts, ContextAssumption DEF RecentLimit, Larger
    <3> QED
      BY <2>1, <3>1, ContextAssumption DEF Smaller, Inv, TypeOK
  <2>3. r \in Call /\ r.items = call[c].items /\ r.key = call[c].key /\ r.lag = call[c].lag
    BY <1>1, <2>2 DEF Call
  <2>4. CallOK(r)
    BY <1>1, <1>4, <2>3 DEF CallOK, ReadRecent, At
  <2>5. call' = [call EXCEPT ![c] = r]
    BY <2>1 DEF Inv, TypeOK
  <2> QED
    BY <1>4, <2>3, <2>4, <2>5, CallKept DEF ReadRecent
<1>5. CASE Take(c)
  <2>1. CallOK(Idle)
    BY DEF CallOK, Idle
  <2> QED
    BY <1>5, <2>1, IdleIsCall, CallKept DEF Take
<1> QED
  BY <1>2, <1>3, <1>4, <1>5

\* What a briefing shows it has found.
LEMMA ShownFound ==
  ASSUME NEW c \in Caller
  PROVE  ShownItems(c) \subseteq call[c].items
  BY TopWithin DEF ShownItems

\* What is behind the part that is shown.
LEMMA AffordancesRight ==
  ASSUME Inv, NEW c \in Caller
  PROVE  Affordances(c) \in Promise
<1>1. call[c] \in Call
  BY DEF Inv, TypeOK
<1>2. call[c].items \subseteq Fact /\ call[c].recent \in Nat
  BY <1>1, Parts
<1>3. Cardinality(call[c].items) \in Nat
  BY <1>2, ContextAssumption, FS_Subset, FS_CardinalityType
<1> QED
  BY <1>2, <1>3 DEF Affordances, Promise, Behind

\* A briefing ends, and its entry and its promise go together.
LEMMA DeliverKept ==
  ASSUME Inv, NEW c \in Caller, Deliver(c)
  PROVE  Inv'
<1> DEFINE r == [Idle EXCEPT !.pc = "done", !.key = call[c].key, !.lag = call[c].lag,
                             !.items = ShownItems(c)]
<1>1. /\ call[c] \in Call /\ CallOK(call[c]) /\ call[c].pc = "read"
      /\ call[c].items \subseteq Fact /\ call[c].key \in Query
      /\ call[c].lag \in 0 .. MaxLag /\ call[c].recent \in 0 .. MaxEvents
  <2>1. call[c] \in Call /\ CallOK(call[c]) /\ call[c].pc = "read"
    BY DEF Inv, TypeOK, Deliver, At
  <2> QED
    BY <2>1, Parts DEF CallOK
<1>2. r \in Call /\ CallOK(r)
  <2>1. ShownItems(c) \subseteq Fact
    BY <1>1, ShownFound
  <2>2. r \in Call /\ r.pc = "done" /\ r.key = call[c].key
    BY <1>1, <2>1, IdleIsCall DEF Call
  <2> QED
    BY <1>1, <2>2 DEF CallOK
<1>3. call' = [call EXCEPT ![c] = r] /\ UNCHANGED memory
  BY DEF Deliver
<1>4. call' \in [Caller -> Call] /\ \A b \in Caller : CallOK(call[b])'
  BY <1>2, <1>3, OneCall DEF memory
<1>5. CASE ~Compact(c)
  <2>1. UNCHANGED <<cache, promised>>
    BY <1>5 DEF Deliver
  <2> QED
    BY <1>2, <1>3, <2>1, CallKept
<1>6. CASE Compact(c)
  <2> DEFINE e == EntryOf(c)
             p == Affordances(c)
             q == call[c].key
  <2>1. cache' = AfterPut(cache, e) /\ promised' = [promised EXCEPT ![q] = p]
    BY <1>6 DEF Deliver
  <2>2. /\ e \in Entry /\ e.key = q /\ e.age = 0 /\ e.lag = call[c].lag
        /\ e.items = call[c].items /\ e.recent = call[c].recent
    BY <1>1, CacheAssumption DEF EntryOf, Entry
  <2>3. /\ cache \in Seq(Entry) /\ OneEach(cache) /\ Len(cache) <= MaxEntries
        /\ promised \in [Query -> Promise \cup {Nil}]
    BY DEF Inv, TypeOK, OneEach
  <2>4. /\ cache' \in Seq(Entry) /\ OneEach(cache') /\ Len(cache') <= MaxEntries
        /\ \A i \in DOMAIN cache' :
             \/ cache'[i] = e
             \/ cache'[i].key # q /\ \E j \in DOMAIN cache : cache'[i] = cache[j]
    <3>1. /\ cache' \in Seq(Entry) /\ OneEach(cache') /\ Len(cache') <= MaxEntries
          /\ \A i \in DOMAIN cache' :
               \/ cache'[i] = e
               \/ cache'[i].key # e.key /\ \E j \in DOMAIN cache : cache'[i] = cache[j]
      <4> HIDE DEF e
      <4>1. /\ AfterPut(cache, e) \in Seq(Entry) /\ OneEach(AfterPut(cache, e))
            /\ Len(AfterPut(cache, e)) <= MaxEntries
            /\ \A i \in DOMAIN AfterPut(cache, e) :
                 \/ AfterPut(cache, e)[i] = e
                 \/ /\ AfterPut(cache, e)[i].key # e.key
                    /\ \E j \in DOMAIN cache : AfterPut(cache, e)[i] = cache[j]
        BY <2>2, <2>3, PutKeeps
      <4> QED
        BY <2>1, <4>1, Zenon
    <3> HIDE DEF e
    <3> QED
      BY <2>2, <3>1
  <2>5. promised' \in [Query -> Promise \cup {Nil}] /\ promised'[q] = p
        /\ \A k \in Query : k # q => promised'[k] = promised[k]
    BY <1>1, <2>1, <2>3, AffordancesRight
  <2>6. TypeOK'
    BY <1>3, <1>4, <2>4, <2>5 DEF Inv, TypeOK, OneEach, memory
  <2>7. \A i \in DOMAIN cache' : EntryOK(cache[i])'
    <3> SUFFICES ASSUME NEW i \in DOMAIN cache' PROVE EntryOK(cache[i])'
      OBVIOUS
    <3>1. CASE cache'[i] = e
      <4>1. promised'[e.key] = [recall |-> Behind(Cardinality(e.items), RecallCap),
                                recent |-> Behind(e.recent, RecentCap)]
        BY <2>2, <2>5 DEF Affordances
      <4>2. \A f \in e.items : facts[f] = "retired" => retiredAt[f] <= e.lag + e.age
        BY <1>1, <2>2, ContextAssumption DEF CallOK
      <4> HIDE DEF e
      <4> QED
        BY <1>3, <3>1, <4>1, <4>2 DEF EntryOK, memory
    <3>2. CASE cache'[i].key # q /\ \E j \in DOMAIN cache : cache'[i] = cache[j]
      <4>1. PICK j \in DOMAIN cache : cache'[i] = cache[j]
        BY <3>2
      <4>2. EntryOK(cache[j]) /\ cache[j] \in Entry
        BY <2>3 DEF Inv
      <4>3. cache[j].key \in Query /\ cache[j].key # q
        BY <3>2, <4>1, <4>2, Parts
      <4> QED
        BY <1>3, <2>5, <4>1, <4>2, <4>3 DEF EntryOK, Expired, memory
    <3> QED
      BY <2>4, <3>1, <3>2
  <2> QED
    BY <1>3, <1>4, <2>6, <2>7 DEF Inv, memory
<1> QED
  BY <1>5, <1>6

\* A cursor is used: the entry stays as it is, or there is none and a briefing
\* begins.
LEMMA ExpandKept ==
  ASSUME Inv, NEW c \in Caller, NEW q \in Query,
         \/ \E s \in Sections : Expand(c, q, s)
         \/ \E asked \in Query, n \in Limits : ExpandMisses(c, q, asked, n)
  PROVE  Inv'
<1>1. PICK r \in Call : CallOK(r) /\ call' = [call EXCEPT ![c] = r]
  <2>1. CASE \E s \in Sections : Expand(c, q, s)
    <3>1. PICK s \in Sections : Expand(c, q, s)
      BY <2>1
    <3>2. PICK e \in Hits(cache, q) : call' = [call EXCEPT ![c] =
            [Idle EXCEPT !.pc = "done", !.key = q, !.section = s, !.lag = e.lag,
               !.items  = IF s = "recall" THEN e.items ELSE {},
               !.recent = IF s = "recent" THEN e.recent ELSE 0]]
      BY <3>1 DEF Expand
    <3>3. cache \in Seq(Entry)
      BY DEF Inv, TypeOK
    <3>4. e \in Entry
      BY <3>3, HitIsEntry
    <3>5. e.items \subseteq Fact /\ e.recent \in 0 .. MaxEvents /\ e.lag \in 0 .. MaxLag
      BY <3>4, Parts
    <3> DEFINE items  == IF s = "recall" THEN e.items ELSE {}
               recent == IF s = "recent" THEN e.recent ELSE 0
               r == [Idle EXCEPT !.pc = "done", !.key = q, !.section = s, !.lag = e.lag,
                                 !.items = items, !.recent = recent]
    <3>6. items \subseteq Fact
      BY <3>5
    <3>7. recent \in 0 .. MaxEvents
      <4>1. MaxEvents \in Nat
        BY ContextAssumption
      <4> QED
        BY <3>5, <4>1
    <3>8. call' = [call EXCEPT ![c] = r]
      BY <3>2
    <3>9. r \in Call /\ r.pc = "done" /\ r.key = q
      <4> HIDE DEF items, recent
      <4> QED
        BY <3>5, <3>6, <3>7, IdleIsCall DEF Call
    <3>10. CallOK(r)
      BY <3>9 DEF CallOK
    <3> QED
      BY <3>8, <3>9, <3>10
  <2>2. CASE \E asked \in Query, n \in Limits : ExpandMisses(c, q, asked, n)
    BY <2>2, BeginRight DEF ExpandMisses
  <2> QED
    BY <2>1, <2>2
<1>2. cache' = AfterGet(cache, q) /\ UNCHANGED <<memory, promised>>
  BY DEF Expand, ExpandMisses
<1>3. call' \in [Caller -> Call] /\ \A b \in Caller : CallOK(call[b])'
  BY <1>1, <1>2, OneCall DEF memory
<1>4. cache \in Seq(Entry) /\ OneEach(cache) /\ Len(cache) <= MaxEntries /\ Len(cache) \in Nat
  BY DEF Inv, TypeOK, OneEach
<1>5. cache' \in Seq(Entry) /\ OneEach(cache') /\ Within(cache', cache) /\ Len(cache') <= Len(cache)
  BY <1>2, <1>4, GetKeeps
<1>6. Len(cache') <= MaxEntries
  BY <1>4, <1>5, CacheAssumption
<1>7. TypeOK'
  BY <1>2, <1>3, <1>5, <1>6 DEF Inv, TypeOK, OneEach, memory
<1>8. \A i \in DOMAIN cache' : EntryOK(cache[i])'
  BY <1>2, <1>5 DEF Inv, Within, EntryOK, Expired, memory
<1> QED
  BY <1>2, <1>3, <1>7, <1>8 DEF Inv, memory


\* At first nothing is known, cached or asked.
LEMMA InitInv == Init => Inv
<1> SUFFICES ASSUME Init PROVE Inv
  OBVIOUS
<1>1. /\ Ttl + MaxLag + 1 \in Nat /\ MaxEvents \in Nat /\ MaxEntries \in Nat
  BY ContextAssumption, CacheAssumption
<1>2. cache = << >>
  BY DEF Init
<1>3. cache \in Seq(Entry) /\ Len(cache) <= MaxEntries /\ DOMAIN cache = {}
  BY <1>1, <1>2
<1>4. /\ facts \in [Fact -> {"none", "active", "retired"}]
      /\ retiredAt \in [Fact -> 0 .. Ttl + MaxLag + 1]
      /\ events \in 0 .. MaxEvents
      /\ promised \in [Query -> Promise \cup {Nil}]
      /\ call \in [Caller -> Call]
  BY <1>1, IdleIsCall DEF Init
<1>5. TypeOK
  BY <1>3, <1>4 DEF TypeOK
<1>6. CallOK(Idle)
  BY DEF CallOK, Idle
<1> QED
  BY <1>3, <1>5, <1>6 DEF Inv, Init

\* Every step.
LEMMA NextInv == Inv /\ [Next]_vars => Inv'
<1> SUFFICES ASSUME Inv, [Next]_vars PROVE Inv'
  OBVIOUS
<1>1. CASE UNCHANGED vars
  BY <1>1 DEF Inv, TypeOK, CallOK, EntryOK, Expired, vars
<1>2. CASE Tick
  BY <1>2, TickKept
<1>3. CASE \E f \in Fact : Learn(f) \/ Retire(f)
  BY <1>3, FactKept
<1>4. ASSUME NEW c \in Caller,
             \/ \E mode \in {"compact", "full"}, q \in Query, n \in Limits : Ask(c, mode, q, n)
             \/ Search(c) \/ ReadRecent(c) \/ Take(c)
      PROVE  Inv'
  BY <1>4, BriefingKept
<1>5. ASSUME NEW c \in Caller, NEW q \in Query,
             \/ \E s \in Sections : Expand(c, q, s)
             \/ \E asked \in Query, n \in Limits : ExpandMisses(c, q, asked, n)
      PROVE  Inv'
  BY <1>5, ExpandKept
<1>6. ASSUME NEW c \in Caller, Deliver(c) PROVE Inv'
  BY <1>6, DeliverKept
<1> QED
  BY <1>1, <1>2, <1>3, <1>4, <1>5, <1>6, Zenon DEF Next

\* A cache entry and the promise made of it agree at all times; what was found
\* and has since been retired was retired after it was found.
THEOREM ContextInvariant == Spec => []Inv
<1>1. Init => Inv
  BY InitInv
<1>2. Inv /\ [Next]_vars => Inv'
  BY NextInv
<1> QED
  BY <1>1, <1>2, PTL DEF Spec

\* The types; the cache keeps to its size, and has no key twice.
THEOREM ContextTypeCorrect == Spec => []TypeOK
<1>1. Inv => TypeOK
  BY DEF Inv
<1> QED
  BY <1>1, ContextInvariant, PTL

(***************************************************************************)
(* What an answer holds.                                                   *)
(***************************************************************************)
\* An answer comes from a briefing, with no section, or from the entry of the
\* cursor.
LEMMA Answers ==
  ASSUME Inv, Next, NEW c \in Caller, ~At(c, "done"), call'[c].pc = "done"
  PROVE  \/ /\ Deliver(c)
            /\ call'[c].section = Nil /\ call'[c].lag = call[c].lag
            /\ call'[c].items \subseteq call[c].items
         \/ \E q \in Query, s \in Sections : \E e \in Hits(cache, q) :
              /\ call'[c].key = q /\ call'[c].section = s /\ call'[c].lag = e.lag
              /\ call'[c].items \subseteq e.items
              /\ s = "recall" => call'[c].items = e.items
              /\ s = "recent" => call'[c].recent = e.recent
<1>1. call \in [Caller -> Call] /\ call[c].pc # "done"
  BY DEF Inv, TypeOK, At
<1>2. ASSUME NEW b \in Caller, NEW r, r.pc # "done", call' = [call EXCEPT ![b] = r]
      PROVE  FALSE
  BY <1>1, <1>2
<1>3. ASSUME Tick PROVE FALSE
  <2>1. call'[c] = IF HasSearched(c) THEN [call[c] EXCEPT !.lag = @ + 1] ELSE call[c]
    BY <1>3 DEF Tick
  <2>2. call'[c].pc = call[c].pc
    BY <1>1, <2>1 DEF Call
  <2> QED
    BY <1>1, <2>2
<1>4. ASSUME NEW f \in Fact, Learn(f) \/ Retire(f) PROVE FALSE
  BY <1>1, <1>4 DEF Learn, Retire
<1>5. ASSUME NEW b \in Caller, NEW mode \in {"compact", "full"}, NEW q \in Query, NEW n \in Limits,
             call' = [call EXCEPT ![b] = Begin(b, mode, q, n)]
      PROVE  FALSE
  <2>1. Begin(b, mode, q, n).pc = "reading"
    BY IdleIsCall DEF Begin, Call
  <2> QED
    BY <1>2, <1>5, <2>1
<1>6. ASSUME NEW b \in Caller, Search(b) PROVE FALSE
  <2>1. PICK found \in {Found(b), {}} :
          call' = [call EXCEPT ![b].pc = "searched", ![b].items = found, ![b].retired = {}]
    BY <1>6 DEF Search
  <2> DEFINE r == [call[b] EXCEPT !.pc = "searched", !.items = found, !.retired = {}]
  <2>2. call' = [call EXCEPT ![b] = r]
    BY <1>1, <2>1
  <2>3. r.pc = "searched"
    BY <1>1 DEF Call
  <2> HIDE DEF r
  <2> QED
    BY <1>2, <2>2, <2>3
<1>7. ASSUME NEW b \in Caller, ReadRecent(b) PROVE FALSE
  <2>1. PICK n : call' = [call EXCEPT ![b].pc = "read", ![b].recent = n, ![b].limit = 0]
    BY <1>7 DEF ReadRecent
  <2> DEFINE r == [call[b] EXCEPT !.pc = "read", !.recent = n, !.limit = 0]
  <2>2. call' = [call EXCEPT ![b] = r]
    BY <1>1, <2>1
  <2>3. r.pc = "read"
    BY <1>1 DEF Call
  <2> HIDE DEF r
  <2> QED
    BY <1>2, <2>2, <2>3
<1>8. ASSUME NEW b \in Caller, Take(b) PROVE FALSE
  BY <1>2, <1>8 DEF Take, Idle
<1>9. ASSUME NEW b \in Caller, Deliver(b)
      PROVE  /\ b = c
             /\ call'[c].section = Nil /\ call'[c].lag = call[c].lag
             /\ call'[c].items \subseteq call[c].items
  <2> DEFINE r == [Idle EXCEPT !.pc = "done", !.key = call[b].key, !.lag = call[b].lag,
                               !.items = ShownItems(b)]
  <2>1. call' = [call EXCEPT ![b] = r]
    BY <1>9 DEF Deliver
  <2>2. b = c
    BY <1>1, <2>1
  <2>3. r.section = Nil /\ r.lag = call[b].lag /\ r.items = ShownItems(b)
    BY DEF Idle
  <2>4. call'[b] = r
    BY <1>1, <2>1
  <2> HIDE DEF r
  <2> QED
    BY <2>2, <2>3, <2>4, ShownFound
<1>10. ASSUME NEW b \in Caller, NEW q \in Query, NEW s \in Sections, Expand(b, q, s)
       PROVE  \E e \in Hits(cache, q) :
                /\ call'[c].key = q /\ call'[c].section = s /\ call'[c].lag = e.lag
                /\ call'[c].items \subseteq e.items
                /\ s = "recall" => call'[c].items = e.items
                /\ s = "recent" => call'[c].recent = e.recent
  <2>1. PICK e \in Hits(cache, q) : call' = [call EXCEPT ![b] =
          [Idle EXCEPT !.pc = "done", !.key = q, !.section = s, !.lag = e.lag,
             !.items  = IF s = "recall" THEN e.items ELSE {},
             !.recent = IF s = "recent" THEN e.recent ELSE 0]]
    BY <1>10 DEF Expand
  <2> DEFINE items  == IF s = "recall" THEN e.items ELSE {}
             recent == IF s = "recent" THEN e.recent ELSE 0
             r == [Idle EXCEPT !.pc = "done", !.key = q, !.section = s, !.lag = e.lag,
                               !.items = items, !.recent = recent]
  <2>2. call' = [call EXCEPT ![b] = r]
    BY <2>1
  <2>3. r.key = q /\ r.section = s /\ r.lag = e.lag /\ r.items = items /\ r.recent = recent
    <3> HIDE DEF items, recent
    <3> QED
      BY DEF Idle
  <2>4. b = c /\ call'[c] = r
    <3> HIDE DEF r
    <3> QED
      BY <1>1, <2>2
  <2>5. items \subseteq e.items /\ (s = "recall" => items = e.items)
        /\ (s = "recent" => recent = e.recent)
    OBVIOUS
  <2> HIDE DEF r, items, recent
  <2> QED
    BY <2>3, <2>4, <2>5
<1> DEFINE FromBriefing ==
             /\ Deliver(c)
             /\ call'[c].section = Nil /\ call'[c].lag = call[c].lag
             /\ call'[c].items \subseteq call[c].items
           FromEntry(q, s) ==
             \E e \in Hits(cache, q) :
               /\ call'[c].key = q /\ call'[c].section = s /\ call'[c].lag = e.lag
               /\ call'[c].items \subseteq e.items
               /\ s = "recall" => call'[c].items = e.items
               /\ s = "recent" => call'[c].recent = e.recent
<1>11. ASSUME NEW b \in Caller, Deliver(b) PROVE FromBriefing
  BY <1>9, <1>11
<1>12. ASSUME NEW b \in Caller, NEW q \in Query, NEW s \in Sections, Expand(b, q, s)
       PROVE  FromEntry(q, s)
  BY <1>10, <1>12
<1>13. ASSUME NEW b \in Caller, NEW mode \in {"compact", "full"}, NEW q \in Query,
              NEW n \in Limits, Ask(b, mode, q, n)
       PROVE  FALSE
  BY <1>5, <1>13 DEF Ask
<1>14. ASSUME NEW b \in Caller, NEW held \in Query, NEW q \in Query, NEW n \in Limits,
              ExpandMisses(b, held, q, n)
       PROVE  FALSE
  BY <1>5, <1>14 DEF ExpandMisses
<1> HIDE DEF FromBriefing, FromEntry
<1>15. FromBriefing \/ \E q \in Query, s \in Sections : FromEntry(q, s)
  <2>1. PICK b \in Caller :
          \/ \E q \in Query, n \in Limits :
               \/ \E mode \in {"compact", "full"} : Ask(b, mode, q, n)
               \/ \E held \in Query : ExpandMisses(b, held, q, n)
          \/ \E q \in Query, s \in Sections : Expand(b, q, s)
          \/ Search(b) \/ ReadRecent(b) \/ Deliver(b) \/ Take(b)
    BY <1>3, <1>4 DEF Next
  <2>2. ~\E q \in Query, n \in Limits :
          \/ \E mode \in {"compact", "full"} : Ask(b, mode, q, n)
          \/ \E held \in Query : ExpandMisses(b, held, q, n)
    BY <1>13, <1>14, Zenon
  <2>3. (\E q \in Query, s \in Sections : Expand(b, q, s))
        => \E q \in Query, s \in Sections : FromEntry(q, s)
    BY <1>12, Zenon
  <2> QED
    BY <1>6, <1>7, <1>8, <1>11, <2>1, <2>2, <2>3, Zenon
<1> QED
  BY <1>15 DEF FromBriefing, FromEntry

\* The cache keeps what was promised until it forgets all of it: one entry of a
\* query, and the promise is made and replaced with it.
THEOREM PromisesAreKept == Spec => PromiseKept
<1> DEFINE Kept(c) ==
      LET answer  == call'[c]
          promise == promised[answer.key]
      IN  /\ answer.section = "recall" /\ promise.recall > 0
               => Cardinality(answer.items) = promise.recall
          /\ answer.section = "recent" /\ promise.recent > 0
               => answer.recent = promise.recent
<1>1. ASSUME Inv, Next, NEW c \in Caller, ~At(c, "done"), call'[c].pc = "done"
      PROVE  Kept(c)
  <2>1. CASE call'[c].section = Nil
    BY <2>1, ContextAssumption DEF Sections
  <2>2. CASE call'[c].section # Nil
    <3>0. PICK q \in Query, s \in Sections : \E e \in Hits(cache, q) :
              /\ call'[c].key = q /\ call'[c].section = s
              /\ s = "recall" => call'[c].items = e.items
              /\ s = "recent" => call'[c].recent = e.recent
      BY <1>1, <2>2, Answers
    <3>1. PICK e \in Hits(cache, q) :
              /\ call'[c].key = q /\ call'[c].section = s
              /\ s = "recall" => call'[c].items = e.items
              /\ s = "recent" => call'[c].recent = e.recent
      BY <3>0
    <3>2. cache \in Seq(Entry)
      BY <1>1 DEF Inv, TypeOK
    <3>3. e \in Entry /\ e.key = q /\ EntryOK(e)
      BY <1>1, <3>2, HitIsEntry DEF Inv
    <3>4. promised[q] = [recall |-> Behind(Cardinality(e.items), RecallCap),
                         recent |-> Behind(e.recent, RecentCap)]
      BY <3>3 DEF EntryOK
    <3> QED
      BY <3>1, <3>4 DEF Behind
  <2> QED
    BY <2>1, <2>2
<1>2. Inv /\ [Next]_vars =>
        [\A c \in Caller : ~At(c, "done") /\ call'[c].pc = "done" => Kept(c)]_vars
  BY <1>1
<1> QED
  BY <1>2, ContextInvariant, PTL DEF Spec, PromiseKept

\* A briefing shows what was active when it searched; an expansion, what was
\* active when its entry's briefing searched, an entry's life ago at most.
THEOREM RetiredFactsDoFade == Spec => RetiredFactsFade
<1> DEFINE Fades(c) ==
      \A f \in call'[c].items :
        facts[f] = "retired" =>
          retiredAt[f] <= call'[c].lag + IF call'[c].section = Nil THEN 0 ELSE Ttl
<1>1. ASSUME Inv, Next, NEW c \in Caller, ~At(c, "done"), call'[c].pc = "done"
      PROVE  Fades(c)
  <2>1. call[c] \in Call /\ CallOK(call[c]) /\ cache \in Seq(Entry) /\ Nil \notin Sections
        /\ retiredAt \in [Fact -> 0 .. Ttl + MaxLag + 1]
    BY <1>1, ContextAssumption DEF Inv, TypeOK
  <2>2. CASE Deliver(c) /\ call'[c].section = Nil /\ call'[c].lag = call[c].lag
             /\ call'[c].items \subseteq call[c].items
    <3>1. call[c].pc = "read" /\ call[c].items \subseteq Fact /\ call[c].lag \in Nat
      BY <2>1, <2>2, Parts DEF Deliver, At
    <3>2. \A f \in call[c].items : facts[f] = "retired" => retiredAt[f] <= call[c].lag
      BY <2>1, <3>1 DEF CallOK
    <3> QED
      BY <2>2, <3>1, <3>2
  <2>3. CASE \E q \in Query, s \in Sections : \E e \in Hits(cache, q) :
               /\ call'[c].section = s /\ call'[c].lag = e.lag
               /\ call'[c].items \subseteq e.items
    <3>1. PICK q \in Query, s \in Sections : \E e \in Hits(cache, q) :
                 /\ call'[c].section = s /\ call'[c].lag = e.lag
                 /\ call'[c].items \subseteq e.items
      BY <2>3
    <3>2. PICK e \in Hits(cache, q) :
                 /\ call'[c].section = s /\ call'[c].lag = e.lag
                 /\ call'[c].items \subseteq e.items
      BY <3>1
    <3>3. e \in Entry /\ EntryOK(e) /\ ~Expired(e)
      BY <1>1, <2>1, HitIsEntry DEF Inv
    <3>4. e.items \subseteq Fact /\ e.lag \in Nat /\ e.age \in Nat
      BY <3>3, Parts
    <3>5. e.age <= Ttl /\ Ttl \in Nat
      BY <3>3, <3>4, CacheAssumption DEF Expired
    <3> SUFFICES ASSUME NEW f \in call'[c].items, facts[f] = "retired"
                 PROVE  retiredAt[f] <= call'[c].lag + Ttl
      BY <2>1, <3>2
    <3>6. f \in Fact /\ retiredAt[f] <= e.lag + e.age
      BY <3>2, <3>3, <3>4 DEF EntryOK
    <3>7. retiredAt[f] \in Nat
      BY <1>1, <3>6 DEF Inv, TypeOK
    <3> QED
      BY <3>2, <3>4, <3>5, <3>6, <3>7
  <2> QED
    BY <1>1, <2>2, <2>3, Answers
<1>2. Inv /\ [Next]_vars =>
        [\A c \in Caller : ~At(c, "done") /\ call'[c].pc = "done" => Fades(c)]_vars
  BY <1>1
<1> QED
  BY <1>2, ContextInvariant, PTL DEF Spec, RetiredFactsFade

(***************************************************************************)
(* Functions that are defined along an interval: what the model's sums and *)
(* packings compute.  (The induction of the library takes a predicate; this *)
(* one takes a set.)                                                       *)
(***************************************************************************)
\* Induction: a set that has 1, and with a number the next, has all of them.
LEMMA IntervalInduction ==
  ASSUME NEW n \in Nat, NEW T, 1 \in T, \A m \in 1 .. n : m \in T => m + 1 \in T
  PROVE  1 .. n + 1 \subseteq T
<1> DEFINE Rest == (1 .. n + 1) \ T
<1> SUFFICES ASSUME Rest # {} PROVE FALSE
  OBVIOUS
<1>1. IsWellFoundedOn(OpToRel(<, Nat), Nat)
  BY NatLessThanWellFounded
<1>2. Rest \subseteq Nat
  OBVIOUS
<1>3. PICK m \in Rest : \A k \in Rest : ~(<<k, m>> \in OpToRel(<, Nat))
  BY <1>1, <1>2, WFMin
<1>4. \A k \in Rest : ~(k < m)
  BY <1>2, <1>3 DEF OpToRel
<1>5. m # 1 /\ m - 1 \in 1 .. n
  OBVIOUS
<1>6. m - 1 \in T
  BY <1>4, <1>5
<1>7. (m - 1) + 1 \in T
  BY <1>5, <1>6
<1> QED
  BY <1>7

\* What f is made of: the first value, and each from the one before it.
Iterates(f, n, base, step) == f[1] = base /\ \A i \in 1 .. n : f[i + 1] = step[i][f[i]]

\* There is such a function.
LEMMA IterationExists ==
  ASSUME NEW n \in Nat, NEW S, NEW base \in S, NEW step \in [1 .. n -> [S -> S]]
  PROVE  \E f \in [1 .. n + 1 -> S] : Iterates(f, n, base, step)
<1> DEFINE Reaches(f, m) == f[1] = base /\ \A i \in 1 .. m - 1 : f[i + 1] = step[i][f[i]]
           T == {m \in 1 .. n + 1 : \E f \in [1 .. m -> S] : Reaches(f, m)}
<1>1. 1 \in T
  <2> DEFINE f == [i \in 1 .. 1 |-> base]
  <2>1. f \in [1 .. 1 -> S] /\ Reaches(f, 1)
    OBVIOUS
  <2> HIDE DEF f
  <2> QED
    BY <2>1
<1>2. ASSUME NEW m \in 1 .. n, m \in T PROVE m + 1 \in T
  <2>1. PICK g \in [1 .. m -> S] : Reaches(g, m)
    BY <1>2
  <2> DEFINE s == step[m][g[m]]
             f == [i \in 1 .. m + 1 |-> IF i = m + 1 THEN s ELSE g[i]]
  <2>2. m + 1 \in 1 .. n + 1 /\ g[m] \in S /\ s \in S
    OBVIOUS
  <2>3. f \in [1 .. m + 1 -> S]
    BY <2>2
  <2>4. \A i \in 1 .. m : f[i] = g[i]
    OBVIOUS
  <2>5. f[1] = base /\ f[m + 1] = s
    BY <2>1
  <2>6. \A i \in 1 .. (m + 1) - 1 : f[i + 1] = step[i][f[i]]
    <3> HIDE DEF f
    <3> TAKE i \in 1 .. (m + 1) - 1
    <3>1. CASE i = m
      BY <2>4, <2>5, <3>1
    <3>2. CASE i \in 1 .. m - 1
      BY <2>1, <2>4, <3>2
    <3> QED
      BY <3>1, <3>2
  <2>7. Reaches(f, m + 1)
    BY <2>5, <2>6
  <2> HIDE DEF f
  <2> QED
    BY <2>2, <2>3, <2>7
<1> HIDE DEF T
<1>3. 1 .. n + 1 \subseteq T
  BY <1>1, <1>2, IntervalInduction
<1>4. n + 1 \in T
  BY <1>3
<1>5. PICK f \in [1 .. n + 1 -> S] : Reaches(f, n + 1)
  BY <1>4 DEF T
<1>6. \A i \in 1 .. n : i \in 1 .. (n + 1) - 1
  OBVIOUS
<1> QED
  BY <1>5, <1>6 DEF Iterates

\* Sums.
LEMMA SumExists ==
  ASSUME NEW n \in Nat, NEW w \in [1 .. n -> Nat]
  PROVE  \E f \in [1 .. n + 1 -> Nat] : f[1] = 0 /\ \A i \in 1 .. n : f[i + 1] = f[i] + w[i]
<1> DEFINE step == [i \in 1 .. n |-> [x \in Nat |-> x + w[i]]]
<1>1. step \in [1 .. n -> [Nat -> Nat]]
  OBVIOUS
<1>2. PICK f \in [1 .. n + 1 -> Nat] : Iterates(f, n, 0, step)
  <2> HIDE DEF step
  <2> QED
    BY <1>1, IterationExists
<1>3. f[1] = 0 /\ \A i \in 1 .. n : f[i + 1] = step[i][f[i]]
  <2> HIDE DEF step
  <2> QED
    BY <1>2 DEF Iterates
<1>4. ASSUME NEW i \in 1 .. n PROVE f[i + 1] = f[i] + w[i]
  <2>1. i \in 1 .. n + 1 /\ f[i] \in Nat
    OBVIOUS
  <2>2. f[i + 1] = step[i][f[i]]
    BY <1>3
  <2> QED
    BY <2>1, <2>2
<1> QED
  BY <1>3, <1>4

\* A sum is a number, and no summand is larger.
LEMMA SumBounds ==
  ASSUME NEW n \in Nat, NEW w \in [1 .. n -> Nat], NEW s,
         s = [i \in 1 .. n + 1 |-> IF i = 1 THEN 0 ELSE s[i - 1] + w[i - 1]]
  PROVE  s[n + 1] \in Nat /\ \A i \in 1 .. n : w[i] <= s[n + 1]
<1> DEFINE T == {m \in 1 .. n + 1 : s[m] \in Nat /\ \A i \in 1 .. m - 1 : w[i] <= s[m]}
<1>1. s[1] = 0 /\ \A m \in 1 .. n : s[m + 1] = s[m] + w[m]
  <2>1. \A i \in 1 .. n + 1 : s[i] = IF i = 1 THEN 0 ELSE s[i - 1] + w[i - 1]
    OBVIOUS
  <2>2. \A m \in 1 .. n : m + 1 \in 1 .. n + 1 /\ m + 1 # 1 /\ (m + 1) - 1 = m
    OBVIOUS
  <2>3. 1 \in 1 .. n + 1
    OBVIOUS
  <2> QED
    BY ONLY <2>1, <2>2, <2>3
<1> SUFFICES ASSUME TRUE PROVE n + 1 \in T
  <2>1. \A i \in 1 .. n : i \in 1 .. (n + 1) - 1
    OBVIOUS
  <2> QED
    BY <2>1
<1>2. 1 \in T
  BY ONLY <1>1, n \in Nat
<1>3. ASSUME NEW m \in 1 .. n, m \in T PROVE m + 1 \in T
  <2>1. s[m + 1] = s[m] + w[m] /\ s[m] \in Nat /\ w[m] \in Nat /\ m + 1 \in 1 .. n + 1
    BY ONLY <1>1, <1>3, n \in Nat, w \in [1 .. n -> Nat], m \in 1 .. n
  <2>2. ASSUME NEW i \in 1 .. (m + 1) - 1 PROVE w[i] <= s[m + 1]
    <3>1. CASE i = m
      BY <2>1, <3>1
    <3>2. CASE i \in 1 .. m - 1
      <4>1. w[i] <= s[m] /\ w[i] \in Nat
        BY <1>3, <3>2
      <4>2. \A j, k, l \in Nat : j <= k => j <= k + l
        OBVIOUS
      <4> QED
        BY <2>1, <4>1, <4>2
    <3> QED
      BY <3>1, <3>2
  <2> QED
    BY <2>1, <2>2
<1> HIDE DEF T
<1>4. 1 .. n + 1 \subseteq T
  BY <1>2, <1>3, IntervalInduction
<1> QED
  BY <1>4
(***************************************************************************)
(* Packing.                                                                *)
(***************************************************************************)
\* A section with its size and weight.
Type == {"directive", "core", "entities", "recall", "recent", "notes"}

Sec == [type : Type, size : Nat, weight : Nat]

\* The weights of what competes are added up.
LEMMA WeightSum ==
  ASSUME NEW sections \in Seq(Sec)
  PROVE  /\ TotalWeight(sections) \in Nat
         /\ \A i \in 1 .. Len(sections) :
              Negotiable(sections[i]) => sections[i].weight <= TotalWeight(sections)
<1> DEFINE n == Len(sections)
           v(i) == IF Negotiable(sections[i]) THEN sections[i].weight ELSE 0
           w == [i \in 1 .. n |-> v(i)]
           before[i \in 1 .. n + 1] == IF i = 1 THEN 0 ELSE before[i - 1] + v(i - 1)
<1>1. n \in Nat /\ w \in [1 .. n -> Nat] /\ \A i \in 1 .. n : w[i] = v(i)
  <2>1. n \in Nat /\ \A i \in 1 .. n : sections[i] \in Sec
    OBVIOUS
  <2>2. \A i \in 1 .. n : sections[i].weight \in Nat
    BY <2>1 DEF Sec
  <2> QED
    BY <2>1, <2>2
<1>2. TotalWeight(sections) = before[n + 1]
  BY Zenon DEF TotalWeight
<1>3. \A i \in 1 .. n : Negotiable(sections[i]) => v(i) = sections[i].weight
  OBVIOUS
<1> HIDE DEF n, v, w
<1>4. PICK f \in [1 .. n + 1 -> Nat] : f[1] = 0 /\ \A i \in 1 .. n : f[i + 1] = f[i] + w[i]
  BY <1>1, SumExists
<1>5. \A i \in 1 .. n + 1 : i # 1 => i - 1 \in 1 .. n /\ (i - 1) + 1 = i
  BY <1>1
<1>6. f = [i \in 1 .. n + 1 |-> IF i = 1 THEN 0 ELSE f[i - 1] + v(i - 1)]
  <2>1. ASSUME NEW i \in 1 .. n + 1
        PROVE  f[i] = IF i = 1 THEN 0 ELSE f[i - 1] + v(i - 1)
    BY <1>1, <1>4, <1>5
  <2> QED
    BY <2>1
<1>7. before = [i \in 1 .. n + 1 |-> IF i = 1 THEN 0 ELSE before[i - 1] + v(i - 1)]
  BY <1>6, Zenon
<1>8. before = [i \in 1 .. n + 1 |-> IF i = 1 THEN 0 ELSE before[i - 1] + w[i - 1]]
  <2> HIDE DEF before
  <2>1. \A i \in 1 .. n + 1 :
          (IF i = 1 THEN 0 ELSE before[i - 1] + v(i - 1))
            = (IF i = 1 THEN 0 ELSE before[i - 1] + w[i - 1])
    BY <1>1, <1>5
  <2> QED
    BY <1>7, <2>1
<1>9. before[n + 1] \in Nat /\ \A i \in 1 .. n : w[i] <= before[n + 1]
  <2> HIDE DEF before
  <2> QED
    BY <1>1, <1>8, SumBounds
<1> HIDE DEF before
<1> QED
  BY <1>1, <1>2, <1>3, <1>9 DEF n
\* The bytes of what may not be left out are added up.
LEMMA FirmSum ==
  ASSUME NEW sections \in Seq(Sec)
  PROVE  FirmBytes(sections) \in Nat
<1> DEFINE n == Len(sections)
           v(i) == IF Firm(sections[i]) THEN Heading + sections[i].size ELSE 0
           w == [i \in 1 .. n |-> v(i)]
           before[i \in 1 .. n + 1] == IF i = 1 THEN 0 ELSE before[i - 1] + v(i - 1)
<1>1. n \in Nat /\ w \in [1 .. n -> Nat] /\ \A i \in 1 .. n : w[i] = v(i)
  <2>1. n \in Nat /\ \A i \in 1 .. n : sections[i] \in Sec
    OBVIOUS
  <2>2. \A i \in 1 .. n : Heading + sections[i].size \in Nat
    BY <2>1, BytesAssumption DEF Sec
  <2> QED
    BY <2>1, <2>2
<1>2. FirmBytes(sections) = before[n + 1]
  BY Zenon DEF FirmBytes
<1> HIDE DEF n, v, w
<1>3. PICK f \in [1 .. n + 1 -> Nat] : f[1] = 0 /\ \A i \in 1 .. n : f[i + 1] = f[i] + w[i]
  BY <1>1, SumExists
<1>4. \A i \in 1 .. n + 1 : i # 1 => i - 1 \in 1 .. n /\ (i - 1) + 1 = i
  BY <1>1
<1>5. f = [i \in 1 .. n + 1 |-> IF i = 1 THEN 0 ELSE f[i - 1] + v(i - 1)]
  <2>1. ASSUME NEW i \in 1 .. n + 1
        PROVE  f[i] = IF i = 1 THEN 0 ELSE f[i - 1] + v(i - 1)
    BY <1>1, <1>3, <1>4
  <2> QED
    BY <2>1
<1>6. before = [i \in 1 .. n + 1 |-> IF i = 1 THEN 0 ELSE before[i - 1] + v(i - 1)]
  BY <1>5, Zenon
<1>7. before = [i \in 1 .. n + 1 |-> IF i = 1 THEN 0 ELSE before[i - 1] + w[i - 1]]
  <2> HIDE DEF before
  <2>1. \A i \in 1 .. n + 1 :
          (IF i = 1 THEN 0 ELSE before[i - 1] + v(i - 1))
            = (IF i = 1 THEN 0 ELSE before[i - 1] + w[i - 1])
    BY <1>1, <1>4
  <2> QED
    BY <1>6, <2>1
<1>8. before[n + 1] \in Nat
  <2> HIDE DEF before
  <2> QED
    BY <1>1, <1>7, SumBounds
<1> HIDE DEF before
<1> QED
  BY <1>2, <1>8

\* A share is no more than there is.
LEMMA ShareBound ==
  ASSUME NEW r \in Nat, NEW w \in Nat, NEW t \in Nat, 0 < w, w <= t
  PROVE  (r * w) \div t \in Nat /\ (r * w) \div t <= r
<1> DEFINE p == r * w
           q == p \div t
<1>1. p \in Nat /\ t > 0
  OBVIOUS
<1>2. q \in Int /\ t * q <= p /\ p < t * (q + 1)
  <2> HIDE DEF p
  <2> QED
    BY <1>1
<1>3. 0 <= q
  <2> SUFFICES ASSUME q + 1 <= 0 PROVE FALSE
    BY <1>2
  <2> HIDE DEF p, q
  <2>1. t * (q + 1) <= 0
    BY <1>1, <1>2
  <2> QED
    BY <1>1, <1>2, <2>1
<1>4. p <= t * r
  OBVIOUS
<1>5. q <= r
  <2> SUFFICES ASSUME r + 1 <= q PROVE FALSE
    BY <1>2
  <2> HIDE DEF p, q
  <2>1. t * (r + 1) <= t * q
    BY <1>1, <1>2
  <2>2. t * (r + 1) = t * r + t
    OBVIOUS
  <2> QED
    BY <1>1, <1>2, <1>4, <2>1, <2>2
<1> QED
  BY <1>2, <1>3, <1>5

\* What is used and what remains; if all went well they are within the limit.
Budget == [used : Int, remaining : Int, roomy : BOOLEAN]

InBudget(b, max) == b.roomy => b.used + b.remaining <= max /\ 0 <= b.remaining

\* One section more keeps to its share.
LEMMA PackWithin ==
  ASSUME NEW b \in Budget, NEW s \in Sec, NEW total \in Nat, NEW max \in Nat,
         Negotiable(s), s.weight <= total
  PROVE  Pack(b, s, total) \in Budget /\ (InBudget(b, max) => InBudget(Pack(b, s, total), max))
<1>1. /\ b.used \in Int /\ b.remaining \in Int /\ b.roomy \in BOOLEAN
      /\ s.size \in Nat /\ s.weight \in Nat /\ 0 < s.weight
      /\ Heading \in Nat /\ Notice \in Nat
  BY BytesAssumption DEF Budget, Sec, Negotiable, Firm
<1>2. CASE b.remaining <= 0
  BY <1>2 DEF Pack
<1>3. CASE ~(b.remaining <= 0)
  <2> DEFINE share == Share(s, b.remaining, total)
             cost == Heading + PackedSize(s, share)
             rest == b.remaining - cost
             used == b.used + cost
             roomy == b.roomy /\ share >= Heading + Notice
             c == [b EXCEPT !.remaining = rest, !.used = used, !.roomy = roomy]
  <2>1. Pack(b, s, total) = c
    BY <1>3 DEF Pack
  <2>2. share \in Nat /\ share <= b.remaining
    <3>1. b.remaining \in Nat
      BY <1>1, <1>3
    <3> QED
      BY <1>1, <3>1, ShareBound DEF Share
  <2> HIDE DEF share
  <2>3. cost \in Nat
    BY <1>1, <2>2 DEF PackedSize, BodyBudget, NotBelowZero
  <2>4. share >= Heading + Notice => cost <= share
    BY <1>1, <2>2 DEF PackedSize, BodyBudget, NotBelowZero
  <2> HIDE DEF cost
  <2>5. rest \in Int /\ used \in Int
    BY <1>1, <2>3
  <2>6. roomy \in BOOLEAN
    BY Zenon
  <2>7. roomy => b.roomy /\ cost <= share
    BY <2>4, Zenon
  <2>8. InBudget(b, max) /\ roomy => used + rest <= max /\ 0 <= rest
    <3> SUFFICES ASSUME InBudget(b, max), roomy PROVE used + rest <= max /\ 0 <= rest
      BY Zenon
    <3>1. b.roomy /\ cost <= share
      BY <2>7, Zenon
    <3>2. b.used + b.remaining <= max
      BY <3>1, Zenon DEF InBudget
    <3> HIDE DEF roomy
    <3> QED
      BY <1>1, <2>2, <2>3, <3>1, <3>2
  <2> HIDE DEF rest, used, roomy
  <2>9. c \in Budget /\ c.used = used /\ c.remaining = rest /\ c.roomy = roomy
    BY <2>5, <2>6 DEF Budget
  <2> HIDE DEF c
  <2> QED
    BY <2>1, <2>8, <2>9, Zenon DEF InBudget
<1> QED
  BY <1>2, <1>3

\* The sections together keep to the limit.
LEMMA BudgetWithin ==
  ASSUME NEW sections \in Seq(Sec), NEW max \in Nat
  PROVE  AllocateBudget(sections, max).roomy => AllocateBudget(sections, max).used <= max
<1> DEFINE n == Len(sections)
           firm == FirmBytes(sections)
           total == TotalWeight(sections)
           base == [used |-> firm, remaining |-> NotBelowZero(max - firm), roomy |-> firm <= max]
           next(b, i) == IF Negotiable(sections[i]) THEN Pack(b, sections[i], total) ELSE b
           step == [i \in 1 .. n |-> [b \in Budget |-> next(b, i)]]
           before[i \in 1 .. n + 1] == IF i = 1 THEN base ELSE next(before[i - 1], i - 1)
<1>1. n \in Nat /\ \A i \in 1 .. n : sections[i] \in Sec
  OBVIOUS
<1>2. firm \in Nat /\ total \in Nat
      /\ \A i \in 1 .. n : Negotiable(sections[i]) => sections[i].weight <= total
  BY WeightSum, FirmSum
<1>3. AllocateBudget(sections, max) = before[n + 1]
  BY Zenon DEF AllocateBudget
<1> HIDE DEF n, firm, total
<1>4. base \in Budget /\ InBudget(base, max)
  <2> DEFINE rest == NotBelowZero(max - firm)
             roomy == firm <= max
  <2>1. rest \in Int /\ 0 <= rest /\ (firm <= max => firm + rest <= max)
    BY <1>2 DEF NotBelowZero
  <2>2. roomy \in BOOLEAN
    BY <1>2
  <2>3. roomy => firm + rest <= max
    BY <2>1, Zenon
  <2> HIDE DEF rest, roomy
  <2>4. base \in Budget /\ base.used = firm /\ base.remaining = rest /\ base.roomy = roomy
    BY <1>2, <2>1, <2>2 DEF rest, roomy, Budget
  <2> HIDE DEF base
  <2> QED
    BY <2>1, <2>3, <2>4, Zenon DEF InBudget
<1>5. \A i \in 1 .. n, b \in Budget :
        next(b, i) \in Budget /\ (InBudget(b, max) => InBudget(next(b, i), max))
  BY <1>1, <1>2, PackWithin
<1> HIDE DEF base, next
<1>6. step \in [1 .. n -> [Budget -> Budget]]
  BY <1>5
<1>7. \A i \in 1 .. n, b \in Budget : step[i][b] = next(b, i)
  OBVIOUS
<1> HIDE DEF step
<1>8. PICK f \in [1 .. n + 1 -> Budget] : Iterates(f, n, base, step)
  BY <1>1, <1>4, <1>6, IterationExists
<1>9. f[1] = base /\ \A i \in 1 .. n : f[i + 1] = next(f[i], i)
  <2>1. \A i \in 1 .. n : i \in 1 .. n + 1
    BY <1>1
  <2> QED
    BY <1>7, <1>8, <2>1 DEF Iterates
<1>10. \A i \in 1 .. n + 1 : i # 1 => i - 1 \in 1 .. n /\ (i - 1) + 1 = i
  BY <1>1
<1>11. f = [i \in 1 .. n + 1 |-> IF i = 1 THEN base ELSE next(f[i - 1], i - 1)]
  <2>1. ASSUME NEW i \in 1 .. n + 1
        PROVE  f[i] = IF i = 1 THEN base ELSE next(f[i - 1], i - 1)
    BY <1>9, <1>10
  <2> QED
    BY <2>1
<1>12. before = [i \in 1 .. n + 1 |-> IF i = 1 THEN base ELSE next(before[i - 1], i - 1)]
  BY <1>11, Zenon
<1> HIDE DEF before
<1>13. before[1] = base /\ \A m \in 1 .. n : before[m + 1] = next(before[m], m)
  <2>1. \A i \in 1 .. n + 1 : before[i] = IF i = 1 THEN base ELSE next(before[i - 1], i - 1)
    BY <1>12
  <2>2. \A m \in 1 .. n : m + 1 \in 1 .. n + 1 /\ m + 1 # 1 /\ (m + 1) - 1 = m
    BY <1>1
  <2>3. 1 \in 1 .. n + 1
    BY <1>1
  <2>4. \A m \in 1 .. n : before[m + 1] = next(before[(m + 1) - 1], (m + 1) - 1)
    BY <2>1, <2>2
  <2> QED
    BY <2>1, <2>2, <2>3, <2>4
<1> DEFINE T == {m \in 1 .. n + 1 : before[m] \in Budget /\ InBudget(before[m], max)}
<1>14. 1 \in T
  BY <1>1, <1>4, <1>13
<1>15. ASSUME NEW m \in 1 .. n, m \in T PROVE m + 1 \in T
  <2>1. m + 1 \in 1 .. n + 1
    BY <1>1
  <2> QED
    BY <1>5, <1>13, <1>15, <2>1
<1>16. n + 1 \in T
  <2> HIDE DEF T
  <2>1. 1 .. n + 1 \subseteq T
    BY <1>1, <1>14, <1>15, IntervalInduction
  <2> QED
    BY <1>1, <2>1
<1>17. before[n + 1] \in Budget /\ InBudget(before[n + 1], max)
  BY <1>16
<1> QED
  BY <1>3, <1>17 DEF Budget, InBudget

\* The sections of a briefing have sizes.
LEMMA RenderedSections ==
  ASSUME Inv, NEW c \in Caller, NEW core \in Nat, NEW entities \in Nat, NEW notes \in Nat
  PROVE  Rendered(c, core, entities, notes) \in Seq(Sec)
<1>1. ASSUME NEW type \in Type, NEW size \in Nat PROVE Section(type, size) \in Sec
  <2>1. Weight(type) \in Nat
    <3>1. CASE type = "entities"
      BY <3>1 DEF Weight
    <3>2. CASE type = "recall"
      BY <3>2 DEF Weight
    <3>3. CASE type \in {"recent", "notes"}
      BY <3>3 DEF Weight
    <3>4. CASE type \notin {"entities", "recall", "recent", "notes"}
      BY <3>4 DEF Weight
    <3> QED
      BY <3>1, <3>2, <3>3, <3>4
  <2> QED
    BY <2>1 DEF Section, Sec
<1>2. call[c] \in Call
  BY DEF Inv, TypeOK
<1>3. call[c].items \subseteq Fact /\ call[c].recent \in Nat
  BY <1>2, Parts
<1>4. Cardinality(call[c].items) \in Nat
  BY <1>3, ContextAssumption, FS_Subset, FS_CardinalityType
<1>5. RecallCap \in Nat /\ RecentCap \in Nat
  BY ContextAssumption
<1>6. /\ Shown(Cardinality(call[c].items), RecallCap, c) \in Nat
      /\ Shown(call[c].recent, RecentCap, c) \in Nat
      /\ (IF Compact(c) THEN 0 ELSE notes) \in Nat
  BY <1>3, <1>4, <1>5 DEF Shown, Smaller
<1> DEFINE directive == Section("directive", 1)
           coreMemory == Section("core", core)
           a1 == Section("entities", entities)
           a2 == Section("recall", Shown(Cardinality(call[c].items), RecallCap, c))
           a3 == Section("recent", Shown(call[c].recent, RecentCap, c))
           a4 == Section("notes", IF Compact(c) THEN 0 ELSE notes)
           first  == <<directive>>
           second == IF core > 0 THEN <<coreMemory>> ELSE << >>
           others == <<a1, a2, a3, a4>>
<1>7. /\ directive \in Sec /\ coreMemory \in Sec
      /\ a1 \in Sec /\ a2 \in Sec /\ a3 \in Sec /\ a4 \in Sec
  <2>1. /\ "directive" \in Type /\ "core" \in Type /\ "entities" \in Type
        /\ "recall" \in Type /\ "recent" \in Type /\ "notes" \in Type
    BY DEF Type
  <2>2. 1 \in Nat
    OBVIOUS
  <2> QED
    BY <1>1, <1>6, <2>1, <2>2, Zenon
<1>8. Rendered(c, core, entities, notes) = first \o second \o others
  BY Zenon DEF Rendered
<1> HIDE DEF directive, coreMemory, a1, a2, a3, a4
<1>9. first \in Seq(Sec) /\ second \in Seq(Sec) /\ others \in Seq(Sec)
  BY <1>7
<1> HIDE DEF first, second, others
<1> QED
  BY <1>8, <1>9

\* A briefing keeps to its bytes wherever it is so at all: each section takes no
\* more than its share of what the ones before it left, and a share is no more
\* than that.
THEOREM BudgetIsKept == Spec => []BudgetKept
<1>1. Inv => BudgetKept
  <2> SUFFICES ASSUME Inv, NEW c \in Caller, NEW core \in Sizes, NEW entities \in Sizes,
                      NEW notes \in Sizes, NEW max \in Budgets
               PROVE  LET b == AllocateBudget(Rendered(c, core, entities, notes), max)
                      IN  b.roomy => b.used <= max
    BY DEF BudgetKept
  <2>1. Sizes \subseteq Nat /\ Budgets \subseteq Nat
    BY ContextAssumption
  <2>2. core \in Nat /\ entities \in Nat /\ notes \in Nat /\ max \in Nat
    BY <2>1
  <2>3. Rendered(c, core, entities, notes) \in Seq(Sec)
    BY <2>2, RenderedSections
  <2> QED
    BY <2>2, <2>3, BudgetWithin
<1> QED
  BY <1>1, ContextInvariant, PTL
=============================================================================
