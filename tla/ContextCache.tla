----------------------------- MODULE ContextCache -----------------------------
(***************************************************************************)
(* The cache between a compact briefing and the expansions of its          *)
(* sections: a Map whose order is that of use, of at most MaxEntries       *)
(* entries that live for Ttl.  A cache is a sequence of records with a key *)
(* and an age, the least recently used first.                              *)
(***************************************************************************)
EXTENDS Naturals, SequencesExt

CONSTANTS MaxEntries, Ttl

ASSUME CacheAssumption == MaxEntries \in Nat \ {0} /\ Ttl \in Nat

\* Map.delete: a key has one entry at most.
Without(cache, key) ==
  IF \E i \in DOMAIN cache : cache[i].key = key
  THEN RemoveAt(cache, CHOOSE i \in DOMAIN cache : cache[i].key = key)
  ELSE cache

Entries(cache, key) == {e \in ToSet(cache) : e.key = key}

Expired(e) == e.age > Ttl

\* The entry that a get of this key returns, if any.
Hits(cache, key) == {e \in Entries(cache, key) : ~Expired(e)}

\* Variant: use makes an entry young again.
Renewed(e) == [e EXCEPT !.age = 0]

\* Variant: nothing is evicted.
KeepAll(cache) == cache

Evict(cache) ==
  IF Len(cache) > MaxEntries THEN SubSeq(cache, Len(cache) - MaxEntries + 1, Len(cache))
    ELSE cache

\* What a hit does to the entry: only its place in the order changes.
Used(e) == e

\* get: an expired entry is dropped, another one becomes the last used.
AfterGet(cache, key) ==
  IF Hits(cache, key) = {} THEN Without(cache, key)
  ELSE Append(Without(cache, key), Used(CHOOSE e \in Hits(cache, key) : TRUE))

\* put
AfterPut(cache, entry) == Evict(Append(Without(cache, entry.key), entry))

\* Time passes; beyond its life an entry does not get older.
Aged(cache) ==
  [i \in DOMAIN cache |->
     [cache[i] EXCEPT !.age = IF @ > Ttl THEN @ ELSE @ + 1]]
==============================================================================
