------------------------------ MODULE LRUCache ------------------------------
(***************************************************************************)
(* The write-back cache in front of the tables: class LRUCache             *)
(* (include/cache/lru.h), a list of nodes in order of use and a trie from  *)
(* keys to nodes.  lrulist is the order of the keys, trie what the node of *)
(* a key carries; module Trie has the tree behind it.                      *)
(***************************************************************************)
EXTENDS Integers, Sequences

CONSTANTS
  Keys,
  Values,      \* what a node carries, the parameter T
  CacheSize    \* capacity_

ASSUME CapacityAssumption == CacheSize \in Nat \ {0}

VARIABLES
  lrulist,     \* keys, most recently used first
  trie         \* key -> [value, has_modified]

Node == [value : Values, has_modified : BOOLEAN]

Position(k) == CHOOSE p \in 1..Len(lrulist) : lrulist[p] = k

\* Mutant: a hit leaves the node where it is.
KeptInPlace(k) == lrulist

MovedFront(k) ==
  [i \in 1..Len(lrulist) |->
     IF i = 1 THEN k ELSE IF i <= Position(k) THEN lrulist[i - 1] ELSE lrulist[i]]

Cached(k) == k \in DOMAIN trie
\* Mutant: the capacity is off by one.
FullLate  == Len(lrulist) = CacheSize + 1

Full      == Len(lrulist) = CacheSize
Back      == lrulist[Len(lrulist)]

\* The key put() drops to make room, if any.
Dropped(k) == IF ~Cached(k) /\ Full THEN {Back} ELSE {}

\* Mutant: a modified node is dropped like any other.
EvictedNever(k) == {}

\* The key put() hands back to its caller: the dropped one, if it was modified.
Evicted(k) == {x \in Dropped(k) : trie[x].has_modified}

\* get() of a cached key: to the front.
Touch(k) ==
  /\ lrulist' = MovedFront(k)
  /\ trie' = trie

\* Mutant: writing to a clean node leaves it clean.
ReplaceStaysClean(k, v, new_kv) ==
  /\ Cached(k)
  /\ lrulist' = MovedFront(k)
  /\ trie' = [trie EXCEPT ![k] = [value |-> v, has_modified |-> @.has_modified /\ new_kv]]

\* put() of a cached key: overwritten in place, to the front.
Replace(k, v, new_kv) ==
  /\ Cached(k)
  /\ lrulist' = MovedFront(k)
  /\ trie' = [trie EXCEPT ![k] = [value |-> v, has_modified |-> new_kv]]

\* put() of a new key: the node at the back makes room, modified or not.
Insert(k, v, new_kv) ==
  /\ ~Cached(k)
  /\ LET stay == IF Full THEN Len(lrulist) - 1 ELSE Len(lrulist)
         rest == IF Full THEN DOMAIN trie \ {Back} ELSE DOMAIN trie
     IN  /\ lrulist' = [i \in 1..(stay + 1) |-> IF i = 1 THEN k ELSE lrulist[i - 1]]
         /\ trie' = [x \in rest \cup {k} |->
                       IF x = k THEN [value |-> v, has_modified |-> new_kv] ELSE trie[x]]

LruPut(k, v, new_kv) == Replace(k, v, new_kv) \/ Insert(k, v, new_kv)

LruInit == lrulist = <<>> /\ trie = [k \in {} |-> k]

LruNext ==
  \/ \E k \in Keys : Cached(k) /\ Touch(k)
  \/ \E k \in Keys, v \in Values, new_kv \in BOOLEAN : LruPut(k, v, new_kv)

LruSpec == LruInit /\ [][LruNext]_<<lrulist, trie>>

-----------------------------------------------------------------------------

\* The list and the map stay typed.
LruTypeOK ==
  /\ lrulist \in Seq(Keys)
  /\ DOMAIN trie \subseteq Keys
  /\ trie = [k \in DOMAIN trie |-> trie[k]]
  /\ \A k \in DOMAIN trie : trie[k] \in Node

\* lru.h keeps each key twice, in the list and in the trie: they name the
\* same keys, no key is listed twice, and the capacity is never exceeded.
ListMatchesTrie ==
  /\ {lrulist[i] : i \in 1..Len(lrulist)} = DOMAIN trie
  /\ \A i, j \in 1..Len(lrulist) : lrulist[i] = lrulist[j] => i = j
  /\ Len(lrulist) <= CacheSize

=============================================================================
