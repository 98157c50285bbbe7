--------------------------- MODULE LRUCacheProofs ---------------------------
(***************************************************************************)
(* The list and the trie of LRUCache agree in every reachable state, for   *)
(* every capacity, key set and value set.                                  *)
(***************************************************************************)
EXTENDS LRUCache, TLAPS

LruInv == LruTypeOK /\ ListMatchesTrie

KeysIn(s)   == {s[i] : i \in 1..Len(s)}
Distinct(s) == \A i, j \in 1..Len(s) : s[i] = s[j] => i = j

\* A list built by a function constructor over 1..n has length n.
LEMMA BuiltList ==
  ASSUME NEW S, NEW n \in Nat, NEW s \in [1..n -> S]
  PROVE  s \in Seq(S) /\ Len(s) = n
OBVIOUS

\* A cached key is somewhere in the list.
LEMMA PositionOfCached ==
  ASSUME LruInv, NEW k, Cached(k)
  PROVE  Position(k) \in 1..Len(lrulist) /\ lrulist[Position(k)] = k
BY DEF LruInv, LruTypeOK, ListMatchesTrie, Cached, Position

\* Moving a cached key to the front permutes the list.
LEMMA MovedFrontPermutes ==
  ASSUME LruInv, NEW k, Cached(k)
  PROVE  /\ MovedFront(k) \in Seq(Keys)
         /\ Len(MovedFront(k)) = Len(lrulist)
         /\ KeysIn(MovedFront(k)) = KeysIn(lrulist)
         /\ Distinct(MovedFront(k))
<1> DEFINE n == Len(lrulist)
           s == MovedFront(k)
           p == Position(k)
<1>1. /\ n \in Nat
      /\ lrulist \in [1..n -> Keys]
      /\ k \in Keys
  BY DEF LruInv, LruTypeOK, Cached
<1>2. p \in 1..n /\ lrulist[p] = k
  BY PositionOfCached
<1>3. \A i \in 1..n : s[i] = IF i = 1 THEN k ELSE IF i <= p THEN lrulist[i - 1] ELSE lrulist[i]
  BY DEF MovedFront
<1>4. s \in [1..n -> Keys]
  BY <1>1, <1>2 DEF MovedFront
<1>5. s \in Seq(Keys) /\ Len(s) = n
  BY <1>1, <1>4, BuiltList
<1>6. \A i, j \in 1..n : lrulist[i] = lrulist[j] => i = j
  BY DEF LruInv, ListMatchesTrie
<1>7. KeysIn(s) \subseteq KeysIn(lrulist)
  <2>1. \A i \in 1..n : \E j \in 1..n : s[i] = lrulist[j]
    <3> TAKE i \in 1..n
    <3>1. CASE i = 1
      BY <1>2, <1>3, <3>1
    <3>2. CASE i # 1 /\ i <= p
      <4>1. i - 1 \in 1..n
        BY <1>1, <3>2
      <4> QED BY <1>3, <3>2, <4>1
    <3>3. CASE i # 1 /\ ~(i <= p)
      BY <1>3, <3>3
    <3> QED BY <3>1, <3>2, <3>3
  <2> QED BY <1>5, <2>1 DEF KeysIn
<1>8. KeysIn(lrulist) \subseteq KeysIn(s)
  <2>1. \A j \in 1..n : \E i \in 1..n : s[i] = lrulist[j]
    <3> TAKE j \in 1..n
    <3>1. CASE j = p
      BY <1>1, <1>2, <1>3, <3>1
    <3>2. CASE j < p
      <4>1. j + 1 \in 1..n /\ j + 1 # 1 /\ j + 1 <= p /\ (j + 1) - 1 = j
        BY <1>1, <1>2, <3>2
      <4> QED BY <1>3, <4>1
    <3>3. CASE j > p
      <4>1. j # 1 /\ ~(j <= p)
        BY <1>1, <1>2, <3>3
      <4> QED BY <1>3, <4>1
    <3> QED BY <1>1, <1>2, <3>1, <3>2, <3>3
  <2> QED BY <1>5, <2>1 DEF KeysIn
<1>9. Distinct(s)
  <2> SUFFICES ASSUME NEW i \in 1..n, NEW j \in 1..n, s[i] = s[j]
               PROVE  i = j
    BY <1>5 DEF Distinct
  <2> DEFINE src(x) == IF x = 1 THEN p ELSE IF x <= p THEN x - 1 ELSE x
  <2>1. \A x \in 1..n : src(x) \in 1..n /\ s[x] = lrulist[src(x)]
    BY <1>1, <1>2, <1>3
  <2>2. src(i) = src(j)
    BY <1>6, <2>1
  <2> QED BY <1>1, <1>2, <2>2
<1> QED BY <1>5, <1>7, <1>8, <1>9

\* The empty cache.
LEMMA LruInvInit ==
  ASSUME CapacityAssumption, LruInit
  PROVE  LruInv
<1>1. Len(lrulist) = 0 /\ lrulist \in Seq(Keys)
  BY DEF LruInit
<1>2. DOMAIN trie = {}
  BY DEF LruInit
<1>3. trie = [k \in DOMAIN trie |-> trie[k]]
  BY DEF LruInit
<1> QED BY <1>1, <1>2, <1>3 DEF LruInv, LruTypeOK, ListMatchesTrie, CapacityAssumption

\* A list that was permuted, over a trie with the same keys, keeps the
\* agreement.
LEMMA PermutedAgrees ==
  ASSUME LruInv, NEW k, Cached(k), lrulist' = MovedFront(k), DOMAIN trie' = DOMAIN trie
  PROVE  lrulist' \in Seq(Keys) /\ ListMatchesTrie'
<1>1. /\ lrulist' \in Seq(Keys)
      /\ Len(lrulist') = Len(lrulist)
      /\ KeysIn(lrulist') = KeysIn(lrulist)
      /\ Distinct(lrulist')
  BY MovedFrontPermutes
<1>2. KeysIn(lrulist) = DOMAIN trie /\ Len(lrulist) <= CacheSize
  BY DEF LruInv, ListMatchesTrie, KeysIn
<1>3. KeysIn(lrulist') = DOMAIN trie' /\ Len(lrulist') <= CacheSize
  BY <1>1, <1>2
<1> QED BY <1>1, <1>3 DEF ListMatchesTrie, KeysIn, Distinct

\* A hit keeps the invariant.
LEMMA TouchKeeps ==
  ASSUME LruInv, NEW k, Cached(k), Touch(k)
  PROVE  LruInv'
<1>1. lrulist' = MovedFront(k) /\ trie' = trie
  BY DEF Touch
<1>2. lrulist' \in Seq(Keys) /\ ListMatchesTrie'
  BY <1>1, PermutedAgrees
<1> QED BY <1>1, <1>2 DEF LruInv, LruTypeOK, Node

\* Overwriting a cached value keeps the invariant.
LEMMA ReplaceKeeps ==
  ASSUME LruInv, NEW k \in Keys, NEW v \in Values, NEW new_kv \in BOOLEAN, Replace(k, v, new_kv)
  PROVE  LruInv'
<1>1. /\ DOMAIN trie' = DOMAIN trie
      /\ trie' = [x \in DOMAIN trie' |-> trie'[x]]
      /\ \A x \in DOMAIN trie' : trie'[x] \in Node
  BY DEF LruInv, LruTypeOK, Replace, Node, Cached
<1>2. lrulist' \in Seq(Keys) /\ ListMatchesTrie'
  BY <1>1, PermutedAgrees DEF Replace
<1> QED BY <1>1, <1>2 DEF LruInv, LruTypeOK, Node

\* A new key, with or without a victim, keeps the invariant.
LEMMA InsertKeeps ==
  ASSUME CapacityAssumption, LruInv,
         NEW k \in Keys, NEW v \in Values, NEW new_kv \in BOOLEAN, Insert(k, v, new_kv)
  PROVE  LruInv'
<1> DEFINE n    == Len(lrulist)
           stay == IF Full THEN n - 1 ELSE n
           rest == IF Full THEN DOMAIN trie \ {Back} ELSE DOMAIN trie
<1>1. /\ n \in Nat /\ n <= CacheSize /\ CacheSize \in Nat \ {0}
      /\ lrulist \in [1..n -> Keys]
      /\ DOMAIN trie \subseteq Keys
      /\ \A x \in DOMAIN trie : trie[x] \in Node
  BY DEF LruInv, LruTypeOK, ListMatchesTrie, CapacityAssumption
<1>2. stay \in Nat /\ stay <= n /\ stay + 1 <= CacheSize
  <2>1. CASE Full
    <3>1. stay = n - 1 /\ n = CacheSize
      BY <2>1 DEF Full
    <3> QED BY <1>1, <3>1
  <2>2. CASE ~Full
    <3>1. stay = n /\ n # CacheSize
      BY <2>2 DEF Full
    <3> HIDE DEF n, stay
    <3> QED BY <1>1, <3>1
  <2> QED BY <2>1, <2>2
<1>3. /\ lrulist' = [i \in 1..(stay + 1) |-> IF i = 1 THEN k ELSE lrulist[i - 1]]
      /\ trie' = [x \in rest \cup {k} |->
                    IF x = k THEN [value |-> v, has_modified |-> new_kv] ELSE trie[x]]
      /\ k \notin DOMAIN trie
  BY DEF Insert, Cached
<1>4. lrulist' \in [1..(stay + 1) -> Keys]
  BY <1>1, <1>2, <1>3
<1>5. lrulist' \in Seq(Keys) /\ Len(lrulist') = stay + 1
  BY <1>2, <1>4, BuiltList
<1>6. {lrulist[i] : i \in 1..n} = DOMAIN trie /\ \A i, j \in 1..n : lrulist[i] = lrulist[j] => i = j
  BY DEF LruInv, ListMatchesTrie
<1>7. {lrulist[i] : i \in 1..stay} = rest
  <2>1. CASE Full
    <3>1. Back = lrulist[n] /\ n = CacheSize /\ stay = n - 1
      BY <2>1 DEF Full, Back
    <3> HIDE DEF n, stay
    <3>2. \A i \in 1..stay : i \in 1..n /\ i # n
      BY <1>1, <3>1
    <3>3. \A i \in 1..n : i # n => i \in 1..stay
      BY <1>1, <3>1
    <3>4. \A i \in 1..stay : lrulist[i] \in DOMAIN trie \ {Back}
      BY <1>1, <1>6, <3>1, <3>2
    <3>5. \A x \in DOMAIN trie \ {Back} : \E i \in 1..stay : lrulist[i] = x
      BY <1>6, <3>1, <3>3
    <3> QED BY <2>1, <3>4, <3>5
  <2>2. CASE ~Full
    BY <1>6, <2>2
  <2> QED BY <2>1, <2>2
<1>8. \A i \in 1..(stay + 1) : lrulist'[i] = IF i = 1 THEN k ELSE lrulist[i - 1]
  BY <1>3
<1>9. {lrulist'[i] : i \in 1..(stay + 1)} = rest \cup {k}
  <2>1. \A i \in 1..(stay + 1) : lrulist'[i] \in rest \cup {k}
    <3> TAKE i \in 1..(stay + 1)
    <3>1. i # 1 => i - 1 \in 1..stay
      BY <1>2
    <3> QED BY <1>7, <1>8, <3>1
  <2>2. \A x \in rest : \E i \in 1..(stay + 1) : lrulist'[i] = x
    <3> TAKE x \in rest
    <3>1. PICK j \in 1..stay : lrulist[j] = x
      BY <1>7
    <3>2. j + 1 \in 1..(stay + 1) /\ j + 1 # 1 /\ (j + 1) - 1 = j
      BY <1>2
    <3> QED BY <1>8, <3>1, <3>2
  <2>3. 1 \in 1..(stay + 1) /\ lrulist'[1] = k
    BY <1>2, <1>8
  <2> QED BY <2>1, <2>2, <2>3
<1>10. \A i, j \in 1..(stay + 1) : lrulist'[i] = lrulist'[j] => i = j
  <2> TAKE i, j \in 1..(stay + 1)
  <2>1. \A x \in 1..stay : lrulist[x] # k /\ x \in 1..n
    BY <1>1, <1>2, <1>3, <1>6
  <2>2. (i # 1 => i - 1 \in 1..stay) /\ (j # 1 => j - 1 \in 1..stay)
    BY <1>2
  <2>3. CASE i = 1 \/ j = 1
    BY <1>8, <2>1, <2>2, <2>3
  <2>4. CASE i # 1 /\ j # 1
    <3>1. lrulist'[i] = lrulist[i - 1] /\ lrulist'[j] = lrulist[j - 1]
      BY <1>8, <2>4
    <3>2. lrulist[i - 1] = lrulist[j - 1] => i - 1 = j - 1
      BY <1>6, <2>1, <2>2, <2>4
    <3> QED BY <1>2, <3>1, <3>2
  <2> QED BY <2>3, <2>4
<1>11. /\ DOMAIN trie' = rest \cup {k}
       /\ rest \cup {k} \subseteq Keys
       /\ trie' = [x \in DOMAIN trie' |-> trie'[x]]
  BY <1>1, <1>3
<1>12. \A x \in DOMAIN trie' : trie'[x] \in Node
  BY <1>1, <1>3 DEF Node
<1> QED BY <1>2, <1>5, <1>9, <1>10, <1>11, <1>12 DEF LruInv, LruTypeOK, ListMatchesTrie

\* The list and the trie of lru.h hold the same keys, once each, and never
\* more than the capacity; both keep their types.
THEOREM ListAlwaysMatchesTrie == LruSpec => [](LruTypeOK /\ ListMatchesTrie)
<1>1. LruInit => LruInv
  BY CapacityAssumption, LruInvInit
<1>2. LruInv /\ [LruNext]_<<lrulist, trie>> => LruInv'
  <2> USE CapacityAssumption
  <2> SUFFICES ASSUME LruInv, [LruNext]_<<lrulist, trie>>
               PROVE  LruInv'
    OBVIOUS
  <2>1. CASE \E k \in Keys : Cached(k) /\ Touch(k)
    BY <2>1, TouchKeeps
  <2>2. CASE \E k \in Keys, v \in Values, new_kv \in BOOLEAN : LruPut(k, v, new_kv)
    BY <2>2, ReplaceKeeps, InsertKeeps DEF LruPut
  <2>3. CASE UNCHANGED <<lrulist, trie>>
    BY <2>3 DEF LruInv, LruTypeOK, ListMatchesTrie, Node
  <2> QED BY <2>1, <2>2, <2>3 DEF LruNext
<1> QED BY <1>1, <1>2, PTL DEF LruSpec, LruInv

=============================================================================
