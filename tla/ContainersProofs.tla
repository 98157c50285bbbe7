-------------------------- MODULE ContainersProofs --------------------------
(***************************************************************************)
(* Theorems about what MCContainers puts side by side, for every value of  *)
(* its constants.                                                          *)
(***************************************************************************)
EXTENDS MCContainers, LRUCacheProofs, ConnectorProofs, FiniteSetTheorems

-----------------------------------------------------------------------------
(* The order of the cache.                                                 *)

\* The clock of the history is ahead of every use it recorded; without that a
\* key moved to the front would not be the last one used.
RecencyInv ==
  /\ LruInv
  /\ uses \in Nat
  /\ used \in [Keys -> 0..uses]
  /\ BackIsLeastRecent

\* The calls that go through the list: k is used now.
UsedNow(k) == uses' = uses + 1 /\ used' = [used EXCEPT ![k] = uses + 1]

LEMMA ClockAdvances ==
  ASSUME RecencyInv, NEW k \in Keys, UsedNow(k)
  PROVE  /\ uses' \in Nat
         /\ used' \in [Keys -> 0..(uses')]
         /\ used'[k] = uses + 1
         /\ \A x \in Keys : x # k => used'[x] = used[x]
         /\ \A x \in Keys : used[x] \in Nat /\ used[x] < uses + 1
BY DEF RecencyInv, UsedNow

\* A node that is moved to the front leaves the order of the others as it was.
LEMMA MovedFrontByUse ==
  ASSUME RecencyInv, NEW k \in Keys, Cached(k), UsedNow(k),
         lrulist' = MovedFront(k), DOMAIN trie' = DOMAIN trie
  PROVE  BackIsLeastRecent'
<1> DEFINE n == Len(lrulist)
           s == MovedFront(k)
           p == Position(k)
           src(x) == IF x = 1 THEN p ELSE IF x <= p THEN x - 1 ELSE x
<1>1. LruInv /\ n \in Nat /\ p \in 1..n /\ lrulist[p] = k
  BY PositionOfCached DEF RecencyInv, LruInv, LruTypeOK
<1>2. \A i \in 1..n : lrulist[i] \in Keys
  BY <1>1 DEF LruInv, LruTypeOK
<1>3. Len(s) = n
  BY <1>1, MovedFrontPermutes
<1>4. \A x \in 1..n : src(x) \in 1..n /\ s[x] = lrulist[src(x)]
  BY <1>1 DEF MovedFront
<1>5. \A i, j \in 1..n : lrulist[i] = lrulist[j] => i = j
  BY <1>1 DEF LruInv, ListMatchesTrie
<1>6. \A x \in 2..n : src(x) # p /\ s[x] # k /\ s[x] \in Keys
  <2> TAKE x \in 2..n
  <2>1. x \in 1..n /\ src(x) # p
    BY <1>1
  <2> QED BY <1>1, <1>2, <1>4, <1>5, <2>1
<1>7. ASSUME NEW i \in 1..n, NEW j \in 1..n, i < j
      PROVE  used'[s[i]] > used'[s[j]]
  <2>1. j \in 2..n /\ used'[s[j]] = used[s[j]]
    BY <1>1, <1>6, <1>7, ClockAdvances
  <2>2. CASE i = 1
    <3>1. s[i] = k
      BY <1>1, <1>4, <2>2
    <3> QED BY <1>6, <2>1, <3>1, ClockAdvances
  <2>3. CASE i # 1
    <3>1. i \in 2..n /\ used'[s[i]] = used[s[i]]
      BY <1>1, <1>6, <2>3, ClockAdvances
    <3>2. src(i) < src(j)
      BY <1>1, <1>7, <2>1, <3>1
    <3>3. used[lrulist[src(i)]] > used[lrulist[src(j)]]
      BY <1>4, <3>2 DEF RecencyInv, BackIsLeastRecent
    <3> QED BY <1>4, <2>1, <3>1, <3>3
  <2> QED BY <2>2, <2>3
<1>8. ASSUME NEW x \in Keys \ DOMAIN trie, NEW j \in 1..n
      PROVE  used'[x] < used'[s[j]]
  <2>1. x # k /\ used'[x] = used[x] /\ used[x] \in Nat /\ used[x] < uses + 1
    BY ClockAdvances DEF Cached
  <2>2. CASE s[j] = k
    BY <2>1, <2>2, ClockAdvances
  <2>3. CASE s[j] # k
    <3>1. s[j] \in Keys /\ used'[s[j]] = used[s[j]]
      BY <1>2, <1>4, <2>3, ClockAdvances
    <3>2. used[x] < used[lrulist[src(j)]]
      BY <1>4 DEF RecencyInv, BackIsLeastRecent
    <3> QED BY <1>4, <2>1, <3>1, <3>2
  <2> QED BY <2>2, <2>3
<1> QED BY <1>3, <1>7, <1>8 DEF BackIsLeastRecent

\* A node at the back was used before all others, so dropping it leaves the
\* cached keys the last ones used.
LEMMA InsertByUse ==
  ASSUME RecencyInv, NEW k \in Keys, NEW v \in Values, NEW new_kv \in BOOLEAN,
         Insert(k, v, new_kv), UsedNow(k)
  PROVE  BackIsLeastRecent'
<1> DEFINE n    == Len(lrulist)
           stay == IF Full THEN n - 1 ELSE n
           rest == IF Full THEN DOMAIN trie \ {Back} ELSE DOMAIN trie
<1>1. n \in Nat /\ \A i \in 1..n : lrulist[i] \in DOMAIN trie /\ lrulist[i] \in Keys
  BY DEF RecencyInv, LruInv, LruTypeOK, ListMatchesTrie
<1>2. stay \in Nat /\ stay <= n
  <2>1. Full => n > 0
    BY <1>1, CapacityAssumption DEF Full
  <2> QED BY <1>1, <2>1
<1>3. /\ lrulist' = [i \in 1..(stay + 1) |-> IF i = 1 THEN k ELSE lrulist[i - 1]]
      /\ DOMAIN trie' = rest \cup {k}
      /\ k \notin DOMAIN trie
  BY DEF Insert, Cached
<1>4. Len(lrulist') = stay + 1
  <2>1. lrulist' \in [1..(stay + 1) -> Keys]
    BY <1>1, <1>2, <1>3
  <2> HIDE DEF stay
  <2> QED BY <1>2, <2>1, BuiltList
<1>5. \A i \in 2..(stay + 1) :
        /\ i - 1 \in 1..n /\ i - 1 <= stay /\ lrulist'[i] = lrulist[i - 1]
        /\ used'[lrulist'[i]] = used[lrulist[i - 1]]
  <2> TAKE i \in 2..(stay + 1)
  <2>1. i - 1 \in 1..n /\ i - 1 <= stay /\ lrulist'[i] = lrulist[i - 1]
    BY <1>1, <1>2, <1>3
  <2>2. lrulist[i - 1] \in Keys /\ lrulist[i - 1] # k
    BY <1>1, <1>3, <2>1
  <2> QED BY <2>1, <2>2, ClockAdvances
<1>6. lrulist'[1] = k /\ used'[k] = uses + 1
  BY <1>2, <1>3, ClockAdvances
<1>7. ASSUME NEW i \in 1..(stay + 1), NEW j \in 1..(stay + 1), i < j
      PROVE  used'[lrulist'[i]] > used'[lrulist'[j]]
  <2>1. j \in 2..(stay + 1) /\ used[lrulist[j - 1]] < uses + 1 /\ used[lrulist[j - 1]] \in Nat
    BY <1>1, <1>2, <1>5, <1>7, ClockAdvances
  <2>2. CASE i = 1
    BY <1>5, <1>6, <2>1, <2>2 DEF RecencyInv
  <2>3. CASE i # 1
    <3>1. i \in 2..(stay + 1) /\ i - 1 < j - 1
      BY <1>2, <1>7, <2>3
    <3>2. used[lrulist[i - 1]] > used[lrulist[j - 1]]
      BY <1>5, <2>1, <3>1 DEF RecencyInv, BackIsLeastRecent
    <3> QED BY <1>5, <2>1, <3>1, <3>2
  <2> QED BY <2>2, <2>3
<1>8. ASSUME NEW x \in Keys \ DOMAIN trie', NEW j \in 1..(stay + 1)
      PROVE  used'[x] < used'[lrulist'[j]]
  <2>1. x \in Keys /\ x # k /\ used'[x] = used[x] /\ used[x] \in Nat /\ used[x] < uses + 1
    BY <1>3, ClockAdvances
  <2>2. CASE j = 1
    BY <1>6, <2>1, <2>2 DEF RecencyInv
  <2>3. CASE j # 1
    <3>1. j \in 2..(stay + 1) /\ j - 1 \in 1..n /\ j - 1 <= stay
      BY <1>2, <1>5, <2>3
    <3>2. used[x] < used[lrulist[j - 1]]
      <4>1. CASE x \notin DOMAIN trie
        BY <2>1, <3>1, <4>1 DEF RecencyInv, BackIsLeastRecent
      <4>2. CASE x \in DOMAIN trie
        <5>1. Full /\ x = lrulist[n]
          BY <1>3, <4>2 DEF Back
        <5>2. stay = n - 1
          BY <5>1
        <5>3. n \in 1..n /\ j - 1 < n
          BY <1>1, <3>1, <5>2
        <5> QED BY <3>1, <5>1, <5>3 DEF RecencyInv, BackIsLeastRecent
      <4> QED BY <4>1, <4>2
    <3> QED BY <1>5, <2>1, <3>1, <3>2
  <2> QED BY <1>2, <2>2, <2>3
<1> QED BY <1>4, <1>7, <1>8 DEF BackIsLeastRecent

LEMMA CacheStepKeeps == RecencyInv /\ CacheStep => RecencyInv'
<1> SUFFICES ASSUME RecencyInv, CacheStep PROVE RecencyInv'
  OBVIOUS
<1>1. PICK k \in Keys : (MCGet(k) \/ MCPut(k)) /\ used' = [used EXCEPT ![k] = uses + 1]
  BY DEF CacheStep
<1>2. UsedNow(k)
  BY <1>1 DEF UsedNow, CacheStep, Use
<1>3. LruInv /\ uses' \in Nat /\ used' \in [Keys -> 0..(uses')]
  BY <1>2, ClockAdvances DEF RecencyInv
<1>4. CASE MCGet(k)
  <2>1. Cached(k) /\ Touch(k) /\ lrulist' = MovedFront(k) /\ trie' = trie
    BY <1>4 DEF MCGet, Touch
  <2>2. LruInv'
    BY <1>3, <2>1, TouchKeeps
  <2>3. BackIsLeastRecent'
    BY <1>2, <2>1, MovedFrontByUse
  <2> QED BY <1>3, <2>2, <2>3 DEF RecencyInv
<1>5. CASE MCPut(k)
  <2>1. PICK v \in Values, new_kv \in BOOLEAN : LruPut(k, v, new_kv)
    BY <1>5 DEF MCPut
  <2>2. CASE Replace(k, v, new_kv)
    <3>1. LruInv'
      BY <1>3, <2>2, ReplaceKeeps
    <3>2. Cached(k) /\ lrulist' = MovedFront(k) /\ DOMAIN trie' = DOMAIN trie
      BY <2>2 DEF Replace
    <3>3. BackIsLeastRecent'
      BY <1>2, <3>2, MovedFrontByUse
    <3> QED BY <1>3, <3>1, <3>3 DEF RecencyInv
  <2>3. CASE Insert(k, v, new_kv)
    <3>1. LruInv'
      BY <1>3, <2>3, InsertKeeps, CapacityAssumption
    <3>2. BackIsLeastRecent'
      BY <1>2, <2>3, InsertByUse
    <3> QED BY <1>3, <3>1, <3>2 DEF RecencyInv
  <2> QED BY <2>1, <2>2, <2>3 DEF LruPut
<1> QED BY <1>1, <1>4, <1>5

\* A call on another container is a use of no key.
LEMMA OthersKeepRecency ==
  ASSUME RecencyInv, uses' = uses \/ uses' = uses + 1, UNCHANGED <<lrulist, trie, used>>
  PROVE  RecencyInv'
<1>1. LruInv'
  BY DEF RecencyInv, LruInv, LruTypeOK, ListMatchesTrie, Node
<1>2. uses' \in Nat /\ 0..uses \subseteq 0..(uses') /\ used \in [Keys -> 0..uses]
  BY DEF RecencyInv
<1>3. used' \in [Keys -> 0..(uses')]
  BY <1>2
<1>4. BackIsLeastRecent'
  BY DEF RecencyInv, BackIsLeastRecent
<1> QED BY <1>1, <1>2, <1>3, <1>4 DEF RecencyInv

LEMMA RecencyInit == MCInit => RecencyInv
<1> SUFFICES ASSUME MCInit PROVE RecencyInv
  OBVIOUS
<1>1. LruInv /\ Len(lrulist) = 0
  BY LruInvInit, CapacityAssumption DEF MCInit, LruInit
<1>2. uses = 0 /\ used = [k \in Keys |-> 0]
  BY DEF MCInit
<1> QED BY <1>1, <1>2 DEF RecencyInv, BackIsLeastRecent

LEMMA RecencyStep == RecencyInv /\ [MCNext]_vars => RecencyInv'
<1> SUFFICES ASSUME RecencyInv, [MCNext]_vars PROVE RecencyInv'
  OBVIOUS
<1>1. CASE CacheStep
  BY <1>1, CacheStepKeeps
<1>2. CASE NameStep
  BY <1>2, OthersKeepRecency DEF NameStep, Use
<1>3. CASE ListStep
  BY <1>3, OthersKeepRecency DEF ListStep, Use, idle
<1>4. CASE MakeTable
  BY <1>4, OthersKeepRecency DEF MakeTable, Use, idle
<1>5. CASE FileStep
  BY <1>5, OthersKeepRecency DEF FileStep, Use, idle
<1>6. CASE ClientStep
  BY <1>6, OthersKeepRecency DEF ClientStep, Use, idle
<1>7. CASE UNCHANGED vars
  BY <1>7, OthersKeepRecency DEF vars
<1> QED BY <1>1, <1>2, <1>3, <1>4, <1>5, <1>6, <1>7 DEF MCNext

\* For every capacity and set of keys, the list of lru.h is ordered by last use,
\* so put() (lru.h:238) drops the key unused for longest, and no cached key was
\* used before one that is not.
THEOREM CacheKeepsTheLastUsed == MCSpec => []BackIsLeastRecent
<1>1. RecencyInv => BackIsLeastRecent
  BY DEF RecencyInv
<1> QED BY <1>1, RecencyInit, RecencyStep, PTL DEF MCSpec

-----------------------------------------------------------------------------
(* Integers as bytes.                                                      *)

\* A recursion that runs forward from each place of 1..n to a later one, or
\* ends there.
Runs(f, n, S, on, next, end, step) ==
  /\ f \in [1..n -> S]
  /\ \A i \in 1..n : f[i] = IF i \in on THEN step[i][f[next[i]]] ELSE end[i]

LEMMA RecursionAhead ==
  ASSUME NEW S, NEW n \in Nat, NEW on \in SUBSET (1..n),
         NEW next \in [on -> 1..n], \A i \in on : i < next[i],
         NEW end \in [1..n -> S], NEW step \in [on -> [S -> S]]
  PROVE  \E f : Runs(f, n, S, on, next, end, step)
<1> DEFINE Holds(f, i) == f[i] = IF i \in on THEN step[i][f[next[i]]] ELSE end[i]
           Solves(f, m) == f \in [1..n -> S] /\ \A i \in 1..n : n - m < i => Holds(f, i)
           Bad == {m \in 0..n : ~\E f : Solves(f, m)}
<1>1. SUFFICES Bad = {}
  <2>1. n \notin Bad
    BY <1>1
  <2>2. PICK f : Solves(f, n)
    BY <2>1
  <2>3. \A i \in 1..n : n - n < i
    OBVIOUS
  <2> QED BY <2>2, <2>3 DEF Runs
<1>2. SUFFICES ASSUME Bad # {}
               PROVE  FALSE
  OBVIOUS
<1>3. PICK m \in Bad : \A y \in Bad : m <= y
  <2>1. Bad \in SUBSET Nat
    OBVIOUS
  <2> HIDE DEF Bad
  <2> QED BY <1>2, <2>1, LeastOf
<1>4. m # 0
  <2>1. Solves(end, 0)
    OBVIOUS
  <2> QED BY <2>1
<1>5. m \in 1..n /\ m - 1 \in 0..n /\ m - 1 < m
  BY <1>4
<1>6. m - 1 \notin Bad
  <2> HIDE DEF Bad
  <2> QED BY <1>3, <1>5
<1>7. PICK f : Solves(f, m - 1)
  <2> HIDE DEF Solves
  <2> QED BY <1>5, <1>6
<1>8. PICK j : j = n - m + 1
  OBVIOUS
<1>9. j \in 1..n /\ \A i \in 1..n : (n - m < i <=> i = j \/ j < i) /\ (n - (m - 1) < i <=> j < i)
  BY <1>5, <1>8
<1>10. PICK v : v = IF j \in on THEN step[j][f[next[j]]] ELSE end[j]
  OBVIOUS
<1>11. f \in [1..n -> S] /\ v \in S
  <2>1. f \in [1..n -> S]
    BY <1>7
  <2>2. CASE j \in on
    <3>1. next[j] \in 1..n /\ step[j] \in [S -> S]
      BY <2>2
    <3> QED BY <1>10, <2>1, <2>2, <3>1
  <2>3. CASE j \notin on
    BY <1>9, <1>10, <2>1, <2>3
  <2> QED BY <2>1, <2>2, <2>3
<1>12. PICK g : g = [f EXCEPT ![j] = v]
  OBVIOUS
<1>13. g \in [1..n -> S] /\ g[j] = v /\ \A i \in 1..n : i # j => g[i] = f[i]
  BY <1>9, <1>11, <1>12
<1>14. \A i \in on : next[i] \in 1..n /\ i < next[i] /\ i \in 1..n
  OBVIOUS
<1>15. ASSUME NEW i \in 1..n, n - m < i
       PROVE  Holds(g, i)
  <2>1. CASE i = j
    BY <1>9, <1>10, <1>13, <1>14, <2>1
  <2>2. CASE j < i
    <3>1. Holds(f, i)
      BY <1>7, <1>9, <2>2
    <3>2. g[i] = f[i]
      BY <1>9, <1>13, <2>2
    <3>3. i \in on => g[next[i]] = f[next[i]]
      BY <1>9, <1>13, <1>14, <2>2
    <3> QED BY <3>1, <3>2, <3>3
  <2> QED BY <1>9, <1>15, <2>1, <2>2
<1>16. Solves(g, m)
  BY <1>13, <1>15
<1> QED BY <1>3, <1>5, <1>16

\* What is left of a value, digit by digit.
Shifts(left, value, base, n) ==
  /\ left \in [1..n -> Nat] /\ left[1] = value
  /\ \A i \in 2..n : left[i] = left[i - 1] \div base

LEMMA ShiftedShifts ==
  ASSUME NEW value \in Nat, NEW base \in Nat \ {0}, NEW n \in Nat \ {0}
  PROVE  Shifts(Shifted(value, base, n), value, base, n)
<1>1. PICK shift : shift = [x \in Nat |-> x \div base]
  OBVIOUS
<1>2. PICK G : G = [i \in 1..(n - 1) |-> shift]
  OBVIOUS
<1>20. shift \in [Nat -> Nat] /\ n - 1 \in Nat
  <2>1. \A x \in Nat : x \div base \in Nat
    OBVIOUS
  <2> QED BY <1>1, <2>1
<1>21. G \in [1..(n - 1) -> [Nat -> Nat]]
  BY <1>2, <1>20
<1>3. PICK f : Unfolds(f, n - 1, Nat, value, G)
  BY <1>20, <1>21, RecursionUp
<1>4. PICK h : h = [i \in 1..n |-> f[i - 1]]
  OBVIOUS
<1>5. \A i \in 1..n : i - 1 \in 0..(n - 1) /\ (i # 1 => i - 1 \in 1..(n - 1) /\ i - 1 \in 1..n)
  OBVIOUS
<1>6. f \in [0..(n - 1) -> Nat] /\ f[0] = value /\ \A i \in 1..(n - 1) : f[i] = f[i - 1] \div base
  <2>1. f \in [0..(n - 1) -> Nat] /\ f[0] = value
    BY <1>3 DEF Unfolds
  <2>2. ASSUME NEW i \in 1..(n - 1)
        PROVE  f[i] = f[i - 1] \div base
    <3>1. f[i] = shift[f[i - 1]]
      BY <1>2, <1>3 DEF Unfolds
    <3>2. f[i - 1] \in Nat
      <4>1. i - 1 \in 0..(n - 1)
        OBVIOUS
      <4> QED BY <2>1, <4>1
    <3> QED BY <1>1, <3>1, <3>2
  <2> QED BY <2>1, <2>2
<1>7. \A i \in 1..n : h[i] = IF i = 1 THEN value ELSE h[i - 1] \div base
  BY <1>4, <1>5, <1>6
<1>8. [i \in 1..n |-> h[i]] = [i \in 1..n |-> IF i = 1 THEN value ELSE h[i - 1] \div base]
  BY <1>7
<1>9. h = [i \in 1..n |-> IF i = 1 THEN value ELSE h[i - 1] \div base]
  BY <1>4, <1>8
<1>10. PICK g : g = Shifted(value, base, n)
  OBVIOUS
<1>11. g = [i \in 1..n |-> IF i = 1 THEN value ELSE g[i - 1] \div base]
  BY <1>9, <1>10 DEF Shifted
<1>12. 1 \in 1..n /\ (2..n) \subseteq 1..n /\ \A i \in 2..n : i # 1
  OBVIOUS
<1>13. g[1] = value /\ \A i \in 2..n : g[i] = g[i - 1] \div base
  BY <1>11, <1>12
<1>14. g \in [1..n -> Nat]
  <2> DEFINE Bad == {i \in 1..n : g[i] \notin Nat}
  <2>1. SUFFICES ASSUME Bad # {}
                 PROVE  FALSE
    BY <1>11
  <2>2. PICK m \in Bad : \A y \in Bad : m <= y
    <3>1. Bad \in SUBSET Nat
      OBVIOUS
    <3> HIDE DEF Bad
    <3> QED BY <2>1, <3>1, LeastOf
  <2>3. m \in 2..n /\ m - 1 \in 1..n /\ m - 1 < m
    BY <1>13, <2>2
  <2>4. m - 1 \notin Bad
    <3> HIDE DEF Bad
    <3> QED BY <2>2, <2>3
  <2>5. g[m - 1] \in Nat
    BY <2>3, <2>4
  <2> QED BY <1>13, <2>2, <2>3, <2>5
<1> QED BY <1>10, <1>13, <1>14 DEF Shifts

\* The sums from each byte on.
Sums(from, s, at, n, base) ==
  /\ from \in [1..(n + 1) -> Nat] /\ from[n + 1] = 0
  /\ \A i \in 1..n : from[i] = (s[at + i - 1] % base) + base * from[i + 1]

LEMMA SummedSums ==
  ASSUME NEW s \in Seq(Nat), NEW at \in Nat \ {0}, NEW n \in Nat, at + n - 1 <= Len(s), NEW base \in Nat \ {0}
  PROVE  \E from : Sums(from, s, at, n, base) /\ Summed(s, at, n, base) = from[1]
<1>1. \A i \in 1..n : at + i - 1 \in 1..Len(s) /\ s[at + i - 1] \in Nat
  <2> TAKE i \in 1..n
  <2>1. Len(s) \in Nat
    OBVIOUS
  <2>2. at + i - 1 \in 1..Len(s)
    BY <2>1
  <2> QED BY <2>2
<1>2. PICK next : next = [i \in 1..n |-> i + 1]
  OBVIOUS
<1>3. PICK end : end = [i \in 1..(n + 1) |-> 0]
  OBVIOUS
<1>4. PICK step : step = [i \in 1..n |-> [x \in Nat |-> (s[at + i - 1] % base) + base * x]]
  OBVIOUS
<1>5. step \in [1..n -> [Nat -> Nat]]
  <2>1. \A i \in 1..n : \A x \in Nat : (s[at + i - 1] % base) + base * x \in Nat
    <3> TAKE i \in 1..n
    <3> TAKE x \in Nat
    <3>1. s[at + i - 1] % base \in Nat
      BY <1>1
    <3>2. base * x \in Nat
      OBVIOUS
    <3> QED BY <3>1, <3>2
  <2> QED BY <1>4, <2>1
<1>6. /\ next \in [1..n -> 1..(n + 1)] /\ (\A i \in 1..n : i < next[i]) /\ end \in [1..(n + 1) -> Nat]
      /\ 1..n \in SUBSET (1..(n + 1)) /\ n + 1 \in Nat
  BY <1>2, <1>3
<1>7. PICK f : Runs(f, n + 1, Nat, 1..n, next, end, step)
  BY <1>5, <1>6, RecursionAhead
<1>8. f \in [1..(n + 1) -> Nat] /\ \A i \in 1..(n + 1) :
        f[i] = IF i > n THEN 0 ELSE (s[at + i - 1] % base) + base * f[i + 1]
  <2>1. f \in [1..(n + 1) -> Nat]
    BY <1>7 DEF Runs
  <2>2. ASSUME NEW i \in 1..(n + 1)
        PROVE  f[i] = IF i > n THEN 0 ELSE (s[at + i - 1] % base) + base * f[i + 1]
    <3>1. CASE i \in 1..n
      <4>1. f[i] = step[i][f[i + 1]] /\ f[i + 1] \in Nat
        BY <1>2, <1>7, <2>1, <3>1 DEF Runs
      <4> QED BY <1>4, <3>1, <4>1
    <3>2. CASE i \notin 1..n
      BY <1>3, <1>7, <3>2 DEF Runs
    <3> QED BY <3>1, <3>2
  <2> QED BY <2>1, <2>2
<1>9. [i \in 1..(n + 1) |-> f[i]] = [i \in 1..(n + 1) |-> IF i > n THEN 0 ELSE (s[at + i - 1] % base) + base * f[i + 1]]
  BY <1>8
<1>10. f = [i \in 1..(n + 1) |-> IF i > n THEN 0 ELSE (s[at + i - 1] % base) + base * f[i + 1]]
  BY <1>8, <1>9
<1>11. PICK g : /\ g = [i \in 1..(n + 1) |-> IF i > n THEN 0 ELSE (s[at + i - 1] % base) + base * g[i + 1]]
                /\ Summed(s, at, n, base) = g[1]
  BY <1>10 DEF Summed
<1>12. g[n + 1] = 0 /\ \A i \in 1..n : g[i] = (s[at + i - 1] % base) + base * g[i + 1]
  <2>1. n + 1 \in 1..(n + 1) /\ n + 1 > n /\ \A i \in 1..n : i \in 1..(n + 1) /\ ~(i > n)
    OBVIOUS
  <2> QED BY <1>11, <2>1
<1>13. g \in [1..(n + 1) -> Nat]
  <2> DEFINE Bad == {k \in 0..n : g[n + 1 - k] \notin Nat}
  <2>1. SUFFICES ASSUME Bad # {}
                 PROVE  FALSE
    <3>1. \A i \in 1..(n + 1) : n + 1 - i \in 0..n /\ n + 1 - (n + 1 - i) = i
      OBVIOUS
    <3>2. \A i \in 1..(n + 1) : g[i] \in Nat
      BY <2>1, <3>1
    <3> QED BY <1>11, <3>2
  <2>2. PICK m \in Bad : \A y \in Bad : m <= y
    <3>1. Bad \in SUBSET Nat
      OBVIOUS
    <3> HIDE DEF Bad
    <3> QED BY <2>1, <3>1, LeastOf
  <2>3. m \in 1..n /\ m - 1 \in 0..n /\ m - 1 < m
    <3>1. 0 \notin Bad
      BY <1>12
    <3> QED BY <2>2, <3>1
  <2>4. m - 1 \notin Bad
    <3> HIDE DEF Bad
    <3> QED BY <2>2, <2>3
  <2>5. PICK i : i = n + 1 - m
    OBVIOUS
  <2>6. i \in 1..n /\ n + 1 - (m - 1) = i + 1
    BY <2>3, <2>5
  <2>7. g[i + 1] \in Nat
    BY <2>3, <2>4, <2>6
  <2>8. g[i] = step[i][g[i + 1]]
    BY <1>4, <1>12, <2>6, <2>7
  <2>9. g[i] \in Nat
    BY <1>5, <2>6, <2>7, <2>8
  <2> QED BY <2>2, <2>5, <2>9
<1> QED BY <1>11, <1>12, <1>13 DEF Sums

LEMMA ModFacts ==
  ASSUME NEW x \in Nat, NEW base \in Nat \ {0}
  PROVE  /\ x % base \in 0..(base - 1)
         /\ x < base => x % base = x
         /\ x = (x % base) + base * (x \div base)
<1>1. base \in Nat /\ base > 0
  OBVIOUS
<1>2. x % base \in 0..(base - 1) /\ x = (x % base) + base * (x \div base) /\ x \div base \in Nat
  BY <1>1
<1>3. ASSUME x < base
      PROVE  x % base = x
  <2>1. CASE base = 1
    BY <1>1, <1>3, <2>1
  <2>2. CASE base > 1
    BY <1>1, <1>3, <2>2
  <2> QED BY <1>1, <2>1, <2>2
<1> QED BY <1>2, <1>3

\* The sum of the digits that were shifted out is the value, if nothing is left.
LEMMA SumOfShifts ==
  ASSUME NEW value \in Nat, NEW base \in Nat \ {0}, NEW n \in Nat \ {0},
         NEW left, Shifts(left, value, base, n), left[n] < base,
         NEW s \in Seq(Nat), NEW at \in Nat \ {0}, at + n - 1 <= Len(s),
         \A i \in 1..n : s[at + i - 1] % base = left[i] % base
  PROVE  Summed(s, at, n, base) = value
<1>1. PICK from : Sums(from, s, at, n, base) /\ Summed(s, at, n, base) = from[1]
  BY SummedSums
<1> DEFINE Bad == {k \in 0..(n - 1) : from[n - k] # left[n - k]}
<1>2. SUFFICES ASSUME Bad # {}
               PROVE  FALSE
  <2>1. n - 1 \notin Bad
    BY <1>2
  <2>2. n - 1 \in 0..(n - 1) /\ n - (n - 1) = 1
    OBVIOUS
  <2>3. from[1] = left[1]
    BY <2>1, <2>2
  <2> QED BY <1>1, <2>3 DEF Shifts
<1>3. PICK m \in Bad : \A y \in Bad : m <= y
  <2>1. Bad \in SUBSET Nat
    OBVIOUS
  <2> HIDE DEF Bad
  <2> QED BY <1>2, <2>1, LeastOf
<1>4. PICK i : i = n - m
  OBVIOUS
<1>5. i \in 1..n /\ left[i] \in Nat
  BY <1>3, <1>4 DEF Shifts
<1>6. from[i] = (left[i] % base) + base * from[i + 1]
  BY <1>1, <1>5 DEF Sums
<1>7. CASE m = 0
  <2>1. i = n /\ from[i + 1] = 0
    BY <1>1, <1>4, <1>7 DEF Sums
  <2>3. left[i] % base = left[i]
    BY <1>5, <2>1, ModFacts
  <2>4. base * 0 = 0
    OBVIOUS
  <2>5. from[i] = left[i]
    BY <1>5, <1>6, <2>1, <2>3, <2>4
  <2> QED BY <1>3, <1>4, <2>5
<1>8. CASE m # 0
  <2>1. /\ m \in Nat /\ m - 1 \in 0..(n - 1) /\ m - 1 < m
        /\ n - (m - 1) = i + 1 /\ i + 1 \in 2..n /\ (i + 1) - 1 = i
    BY <1>3, <1>4, <1>8
  <2>2. m - 1 \notin Bad
    <3> HIDE DEF Bad
    <3> QED BY <1>3, <2>1
  <2>3. from[i + 1] = left[i + 1]
    BY <2>1, <2>2
  <2>4. left[i + 1] = left[i] \div base
    <3>1. \A j \in 2..n : left[j] = left[j - 1] \div base
      BY DEF Shifts
    <3>2. PICK j : j = i + 1
      OBVIOUS
    <3>3. j \in 2..n /\ j - 1 = i
      BY <2>1, <3>2
    <3> QED BY <3>1, <3>2, <3>3
  <2>6. from[i] = left[i]
    <3>1. from[i] = (left[i] % base) + base * (left[i] \div base)
      BY <1>6, <2>3, <2>4
    <3>2. left[i] = (left[i] % base) + base * (left[i] \div base)
      BY <1>5, ModFacts
    <3> QED BY <3>1, <3>2
  <2> QED BY <1>3, <1>4, <2>6
<1> QED BY <1>7, <1>8

\* base ^ n, which the provers do not unfold.
Power(base, n) == LET p[i \in 0..n] == IF i = 0 THEN 1 ELSE base * p[i - 1] IN p[n]

LEMMA PowerIsProduct ==
  ASSUME NEW base \in Nat \ {0}, NEW n \in Nat
  PROVE  \E p \in [0..n -> Nat] : p[0] = 1 /\ (\A i \in 1..n : p[i] = base * p[i - 1]) /\ Power(base, n) = p[n]
<1>1. PICK times : times = [x \in Nat |-> base * x]
  OBVIOUS
<1>2. PICK G : G = [i \in 1..n |-> times]
  OBVIOUS
<1>3. times \in [Nat -> Nat]
  BY <1>1
<1>4. G \in [1..n -> [Nat -> Nat]]
  BY <1>2, <1>3
<1>5. PICK f : Unfolds(f, n, Nat, 1, G)
  BY <1>4, RecursionUp
<1>6. f \in [0..n -> Nat] /\ f[0] = 1 /\ \A i \in 1..n : f[i] = base * f[i - 1]
  <2>1. f \in [0..n -> Nat] /\ f[0] = 1
    BY <1>5 DEF Unfolds
  <2>2. ASSUME NEW i \in 1..n
        PROVE  f[i] = base * f[i - 1]
    <3>1. f[i] = times[f[i - 1]] /\ i - 1 \in 0..n
      BY <1>2, <1>5 DEF Unfolds
    <3>2. f[i - 1] \in Nat
      BY <2>1, <3>1
    <3> QED BY <1>1, <3>1, <3>2
  <2> QED BY <2>1, <2>2
<1>7. [i \in 0..n |-> f[i]] = [i \in 0..n |-> IF i = 0 THEN 1 ELSE base * f[i - 1]]
  BY <1>6
<1>8. f = [i \in 0..n |-> IF i = 0 THEN 1 ELSE base * f[i - 1]]
  BY <1>6, <1>7
<1>9. PICK g : g = [i \in 0..n |-> IF i = 0 THEN 1 ELSE base * g[i - 1]] /\ Power(base, n) = g[n]
  BY <1>8 DEF Power
<1>10. g[0] = 1 /\ \A i \in 1..n : g[i] = base * g[i - 1]
  <2>1. 0 \in 0..n /\ \A i \in 1..n : i \in 0..n /\ i # 0
    OBVIOUS
  <2> QED BY <1>9, <2>1
<1>11. g \in [0..n -> Nat]
  <2> DEFINE Bad == {i \in 0..n : g[i] \notin Nat}
  <2>1. SUFFICES ASSUME Bad # {}
                 PROVE  FALSE
    BY <1>9
  <2>2. PICK m \in Bad : \A y \in Bad : m <= y
    <3>1. Bad \in SUBSET Nat
      OBVIOUS
    <3> HIDE DEF Bad
    <3> QED BY <2>1, <3>1, LeastOf
  <2>3. m \in 1..n /\ m - 1 \in 0..n /\ m - 1 < m
    BY <1>10, <2>2
  <2>4. m - 1 \notin Bad
    <3> HIDE DEF Bad
    <3> QED BY <2>2, <2>3
  <2>5. g[m - 1] \in Nat
    BY <2>3, <2>4
  <2>6. base * g[m - 1] \in Nat
    BY <2>5
  <2> QED BY <1>10, <2>2, <2>3, <2>6
<1> QED BY <1>9, <1>10, <1>11

\* A value below base ^ n has n digits.
LEMMA DigitsAreEnough ==
  ASSUME NEW base \in Nat \ {0}, NEW n \in Nat \ {0}, NEW value \in Nat, value < Power(base, n),
         NEW left, Shifts(left, value, base, n)
  PROVE  left[n] < base
<1>1. PICK p \in [0..n -> Nat] : p[0] = 1 /\ (\A i \in 1..n : p[i] = base * p[i - 1]) /\ Power(base, n) = p[n]
  BY PowerIsProduct
<1> DEFINE Bad == {i \in 1..n : ~(left[i] < p[(n - i) + 1])}
<1>2. SUFFICES ASSUME Bad # {}
               PROVE  FALSE
  <2>1. left[n] < p[(n - n) + 1] /\ (n - n) + 1 = 1
    BY <1>2
  <2>2. p[1] = base * p[0] /\ base * 1 = base
    BY <1>1
  <2> QED BY <1>1, <2>1, <2>2
<1>3. PICK m \in Bad : \A y \in Bad : m <= y
  <2>1. Bad \in SUBSET Nat
    OBVIOUS
  <2> HIDE DEF Bad
  <2> QED BY <1>2, <2>1, LeastOf
<1>4. m # 1
  <2>1. left[1] < p[(n - 1) + 1]
    BY <1>1 DEF Shifts
  <2> QED BY <1>3, <2>1
<1>5. /\ m \in 2..n /\ m - 1 \in 1..n /\ m - 1 < m
      /\ (n - (m - 1)) + 1 \in 1..n /\ ((n - (m - 1)) + 1) - 1 = (n - m) + 1 /\ (n - m) + 1 \in 0..n
  BY <1>3, <1>4
<1>6. m - 1 \notin Bad
  <2> HIDE DEF Bad
  <2> QED BY <1>3, <1>5
<1>7. left[m - 1] < base * p[(n - m) + 1]
  BY <1>1, <1>5, <1>6
<1>8. left[m] = left[m - 1] \div base /\ left[m - 1] \in Nat /\ p[(n - m) + 1] \in Nat
  BY <1>1, <1>5 DEF Shifts
<1>9. \A x, c \in Nat : x < base * c => x \div base < c
  OBVIOUS
<1>10. left[m] < p[(n - m) + 1]
  BY <1>7, <1>8, <1>9
<1> QED BY <1>3, <1>10

\* The lengths a word can hold.
Fits(value) == value \in Nat /\ value < Power(ByteSize, FixedLen)

LEMMA FixedReadsBack ==
  ASSUME NEW value, Fits(value), NEW s \in Seq(Nat), NEW at \in Nat, Lies(s, at, SetFixed(value))
  PROVE  /\ SetFixed(value) \in Seq(Nat) /\ Len(SetFixed(value)) = FixedLen
         /\ HasFixed(s, at + 1) /\ GetFixed(s, at + 1) = value
<1>1. ByteSize \in Nat \ {0} /\ FixedLen \in Nat \ {0} /\ value \in Nat /\ value < Power(ByteSize, FixedLen)
  BY CodingAssumption DEF Fits
<1>2. PICK left : left = Shifted(value, ByteSize, FixedLen)
  OBVIOUS
<1>3. Shifts(left, value, ByteSize, FixedLen)
  BY <1>1, <1>2, ShiftedShifts
<1>4. left[FixedLen] < ByteSize
  BY <1>1, <1>3, DigitsAreEnough
<1>5. PICK d : d = SetFixed(value)
  OBVIOUS
<1>6. d = [i \in 1..FixedLen |-> left[i] % ByteSize]
  BY <1>2, <1>5 DEF SetFixed
<1>7. \A i \in 1..FixedLen : left[i] \in Nat /\ left[i] % ByteSize \in Nat
  BY <1>1, <1>3 DEF Shifts
<1>8. d \in [1..FixedLen -> Nat]
  BY <1>6, <1>7
<1>9. d \in Seq(Nat) /\ Len(d) = FixedLen
  BY <1>1, <1>8
<1>10. at + FixedLen <= Len(s) /\ \A i \in 1..FixedLen : s[at + i] = left[i] % ByteSize
  BY <1>5, <1>6, <1>9 DEF Lies
<1>11. PICK a : a = at + 1
  OBVIOUS
<1>12. a \in Nat \ {0} /\ \A i \in 1..FixedLen : a + i - 1 = at + i
  BY <1>1, <1>11
<1>13. a + FixedLen - 1 <= Len(s)
  <2>1. Len(s) \in Nat
    OBVIOUS
  <2> QED BY <1>1, <1>10, <1>11, <2>1
<1>14. \A i \in 1..FixedLen : s[a + i - 1] % ByteSize = left[i] % ByteSize
  <2>1. ASSUME NEW i \in 1..FixedLen
        PROVE  (left[i] % ByteSize) % ByteSize = left[i] % ByteSize
    <3>1. PICK y : y = left[i] % ByteSize
      OBVIOUS
    <3>2. y \in 0..(ByteSize - 1)
      BY <1>1, <1>7, <3>1, ModFacts
    <3>3. y \in Nat /\ y < ByteSize
      BY <1>1, <3>2
    <3>4. y % ByteSize = y
      BY <1>1, <3>3, ModFacts
    <3> QED BY <3>1, <3>4
  <2> QED BY <1>10, <1>12, <2>1
<1>15. Summed(s, a, FixedLen, ByteSize) = value
  BY <1>1, <1>3, <1>4, <1>12, <1>13, <1>14, SumOfShifts
<1> QED BY <1>5, <1>9, <1>11, <1>13, <1>15 DEF HasFixed, GetFixed

LEMMA FixedIsNat ==
  ASSUME NEW s \in Seq(Nat), NEW at \in Nat \ {0}, HasFixed(s, at)
  PROVE  GetFixed(s, at) \in Nat
<1>1. FixedLen \in Nat /\ FixedLen # 0 /\ ByteSize \in Nat \ {0} /\ at + FixedLen - 1 <= Len(s)
  BY CodingAssumption DEF HasFixed
<1>2. PICK from : Sums(from, s, at, FixedLen, ByteSize) /\ Summed(s, at, FixedLen, ByteSize) = from[1]
  BY <1>1, SummedSums
<1>3. 1 \in 1..(FixedLen + 1)
  BY <1>1
<1> QED BY <1>2, <1>3 DEF Sums, GetFixed

-----------------------------------------------------------------------------
(* Strings with their lengths in front, one after another.                 *)

LEMMA FixedIsWord ==
  ASSUME NEW value \in Nat
  PROVE  SetFixed(value) \in Seq(Nat) /\ Len(SetFixed(value)) = FixedLen
<1>1. ByteSize \in Nat \ {0} /\ FixedLen \in Nat \ {0}
  BY CodingAssumption
<1>2. PICK left : left = Shifted(value, ByteSize, FixedLen)
  OBVIOUS
<1>3. Shifts(left, value, ByteSize, FixedLen)
  BY <1>1, <1>2, ShiftedShifts
<1>4. \A i \in 1..FixedLen : left[i] \in Nat /\ left[i] % ByteSize \in Nat
  BY <1>1, <1>3 DEF Shifts
<1>5. PICK d : d = [i \in 1..FixedLen |-> left[i] % ByteSize]
  OBVIOUS
<1>6. d \in Seq(Nat) /\ Len(d) = FixedLen
  BY <1>1, <1>4, <1>5
<1> QED BY <1>2, <1>5, <1>6 DEF SetFixed

LEMMA TextIsText ==
  ASSUME NEW t \in Seq(Nat)
  PROVE  Text(t) \in Seq(Nat) /\ Len(Text(t)) = FixedLen + Len(t)
<1>1. PICK d : d = SetFixed(Len(t))
  OBVIOUS
<1>2. FixedLen \in Nat /\ Len(t) \in Nat
  BY CodingAssumption
<1>3. d \in Seq(Nat) /\ Len(d) = FixedLen
  BY <1>1, <1>2, FixedIsWord
<1>4. d \o t \in Seq(Nat) /\ Joined(d, t, d \o t)
  BY <1>3, Joins
<1>5. Len(d \o t) = Len(d) + Len(t)
  BY <1>4 DEF Joined
<1> QED BY <1>1, <1>3, <1>4, <1>5 DEF Text

LEMMA TextReadsBack ==
  ASSUME NEW t \in Seq(Nat), Fits(Len(t)), NEW s \in Seq(Nat), NEW at \in Nat, Lies(s, at, Text(t))
  PROVE  /\ Text(t) \in Seq(Nat) /\ Len(Text(t)) = FixedLen + Len(t)
         /\ HasText(s, at + 1) /\ TextAt(s, at + 1) = t
         /\ AfterText(s, at + 1) = at + Len(Text(t)) + 1
<1>1. PICK d : d = SetFixed(Len(t))
  OBVIOUS
<1>2. FixedLen \in Nat /\ Len(t) \in Nat /\ Len(s) \in Nat
  BY CodingAssumption
<1>3. d \in Seq(Nat) /\ Len(d) = FixedLen
  BY <1>1, <1>2, FixedIsWord
<1>4. PICK u : u = Text(t)
  OBVIOUS
<1>5. u = d \o t
  BY <1>1, <1>4 DEF Text
<1>6. u \in Seq(Nat) /\ Len(u) = FixedLen + Len(t)
  BY <1>4, TextIsText
<1>7. Lies(s, at, d) /\ Lies(s, at + FixedLen, t)
  BY <1>2, <1>3, <1>4, <1>5, LiesApart
<1>8. HasFixed(s, at + 1) /\ GetFixed(s, at + 1) = Len(t)
  BY <1>1, <1>7, FixedReadsBack
<1>9. at + FixedLen + Len(t) <= Len(s) /\ \A q \in 1..Len(t) : s[at + FixedLen + q] = t[q]
  BY <1>7 DEF Lies
<1>10. PICK a : a = at + 1 + FixedLen
  OBVIOUS
<1>11. PICK b : b = at + 1 + FixedLen - 1 + Len(t)
  OBVIOUS
<1>12. a \in Nat /\ b \in Nat /\ a >= 1 /\ b <= Len(s) /\ b - a + 1 = Len(t)
       /\ \A q \in 1..Len(t) : a + q - 1 = at + FixedLen + q
  BY <1>2, <1>9, <1>10, <1>11
<1>13. HasText(s, at + 1)
  BY <1>8, <1>11, <1>12 DEF HasText
<1>14. SubSeq(s, a, b) = t
  <2>1. SubSeq(s, a, b) = [q \in 1..(b - a + 1) |-> s[a + q - 1]]
    BY <1>12
  <2>2. [q \in 1..Len(t) |-> s[a + q - 1]] = [q \in 1..Len(t) |-> t[q]]
    BY <1>9, <1>12
  <2>3. t = [q \in 1..Len(t) |-> t[q]]
    OBVIOUS
  <2> QED BY <1>12, <2>1, <2>2, <2>3
<1>15. TextAt(s, at + 1) = t
  BY <1>8, <1>10, <1>11, <1>14 DEF TextAt
<1>16. AfterText(s, at + 1) = at + Len(u) + 1
  <2>1. AfterText(s, at + 1) = (at + 1) + FixedLen + Len(t)
    BY <1>8 DEF AfterText
  <2>2. PICK k : k = Len(t)
    OBVIOUS
  <2>3. (at + 1) + FixedLen + k = at + (FixedLen + k) + 1
    BY <1>2, <2>2
  <2> QED BY <1>6, <2>1, <2>2, <2>3
<1> QED BY <1>4, <1>6, <1>13, <1>15, <1>16

\* A string is read from behind its place, wherever that is.
LEMMA AfterTextIsLater ==
  ASSUME NEW s \in Seq(Nat), NEW at \in Nat \ {0}, HasText(s, at)
  PROVE  AfterText(s, at) \in (at + 1)..(Len(s) + 1)
<1>1. HasFixed(s, at) /\ at + FixedLen - 1 + GetFixed(s, at) <= Len(s)
  BY DEF HasText
<1>2. GetFixed(s, at) \in Nat
  BY <1>1, FixedIsNat
<1>3. FixedLen \in Nat /\ FixedLen > 0 /\ Len(s) \in Nat
  BY CodingAssumption
<1>4. PICK x : x = GetFixed(s, at)
  OBVIOUS
<1>5. at + FixedLen + x \in (at + 1)..(Len(s) + 1)
  BY <1>1, <1>2, <1>3, <1>4
<1> QED BY <1>4, <1>5 DEF AfterText

\* The bytes are the rows, each beginning where o says.
RowsLie(s, rows, n, o) ==
  /\ o \in [0..n -> Nat] /\ o[0] = 0 /\ o[n] = Len(s)
  /\ \A j \in 1..n : /\ o[j] = o[j - 1] + Len(rows[j])
                     /\ Lies(s, o[j - 1], rows[j])

LEMMA NoRowsLie == RowsLie(<<>>, <<>>, 0, [j \in 0..0 |-> 0])
<1>1. 0..0 = {0} /\ 1..0 = {}
  OBVIOUS
<1>2. Len(<<>>) = 0
  OBVIOUS
<1> QED BY <1>1, <1>2 DEF RowsLie

LEMMA RowIsAppended ==
  ASSUME NEW s \in Seq(Nat), NEW n \in Nat, NEW rows \in Seq(Seq(Nat)), Len(rows) = n,
         NEW o, RowsLie(s, rows, n, o), NEW row \in Seq(Nat)
  PROVE  \E p : RowsLie(s \o row, Append(rows, row), n + 1, p)
<1>1. PICK all : all = Append(rows, row)
  OBVIOUS
<1>2. all[n + 1] = row /\ \A j \in 1..n : all[j] = rows[j] /\ rows[j] \in Seq(Nat)
  BY <1>1
<1>3. PICK t : t = s \o row
  OBVIOUS
<1>4. Len(t) = Len(s) + Len(row) /\ Len(s) \in Nat /\ Len(row) \in Nat
      /\ (\A q \in 1..Len(s) : t[q] = s[q]) /\ (\A q \in 1..Len(row) : t[Len(s) + q] = row[q])
  BY <1>3, Joins DEF Joined
<1>5. PICK p : p = [j \in 0..(n + 1) |-> IF j = n + 1 THEN Len(t) ELSE o[j]]
  OBVIOUS
<1>6. /\ p[n + 1] = Len(t) /\ \A j \in 0..n : p[j] = o[j]
      /\ p \in [0..(n + 1) -> Nat]
  <2>1. n + 1 \in 0..(n + 1) /\ \A j \in 0..n : j \in 0..(n + 1) /\ j # n + 1
    OBVIOUS
  <2>2. \A j \in 0..(n + 1) : j # n + 1 => j \in 0..n
    OBVIOUS
  <2>3. o \in [0..n -> Nat]
    BY DEF RowsLie
  <2> QED BY <1>4, <1>5, <2>1, <2>2, <2>3
<1>7. ASSUME NEW j \in 1..(n + 1)
      PROVE  p[j] = p[j - 1] + Len(all[j]) /\ Lies(t, p[j - 1], all[j])
  <2>1. CASE j = n + 1
    <3>1. p[j - 1] = Len(s) /\ all[j] = row /\ p[j] = Len(s) + Len(row)
      BY <1>2, <1>4, <1>6, <2>1 DEF RowsLie
    <3>2. Lies(t, Len(s), row)
      BY <1>4 DEF Lies
    <3> QED BY <3>1, <3>2
  <2>2. CASE j \in 1..n
    <3>1. p[j] = o[j] /\ p[j - 1] = o[j - 1] /\ all[j] = rows[j] /\ rows[j] \in Seq(Nat) /\ o[j - 1] \in Nat
      <4>1. j \in 0..n /\ j - 1 \in 0..n
        BY <2>2
      <4> QED BY <1>2, <1>6, <2>2, <4>1 DEF RowsLie
    <3>2. o[j] = o[j - 1] + Len(rows[j]) /\ Lies(s, o[j - 1], rows[j])
      BY <2>2 DEF RowsLie
    <3>3. PICK at : at = o[j - 1]
      OBVIOUS
    <3>4. PICK r : r = rows[j]
      OBVIOUS
    <3>5. at \in Nat /\ Len(r) \in Nat /\ at + Len(r) <= Len(s) /\ \A q \in 1..Len(r) : s[at + q] = r[q]
      BY <3>1, <3>2, <3>3, <3>4 DEF Lies
    <3>6. \A q \in 1..Len(r) : at + q \in 1..Len(s)
      BY <1>4, <3>5
    <3>7. Lies(t, at, r)
      BY <1>4, <3>5, <3>6 DEF Lies
    <3> QED BY <3>1, <3>2, <3>3, <3>4, <3>7
  <2> QED BY <2>1, <2>2
<1>8. p[0] = 0
  BY <1>6 DEF RowsLie
<1> QED BY <1>1, <1>3, <1>6, <1>7, <1>8 DEF RowsLie

LEMMA IsSequence ==
  ASSUME NEW T, NEW m \in Nat, NEW r \in [1..m -> T]
  PROVE  r \in Seq(T) /\ Len(r) = m
<1>1. r \in Seq(T)
  OBVIOUS
<1>2. Len(r) = m
  <2>1. Len(r) \in Nat /\ DOMAIN r = 1..Len(r) /\ DOMAIN r = 1..m
    BY <1>1
  <2> QED BY <2>1
<1> QED BY <1>1, <1>2

\* A reader that takes one element at each of the places o of a log, and nothing
\* at its end, reads them all.
LEMMA ReadInOrder ==
  ASSUME NEW S, NEW w \in Seq(S), NEW n \in Nat, Len(w) = n, NEW g, g[n] = <<>>,
         \A j \in 1..n : g[j - 1] = <<w[j]>> \o g[j]
  PROVE  g[0] = w
<1> DEFINE Rest(j) == [i \in 1..(n - j) |-> w[j + i]]
           Bad == {k \in 0..n : g[n - k] # Rest(n - k)}
<1>1. SUFFICES Bad = {}
  <2>1. n \in 0..n /\ n - n = 0
    OBVIOUS
  <2>2. g[0] = Rest(0)
    BY <1>1, <2>1
  <2>3. w = [i \in 1..n |-> w[i]]
    OBVIOUS
  <2>4. Rest(0) = [i \in 1..n |-> w[i]]
    OBVIOUS
  <2> QED BY <2>2, <2>3, <2>4
<1>2. SUFFICES ASSUME Bad # {}
               PROVE  FALSE
  OBVIOUS
<1>3. PICK m \in Bad : \A y \in Bad : m <= y
  <2>1. Bad \in SUBSET Nat
    OBVIOUS
  <2> HIDE DEF Bad
  <2> QED BY <1>2, <2>1, LeastOf
<1>4. m # 0
  <2>1. n - 0 = n /\ 1..(n - n) = {}
    OBVIOUS
  <2>2. Rest(n) = <<>>
    BY <2>1
  <2> QED BY <1>3, <2>1, <2>2
<1>5. m \in 1..n /\ m - 1 \in 0..n /\ m - 1 < m
  BY <1>3, <1>4
<1>6. PICK j : j = n - (m - 1)
  OBVIOUS
<1>7. j \in 1..n /\ n - m = j - 1
  BY <1>5, <1>6
<1>8. m - 1 \notin Bad
  <2> HIDE DEF Bad
  <2> QED BY <1>3, <1>5
<1>9. g[j] = Rest(j)
  BY <1>5, <1>6, <1>8
<1>10. <<w[j]>> \o Rest(j) = Rest(j - 1)
  <2>1. PICK r : r = Rest(j)
    OBVIOUS
  <2>2. r \in [1..(n - j) -> S] /\ n - j \in Nat
    <3>1. \A i \in 1..(n - j) : j + i \in 1..n /\ w[j + i] \in S
      BY <1>7
    <3> QED BY <1>7, <2>1, <3>1
  <2>3. r \in Seq(S) /\ Len(r) = n - j
    <3>1. PICK z : z = n - j
      OBVIOUS
    <3>2. z \in Nat /\ r \in [1..z -> S]
      BY <2>2, <3>1
    <3>3. r \in Seq(S) /\ Len(r) = z
      BY <3>2, IsSequence
    <3> QED BY <3>1, <3>3
  <2>4. PICK a : a = <<w[j]>>
    OBVIOUS
  <2>5. a \in Seq(S) /\ Len(a) = 1 /\ a[1] = w[j]
    BY <1>7, <2>4
  <2>6. PICK c : c = a \o r
    OBVIOUS
  <2>11. c \in Seq(S) /\ Joined(a, r, c)
    BY <2>3, <2>5, <2>6, Joins
  <2>7. Len(c) = n - (j - 1)
    <3>1. Len(c) = Len(a) + Len(r)
      BY <2>11 DEF Joined
    <3> QED BY <1>7, <2>3, <2>5, <3>1
  <2>8. ASSUME NEW i \in 1..(n - (j - 1))
        PROVE  c[i] = w[(j - 1) + i]
    <3>1. CASE i = 1
      <4>1. c[1] = a[1]
        <5>1. 1 \in 1..Len(a)
          BY <2>5
        <5> QED BY <2>11, <5>1 DEF Joined
      <4>2. (j - 1) + 1 = j
        BY <1>7
      <4> QED BY <2>5, <3>1, <4>1, <4>2
    <3>2. CASE i # 1
      <4>1. i - 1 \in 1..(n - j) /\ j + (i - 1) = (j - 1) + i /\ 1 + (i - 1) = i
        BY <1>7, <3>2
      <4>2. Len(r) \in Nat /\ \A q \in 1..Len(r) : c[1 + q] = r[q]
        BY <1>7, <2>3, <2>5, <2>11 DEF Joined
      <4>3. c[i] = r[i - 1]
        BY <2>3, <4>1, <4>2
      <4> QED BY <2>1, <4>1, <4>3
    <3> QED BY <3>1, <3>2
  <2>9. c = [i \in 1..(n - (j - 1)) |-> c[i]]
    BY <2>7, <2>11
  <2>10. [i \in 1..(n - (j - 1)) |-> c[i]] = Rest(j - 1)
    BY <2>8
  <2> QED BY <2>1, <2>4, <2>6, <2>9, <2>10
<1>11. g[j - 1] = <<w[j]>> \o g[j]
  BY <1>7
<1>12. g[j - 1] = Rest(j - 1)
  BY <1>9, <1>10, <1>11
<1> QED BY <1>3, <1>5, <1>7, <1>12

-----------------------------------------------------------------------------
(* WAL_memtable.log.                                                       *)

\* What Pairs reads from a place on.
PairAt(s, at) == [key |-> TextAt(s, at), value |-> TextAt(s, AfterText(s, at))]
HasPair(s, at) == HasText(s, at) /\ HasText(s, AfterText(s, at))
AfterPair(s, at) == AfterText(s, AfterText(s, at))

LEMMA PairsScan ==
  ASSUME NEW s \in Seq(Nat)
  PROVE  \E f : /\ \A at \in 1..(Len(s) + 1) :
                     f[at] = IF at > Len(s) THEN <<>>
                             ELSE IF ~HasPair(s, at) THEN <<Aborted>>
                             ELSE <<PairAt(s, at)>> \o f[AfterPair(s, at)]
                /\ Pairs(s) = f[1]
<1>1. PICK n : n = Len(s)
  OBVIOUS
<1>2. n \in Nat
  BY <1>1
<1>3. PICK on : on = {at \in 1..n : HasPair(s, at)}
  OBVIOUS
<1>4. PICK V : V = {Aborted} \cup {PairAt(s, at) : at \in on}
  OBVIOUS
<1>5. PICK next : next = [at \in on |-> AfterPair(s, at)]
  OBVIOUS
<1>6. PICK end : end = [at \in 1..(n + 1) |-> IF at > n THEN <<>> ELSE <<Aborted>>]
  OBVIOUS
<1>7. PICK step : step = [at \in on |-> [x \in Seq(V) |-> <<PairAt(s, at)>> \o x]]
  OBVIOUS
<1>8. \A at \in on : AfterPair(s, at) \in (at + 1)..(n + 1) /\ at \in 1..n
  <2> TAKE at \in on
  <2>1. at \in Nat \ {0} /\ at \in 1..n /\ HasText(s, at) /\ HasText(s, AfterText(s, at))
    BY <1>3 DEF HasPair
  <2>2. PICK b : b = AfterText(s, at)
    OBVIOUS
  <2>3. b \in (at + 1)..(n + 1)
    BY <1>1, <2>1, <2>2, AfterTextIsLater
  <2>4. b \in Nat \ {0} /\ b > at
    BY <2>1, <2>3
  <2>5. AfterText(s, b) \in (b + 1)..(n + 1)
    BY <1>1, <2>1, <2>2, <2>4, AfterTextIsLater
  <2>6. AfterText(s, b) \in (at + 1)..(n + 1)
    BY <1>2, <2>1, <2>4, <2>5
  <2> QED BY <2>1, <2>2, <2>6 DEF AfterPair
<1>9. next \in [on -> 1..(n + 1)] /\ \A at \in on : at < next[at]
  <2>1. \A at \in on : next[at] \in 1..(n + 1) /\ at < next[at]
    <3> TAKE at \in on
    <3>1. PICK b : b = AfterPair(s, at)
      OBVIOUS
    <3>2. b \in (at + 1)..(n + 1) /\ at \in 1..n
      BY <1>8, <3>1
    <3> QED BY <1>2, <1>5, <3>1, <3>2
  <2> QED BY <1>5, <2>1
<1>10. on \in SUBSET (1..(n + 1)) /\ n + 1 \in Nat
  BY <1>2, <1>3
<1>11. end \in [1..(n + 1) -> Seq(V)]
  <2>1. <<>> \in Seq(V) /\ <<Aborted>> \in Seq(V)
    BY <1>4
  <2> QED BY <1>6, <2>1
<1>12. step \in [on -> [Seq(V) -> Seq(V)]]
  <2>1. ASSUME NEW at \in on, NEW x \in Seq(V)
        PROVE  <<PairAt(s, at)>> \o x \in Seq(V)
    <3>1. <<PairAt(s, at)>> \in Seq(V)
      BY <1>4
    <3> QED BY <3>1, Joins
  <2>2. \A at \in on : [x \in Seq(V) |-> <<PairAt(s, at)>> \o x] \in [Seq(V) -> Seq(V)]
    BY <2>1
  <2> QED BY <1>7, <2>2
<1>13. PICK f : Runs(f, n + 1, Seq(V), on, next, end, step)
  BY <1>9, <1>10, <1>11, <1>12, RecursionAhead
<1>14. ASSUME NEW at \in 1..(n + 1)
       PROVE  f[at] = IF at > n THEN <<>>
                      ELSE IF ~HasPair(s, at) THEN <<Aborted>>
                      ELSE <<PairAt(s, at)>> \o f[AfterPair(s, at)]
  <2>1. CASE at \in on
    <3>1. at \in 1..n /\ HasPair(s, at)
      BY <1>3, <2>1
    <3>2. f[at] = step[at][f[next[at]]] /\ f[next[at]] \in Seq(V)
      BY <1>9, <1>13, <2>1 DEF Runs
    <3>3. step[at] = [x \in Seq(V) |-> <<PairAt(s, at)>> \o x] /\ next[at] = AfterPair(s, at)
      BY <1>5, <1>7, <2>1
    <3>4. f[at] = <<PairAt(s, at)>> \o f[AfterPair(s, at)]
      BY <3>2, <3>3
    <3>5. ~(at > n)
      BY <1>2, <3>1
    <3> QED BY <3>1, <3>4, <3>5
  <2>2. CASE at \notin on
    <3>1. f[at] = end[at]
      BY <1>13, <2>2 DEF Runs
    <3>2. at > n \/ ~HasPair(s, at)
      BY <1>2, <1>3, <2>2
    <3> QED BY <1>6, <3>1, <3>2
  <2> QED BY <2>1, <2>2
<1>15. f \in [1..(n + 1) -> Seq(V)]
  BY <1>13 DEF Runs
<1> DEFINE Body(g) == [at \in 1..(n + 1) |-> IF at > n THEN <<>>
                         ELSE IF ~HasPair(s, at) THEN <<Aborted>>
                         ELSE <<PairAt(s, at)>> \o g[AfterPair(s, at)]]
<1>16. f = Body(f)
  <2>1. f = [at \in 1..(n + 1) |-> f[at]]
    BY <1>15
  <2>2. [at \in 1..(n + 1) |-> f[at]] = Body(f)
    BY <1>14
  <2> QED BY <2>1, <2>2
<1>17. \A g : Body(g) = [at \in 1..(n + 1) |-> IF at > n THEN <<>>
                           ELSE IF ~HasText(s, at) THEN <<Aborted>>
                           ELSE IF ~HasText(s, AfterText(s, at)) THEN <<Aborted>>
                           ELSE <<[key |-> TextAt(s, at), value |-> TextAt(s, AfterText(s, at))]>>
                                \o g[AfterText(s, AfterText(s, at))]]
  BY DEF HasPair, AfterPair, PairAt
<1>18. PICK g : g = Body(g) /\ Pairs(s) = g[1]
  <2> HIDE DEF Body
  <2> QED BY <1>1, <1>16, <1>17 DEF Pairs
<1>19. \A at \in 1..(n + 1) : g[at] = Body(g)[at]
  <2> HIDE DEF Body
  <2> QED BY <1>18
<1>20. \A at \in 1..(n + 1) : g[at] = IF at > n THEN <<>>
                                ELSE IF ~HasPair(s, at) THEN <<Aborted>>
                                ELSE <<PairAt(s, at)>> \o g[AfterPair(s, at)]
  BY <1>19
<1> QED BY <1>1, <1>18, <1>20

PairRows(w) == [i \in 1..Len(w) |-> PairRow(w[i].key, w[i].value)]

\* Strings of which the lengths fit a word.
Texts == {t \in Seq(Nat) : Fits(Len(t))}

\* What is read from a place where a pair lies.
LEMMA PairIsRead ==
  ASSUME NEW s \in Seq(Nat), NEW at \in Nat, NEW key \in Texts, NEW value \in Texts,
         Lies(s, at, PairRow(key, value))
  PROVE  /\ HasPair(s, at + 1) /\ PairAt(s, at + 1) = [key |-> key, value |-> value]
         /\ AfterPair(s, at + 1) = at + Len(PairRow(key, value)) + 1
         /\ PairRow(key, value) \in Seq(Nat) /\ Len(PairRow(key, value)) > 0
         /\ at + 1 <= Len(s)
<1>1. key \in Seq(Nat) /\ value \in Seq(Nat) /\ Fits(Len(key)) /\ Fits(Len(value))
  BY DEF Texts
<1>2. PICK k : k = Text(key)
  OBVIOUS
<1>3. PICK v : v = Text(value)
  OBVIOUS
<1>4. PICK b : b = at + Len(k)
  OBVIOUS
<1>5. k \in Seq(Nat) /\ v \in Seq(Nat) /\ Len(k) \in Nat /\ Len(v) \in Nat /\ Len(s) \in Nat
  BY <1>1, <1>2, <1>3, TextIsText
<1>6. Lies(s, at, k) /\ Lies(s, b, v) /\ Len(k \o v) = Len(k) + Len(v)
  BY <1>2, <1>3, <1>4, <1>5, LiesApart DEF PairRow
<1>7. b \in Nat
  BY <1>4, <1>5
<1>8. /\ HasText(s, at + 1) /\ TextAt(s, at + 1) = key /\ AfterText(s, at + 1) = at + Len(k) + 1
      /\ Len(k) = FixedLen + Len(key)
  BY <1>1, <1>2, <1>6, TextReadsBack
<1>9. HasText(s, b + 1) /\ TextAt(s, b + 1) = value /\ AfterText(s, b + 1) = b + Len(v) + 1
  BY <1>1, <1>3, <1>6, <1>7, TextReadsBack
<1>10. AfterText(s, at + 1) = b + 1
  BY <1>4, <1>8
<1>11. HasPair(s, at + 1) /\ PairAt(s, at + 1) = [key |-> key, value |-> value]
  BY <1>8, <1>9, <1>10 DEF HasPair, PairAt
<1>12. PICK m : m = Len(k) + Len(v)
  OBVIOUS
<1>13. AfterPair(s, at + 1) = at + m + 1
  <2>1. AfterPair(s, at + 1) = b + Len(v) + 1
    BY <1>9, <1>10 DEF AfterPair
  <2> QED BY <1>4, <1>5, <1>12, <2>1
<1>14. PairRow(key, value) = k \o v
  BY <1>2, <1>3 DEF PairRow
<1>15. k \o v \in Seq(Nat)
  BY <1>5
<1>16. Len(k) > 0
  <2>1. FixedLen \in Nat /\ FixedLen > 0 /\ Len(key) \in Nat
    BY <1>1, CodingAssumption
  <2> QED BY <1>8, <2>1
<1>17. Len(k) + Len(v) > 0 /\ at + 1 <= Len(s)
  <2>1. at + Len(k) <= Len(s)
    BY <1>6 DEF Lies
  <2> QED BY <1>5, <1>16, <2>1
<1> QED BY <1>6, <1>11, <1>12, <1>13, <1>14, <1>15, <1>17

\* Whatever bytes its strings are made of, a log of pairs is replayed pair by
\* pair, in order.
LEMMA PairsReadBack ==
  ASSUME NEW w \in Seq([key : Texts, value : Texts]), NEW s \in Seq(Nat),
         NEW o, RowsLie(s, PairRows(w), Len(w), o)
  PROVE  Pairs(s) = w
<1>1. PICK n : n = Len(w)
  OBVIOUS
<1>2. PICK len : len = Len(s)
  OBVIOUS
<1>3. n \in Nat /\ len \in Nat
  BY <1>1, <1>2
<1>4. PICK f : /\ \A at \in 1..(len + 1) :
                     f[at] = IF at > len THEN <<>>
                             ELSE IF ~HasPair(s, at) THEN <<Aborted>>
                             ELSE <<PairAt(s, at)>> \o f[AfterPair(s, at)]
               /\ Pairs(s) = f[1]
  BY <1>2, PairsScan
<1>5. o \in [0..n -> Nat] /\ o[0] = 0 /\ o[n] = len
  BY <1>1, <1>2 DEF RowsLie
<1>6. PICK g : g = [j \in 0..n |-> f[o[j] + 1]]
  OBVIOUS
<1>7. g[n] = <<>>
  <2>1. len + 1 \in 1..(len + 1) /\ len + 1 > len /\ n \in 0..n
    BY <1>3
  <2> QED BY <1>4, <1>5, <1>6, <2>1
<1>8. ASSUME NEW j \in 1..n
      PROVE  g[j - 1] = <<w[j]>> \o g[j]
  <2>1. PICK at : at = o[j - 1]
    OBVIOUS
  <2>2. j - 1 \in 0..n /\ j \in 0..n /\ at \in Nat
    BY <1>3, <1>5, <2>1
  <2>3. PICK key \in Texts, value \in Texts : w[j] = [key |-> key, value |-> value]
    <3>1. w[j] \in [key : Texts, value : Texts]
      <4>1. PICK R : R = [key : Texts, value : Texts]
        OBVIOUS
      <4>2. w \in Seq(R) /\ j \in 1..Len(w)
        BY <1>1, <4>1
      <4>3. w[j] \in R
        BY ONLY <4>2
      <4> QED BY <4>1, <4>3
    <3> QED BY <3>1
  <2>4. PairRows(w)[j] = PairRow(key, value)
    BY <1>1, <2>3 DEF PairRows
  <2>5. o[j] = at + Len(PairRow(key, value)) /\ Lies(s, at, PairRow(key, value))
    BY <1>1, <2>1, <2>4 DEF RowsLie
  <2>6. /\ HasPair(s, at + 1) /\ PairAt(s, at + 1) = w[j]
        /\ AfterPair(s, at + 1) = o[j] + 1 /\ at + 1 <= len
    <3>1. PICK row : row = PairRow(key, value)
      OBVIOUS
    <3>2. /\ HasPair(s, at + 1) /\ PairAt(s, at + 1) = [key |-> key, value |-> value]
          /\ AfterPair(s, at + 1) = at + Len(row) + 1 /\ at + 1 <= len
      BY <1>2, <2>2, <2>5, <3>1, PairIsRead
    <3> QED BY <2>3, <2>5, <3>1, <3>2
  <2>7. at + 1 \in 1..(len + 1) /\ ~(at + 1 > len)
    BY <1>3, <2>2, <2>6
  <2>8. f[at + 1] = <<w[j]>> \o f[o[j] + 1]
    BY <1>4, <2>6, <2>7
  <2> QED BY <1>6, <2>1, <2>2, <2>8
<1>9. g[0] = w
  BY <1>1, <1>3, <1>7, <1>8, ReadInOrder
<1>10. 0 \in 0..n /\ 0 + 1 = 1
  BY <1>3
<1> QED BY <1>4, <1>5, <1>6, <1>9, <1>10

-----------------------------------------------------------------------------
(* manifest.log.                                                           *)

\* A record of which the numbers and lengths fit a word.
FitRecords == [level : {l \in Nat : Fits(l)}, name : Texts, min : Texts, max : Texts]

\* What is read from a place where a record lies.
LEMMA RecordIsRead ==
  ASSUME NEW s \in Seq(Nat), NEW at \in Nat, NEW rec \in FitRecords, Lies(s, at, RecordBytes(rec))
  PROVE  /\ HasRecord(s, at + 1) /\ RecordAt(s, at + 1) = rec
         /\ AfterRecord(s, at + 1) = at + Len(RecordBytes(rec)) + 1
         /\ at + 2 <= Len(s)
<1>1. PICK d : d = SetFixed(rec.level)
  OBVIOUS
<1>2. PICK x : x = Text(rec.name)
  OBVIOUS
<1>3. PICK y : y = Text(rec.min)
  OBVIOUS
<1>4. PICK z : z = Text(rec.max)
  OBVIOUS
<1>5. /\ Fits(rec.level) /\ rec.level \in Nat
      /\ rec.name \in Seq(Nat) /\ Fits(Len(rec.name))
      /\ rec.min \in Seq(Nat) /\ Fits(Len(rec.min))
      /\ rec.max \in Seq(Nat) /\ Fits(Len(rec.max))
      /\ rec = [level |-> rec.level, name |-> rec.name, min |-> rec.min, max |-> rec.max]
  BY DEF FitRecords, Texts
<1>6. /\ d \in Seq(Nat) /\ x \in Seq(Nat) /\ y \in Seq(Nat) /\ z \in Seq(Nat)
      /\ Len(d) = FixedLen
  BY <1>1, <1>2, <1>3, <1>4, <1>5, FixedIsWord, TextIsText
<1>7. Len(s) \in Nat /\ Len(d) \in Nat /\ Len(x) \in Nat /\ Len(y) \in Nat /\ Len(z) \in Nat
  BY <1>6
<1>8. PICK dx : dx = d \o x
  OBVIOUS
<1>9. PICK dxy : dxy = dx \o y
  OBVIOUS
<1>10. dx \in Seq(Nat) /\ dxy \in Seq(Nat)
  BY <1>6, <1>8, <1>9
<1>11. RecordBytes(rec) = dxy \o z
  BY <1>1, <1>2, <1>3, <1>4, <1>8, <1>9 DEF RecordBytes
<1>12. Lies(s, at, dxy) /\ Lies(s, at + Len(dxy), z) /\ Len(dxy \o z) = Len(dxy) + Len(z)
  BY <1>6, <1>7, <1>10, <1>11, LiesApart
<1>13. Lies(s, at, dx) /\ Lies(s, at + Len(dx), y) /\ Len(dxy) = Len(dx) + Len(y)
  BY <1>6, <1>7, <1>9, <1>10, <1>12, LiesApart
<1>14. Lies(s, at, d) /\ Lies(s, at + Len(d), x) /\ Len(dx) = Len(d) + Len(x)
  BY <1>6, <1>7, <1>8, <1>10, <1>13, LiesApart
<1>15. PICK a : a = at + Len(d)
  OBVIOUS
<1>16. PICK b : b = at + Len(dx)
  OBVIOUS
<1>17. PICK c : c = at + Len(dxy)
  OBVIOUS
<1>18. a \in Nat /\ b \in Nat /\ c \in Nat /\ b = a + Len(x) /\ c = b + Len(y)
  <2>1. Len(dx) = Len(d) + Len(x) /\ Len(dxy) = Len(dx) + Len(y)
    BY <1>13, <1>14
  <2>2. Len(dx) \in Nat /\ Len(dxy) \in Nat
    BY <1>10
  <2> QED BY ONLY <1>7, <1>15, <1>16, <1>17, <2>1, <2>2, at \in Nat
<1>19. HasFixed(s, at + 1) /\ GetFixed(s, at + 1) = rec.level
  BY <1>1, <1>5, <1>14, FixedReadsBack
<1>20. NameAt(at + 1) = a + 1
  BY <1>6, <1>7, <1>15 DEF NameAt
<1>21. HasText(s, a + 1) /\ TextAt(s, a + 1) = rec.name /\ AfterText(s, a + 1) = b + 1
  <2>1. HasText(s, a + 1) /\ TextAt(s, a + 1) = rec.name /\ AfterText(s, a + 1) = a + Len(x) + 1
    BY <1>2, <1>5, <1>14, <1>15, <1>18, TextReadsBack
  <2> QED BY <1>18, <2>1
<1>22. HasText(s, b + 1) /\ TextAt(s, b + 1) = rec.min /\ AfterText(s, b + 1) = c + 1
  <2>1. HasText(s, b + 1) /\ TextAt(s, b + 1) = rec.min /\ AfterText(s, b + 1) = b + Len(y) + 1
    BY <1>3, <1>5, <1>13, <1>16, <1>18, TextReadsBack
  <2> QED BY <1>18, <2>1
<1>23. HasText(s, c + 1) /\ TextAt(s, c + 1) = rec.max /\ AfterText(s, c + 1) = c + Len(z) + 1
  BY <1>4, <1>5, <1>12, <1>17, <1>18, TextReadsBack
<1>24. MinAt(s, at + 1) = b + 1 /\ MaxAt(s, at + 1) = c + 1
  BY <1>20, <1>21, <1>22 DEF MinAt, MaxAt
<1>25. HasRecord(s, at + 1)
  BY <1>19, <1>20, <1>21, <1>22, <1>23, <1>24 DEF HasRecord
<1>26. RecordAt(s, at + 1) = rec
  BY <1>5, <1>19, <1>20, <1>21, <1>22, <1>23, <1>24 DEF RecordAt
<1>27. AfterRecord(s, at + 1) = at + Len(RecordBytes(rec)) + 1
  <2>1. AfterRecord(s, at + 1) = c + Len(z) + 1
    BY <1>23, <1>24 DEF AfterRecord
  <2>2. PICK k : k = Len(dxy)
    OBVIOUS
  <2>3. k \in Nat
    BY <1>10, <2>2
  <2>4. Len(RecordBytes(rec)) = k + Len(z)
    BY <1>11, <1>12, <2>2
  <2> QED BY <1>7, <1>17, <2>1, <2>2, <2>3, <2>4
<1>28. at + 2 <= Len(s)
  <2>1. at + Len(dx) <= Len(s)
    BY <1>13 DEF Lies
  <2>2. FixedLen \in Nat /\ FixedLen > 0
    BY CodingAssumption
  <2>3. Len(x) = FixedLen + Len(rec.name) /\ Len(rec.name) \in Nat
    BY <1>2, <1>5, TextIsText
  <2>4. Len(dx) = Len(d) + Len(x)
    BY <1>14
  <2> QED BY ONLY <1>6, <1>7, <2>1, <2>2, <2>3, <2>4, at \in Nat
<1> QED BY <1>25, <1>26, <1>27, <1>28

LEMMA AfterRecordIsLater ==
  ASSUME NEW s \in Seq(Nat), NEW at \in Nat \ {0}, HasRecord(s, at)
  PROVE  AfterRecord(s, at) \in (at + 1)..(Len(s) + 1)
<1>1. Len(s) \in Nat /\ FixedLen \in Nat
  BY CodingAssumption
<1>2. PICK a : a = NameAt(at)
  OBVIOUS
<1>3. PICK b : b = MinAt(s, at)
  OBVIOUS
<1>4. PICK c : c = MaxAt(s, at)
  OBVIOUS
<1>5. HasText(s, a) /\ HasText(s, b) /\ HasText(s, c)
  BY <1>2, <1>3, <1>4 DEF HasRecord
<1>6. a \in Nat \ {0} /\ a >= at
  BY <1>1, <1>2 DEF NameAt
<1>7. b \in (a + 1)..(Len(s) + 1)
  BY <1>2, <1>3, <1>5, <1>6, AfterTextIsLater DEF MinAt
<1>8. b \in Nat \ {0} /\ b > at
  BY <1>1, <1>6, <1>7
<1>9. c \in (b + 1)..(Len(s) + 1)
  BY <1>3, <1>4, <1>5, <1>8, AfterTextIsLater DEF MaxAt
<1>10. c \in Nat \ {0} /\ c > at
  BY <1>1, <1>8, <1>9
<1>11. PICK e : e = AfterText(s, c)
  OBVIOUS
<1>12. e \in (c + 1)..(Len(s) + 1)
  BY <1>5, <1>10, <1>11, AfterTextIsLater
<1>13. e \in (at + 1)..(Len(s) + 1)
  BY <1>1, <1>10, <1>12
<1> QED BY <1>4, <1>11, <1>13 DEF AfterRecord

\* What the reader is left with where it stops.
ManifestEnd(s, at) ==
  IF at >= Len(s) THEN [records |-> <<>>, id |-> IF at > Len(s) THEN 1 ELSE s[at]]
  ELSE [records |-> <<Aborted>>, id |-> 1]

PutFirst(rec, rest) == [records |-> <<rec>> \o rest.records, id |-> rest.id]

LEMMA ManifestScan ==
  ASSUME NEW s \in Seq(Nat)
  PROVE  \E f : /\ \A at \in 1..(Len(s) + 1) :
                     f[at] = IF at < Len(s) /\ HasRecord(s, at)
                             THEN PutFirst(RecordAt(s, at), f[AfterRecord(s, at)])
                             ELSE ManifestEnd(s, at)
                /\ ManifestRead(s) = f[1]
<1>1. PICK n : n = Len(s)
  OBVIOUS
<1>2. n \in Nat
  BY <1>1
<1>3. PICK on : on = {at \in 1..n : at < n /\ HasRecord(s, at)}
  OBVIOUS
<1>4. PICK V : V = {Aborted} \cup {RecordAt(s, at) : at \in on}
  OBVIOUS
<1>5. PICK next : next = [at \in on |-> AfterRecord(s, at)]
  OBVIOUS
<1>6. PICK end : end = [at \in 1..(n + 1) |-> ManifestEnd(s, at)]
  OBVIOUS
<1>7. PICK S : S = [records : Seq(V), id : Nat]
  OBVIOUS
<1>8. PICK step : step = [at \in on |-> [x \in S |-> PutFirst(RecordAt(s, at), x)]]
  OBVIOUS
<1>9. next \in [on -> 1..(n + 1)] /\ \A at \in on : at < next[at]
  <2>1. \A at \in on : next[at] \in 1..(n + 1) /\ at < next[at]
    <3> TAKE at \in on
    <3>1. PICK b : b = AfterRecord(s, at)
      OBVIOUS
    <3>2. at \in 1..n /\ at \in Nat \ {0} /\ HasRecord(s, at)
      BY <1>2, <1>3
    <3>3. b \in (at + 1)..(n + 1)
      BY <1>1, <3>1, <3>2, AfterRecordIsLater
    <3> QED BY <1>2, <1>5, <3>1, <3>2, <3>3
  <2> QED BY <1>5, <2>1
<1>10. on \in SUBSET (1..(n + 1)) /\ n + 1 \in Nat
  BY <1>2, <1>3
<1>11. end \in [1..(n + 1) -> S]
  <2>1. <<>> \in Seq(V) /\ <<Aborted>> \in Seq(V)
    BY <1>4
  <2>2. ASSUME NEW at \in 1..(n + 1)
        PROVE  ManifestEnd(s, at) \in S
    <3>1. CASE at > n
      BY <1>1, <1>2, <1>7, <2>1, <3>1 DEF ManifestEnd
    <3>2. CASE at = n
      <4>1. s[at] \in Nat
        BY <1>1, <3>2
      <4> QED BY <1>1, <1>2, <1>7, <2>1, <3>2, <4>1 DEF ManifestEnd
    <3>3. CASE at < n
      BY <1>1, <1>2, <1>7, <2>1, <3>3 DEF ManifestEnd
    <3> QED BY <1>2, <3>1, <3>2, <3>3
  <2> QED BY <1>6, <2>2
<1>12. step \in [on -> [S -> S]]
  <2>1. ASSUME NEW at \in on, NEW x \in S
        PROVE  PutFirst(RecordAt(s, at), x) \in S
    <3>1. x.records \in Seq(V) /\ x.id \in Nat
      BY <1>7
    <3>2. <<RecordAt(s, at)>> \in Seq(V)
      BY <1>4
    <3>3. <<RecordAt(s, at)>> \o x.records \in Seq(V)
      BY <3>1, <3>2, Joins
    <3> QED BY <1>7, <3>1, <3>3 DEF PutFirst
  <2>2. \A at \in on : [x \in S |-> PutFirst(RecordAt(s, at), x)] \in [S -> S]
    BY <2>1
  <2> QED BY <1>8, <2>2
<1>13. PICK f : Runs(f, n + 1, S, on, next, end, step)
  BY <1>9, <1>10, <1>11, <1>12, RecursionAhead
<1> DEFINE Value(g, at) == IF at < n /\ HasRecord(s, at)
                           THEN PutFirst(RecordAt(s, at), g[AfterRecord(s, at)])
                           ELSE ManifestEnd(s, at)
           Body(g) == [at \in 1..(n + 1) |-> Value(g, at)]
<1>14. ASSUME NEW at \in 1..(n + 1)
       PROVE  f[at] = Value(f, at)
  <2>1. CASE at \in on
    <3>1. at < n /\ HasRecord(s, at)
      BY <1>3, <2>1
    <3>2. f[at] = step[at][f[next[at]]] /\ f[next[at]] \in S
      BY <1>9, <1>13, <2>1 DEF Runs
    <3>3. /\ step[at] = [x \in S |-> PutFirst(RecordAt(s, at), x)]
          /\ next[at] = AfterRecord(s, at)
      BY <1>5, <1>8, <2>1
    <3>4. f[at] = PutFirst(RecordAt(s, at), f[AfterRecord(s, at)])
      BY <3>2, <3>3
    <3> QED BY <3>1, <3>4
  <2>2. CASE at \notin on
    <3>1. f[at] = end[at]
      BY <1>13, <2>2 DEF Runs
    <3>2. ~(at < n /\ HasRecord(s, at))
      BY <1>2, <1>3, <2>2
    <3> QED BY <1>6, <3>1, <3>2
  <2> QED BY <2>1, <2>2
<1>15. f \in [1..(n + 1) -> S]
  BY <1>13 DEF Runs
<1>16. f = Body(f)
  <2>1. f = [at \in 1..(n + 1) |-> f[at]]
    BY <1>15
  <2>2. [at \in 1..(n + 1) |-> f[at]] = Body(f)
    <3> HIDE DEF Value
    <3> QED BY <1>14
  <2> QED BY <2>1, <2>2
<1>17. \A g : Body(g) = [at \in 1..(n + 1) |->
                 IF at >= n THEN [records |-> <<>>, id |-> IF at > n THEN 1 ELSE s[at]]
                 ELSE IF ~HasRecord(s, at) THEN [records |-> <<Aborted>>, id |-> 1]
                 ELSE [records |-> <<RecordAt(s, at)>> \o g[AfterRecord(s, at)].records,
                       id      |-> g[AfterRecord(s, at)].id]]
  <2> TAKE g
  <2>1. ASSUME NEW at \in 1..(n + 1)
        PROVE  Value(g, at) = IF at >= n THEN [records |-> <<>>, id |-> IF at > n THEN 1 ELSE s[at]]
                              ELSE IF ~HasRecord(s, at) THEN [records |-> <<Aborted>>, id |-> 1]
                              ELSE PutFirst(RecordAt(s, at), g[AfterRecord(s, at)])
    <3>1. at >= n <=> ~(at < n)
      BY <1>2
    <3> QED BY <1>1, <3>1 DEF ManifestEnd
  <2> HIDE DEF Value
  <2> QED BY <2>1 DEF PutFirst
<1>18. PICK g : g = Body(g) /\ ManifestRead(s) = g[1]
  <2> HIDE DEF Body
  <2> QED BY <1>1, <1>16, <1>17 DEF ManifestRead
<1>19. \A at \in 1..(n + 1) : g[at] = Body(g)[at]
  <2> HIDE DEF Body
  <2> QED BY <1>18
<1>20. \A at \in 1..(n + 1) : g[at] = Value(g, at)
  <2> HIDE DEF Value
  <2> QED BY <1>19
<1> QED BY <1>1, <1>18, <1>20

LEMMA RecordBytesAreBytes ==
  ASSUME NEW rec \in FitRecords
  PROVE  RecordBytes(rec) \in Seq(Nat)
<1>1. rec.level \in Nat /\ rec.name \in Seq(Nat) /\ rec.min \in Seq(Nat) /\ rec.max \in Seq(Nat)
  BY DEF FitRecords, Texts
<1>2. PICK d : d = SetFixed(rec.level)
  OBVIOUS
<1>3. PICK x : x = Text(rec.name)
  OBVIOUS
<1>4. PICK y : y = Text(rec.min)
  OBVIOUS
<1>5. PICK z : z = Text(rec.max)
  OBVIOUS
<1>6. d \in Seq(Nat) /\ x \in Seq(Nat) /\ y \in Seq(Nat) /\ z \in Seq(Nat)
  BY <1>1, <1>2, <1>3, <1>4, <1>5, FixedIsWord, TextIsText
<1>7. d \o x \o y \o z \in Seq(Nat)
  BY <1>6
<1> QED BY <1>2, <1>3, <1>4, <1>5, <1>7 DEF RecordBytes

RecordsBytes(w) == [i \in 1..Len(w) |-> RecordBytes(w[i])]

InRows(w, id, n, seqs) ==
  /\ seqs \in [1..n -> Seq(Nat)]
  /\ \E F : Partial(F, n, Nat, seqs) /\ ManifestBytes(w, id) = F[n] \o <<id>>

\* The records of a manifest, one after another, and the id behind them.
LEMMA ManifestIsRows ==
  ASSUME NEW w \in Seq(FitRecords), NEW n \in Nat, Len(w) = n, NEW id \in Nat,
         NEW seqs, seqs = RecordsBytes(w)
  PROVE  InRows(w, id, n, seqs)
<1>0. seqs = [i \in 1..n |-> RecordBytes(w[i])]
  BY DEF RecordsBytes
<1>1. \A i \in 1..n : w[i] \in FitRecords
  BY ElementOfSeq
<1>2. seqs \in [1..n -> Seq(Nat)]
  BY <1>0, <1>1, RecordBytesAreBytes
<1>3. PICK F : Partial(F, n, Nat, seqs)
  BY <1>2, PartialExists
<1>4. F \in [0..n -> Seq(Nat)] /\ F[0] = <<>> /\ \A i \in 1..n : F[i] = F[i - 1] \o RecordBytes(w[i])
  BY <1>0, <1>3 DEF Partial
<1>5. F = [i \in 0..n |-> IF i = 0 THEN <<>> ELSE F[i - 1] \o RecordBytes(w[i])]
  <2>1. F = [i \in 0..n |-> F[i]]
    BY <1>4
  <2>2. ASSUME NEW i \in 0..n
        PROVE  F[i] = IF i = 0 THEN <<>> ELSE F[i - 1] \o RecordBytes(w[i])
    <3>1. CASE i = 0
      BY <1>4, <3>1
    <3>2. CASE i # 0
      <4>1. i \in 1..n
        BY <3>2
      <4> QED BY <1>4, <3>2, <4>1
    <3> QED BY <3>1, <3>2
  <2>3. [i \in 0..n |-> F[i]] = [i \in 0..n |-> IF i = 0 THEN <<>> ELSE F[i - 1] \o RecordBytes(w[i])]
    BY <2>2
  <2> QED BY <2>1, <2>3
<1>6. PICK g : /\ g = [i \in 0..n |-> IF i = 0 THEN <<>> ELSE g[i - 1] \o RecordBytes(w[i])]
               /\ ManifestBytes(w, id) = g[n] \o <<id>>
  BY <1>5 DEF ManifestBytes
<1>7. g[0] = <<>> /\ \A i \in 1..n : g[i] = g[i - 1] \o seqs[i]
  <2>1. 0 \in 0..n /\ \A i \in 1..n : i \in 0..n /\ i # 0
    OBVIOUS
  <2> QED BY <1>0, <1>6, <2>1
<1>8. g \in [0..n -> Seq(Nat)]
  <2> DEFINE Bad == {i \in 0..n : g[i] \notin Seq(Nat)}
  <2>1. SUFFICES ASSUME Bad # {}
                 PROVE  FALSE
    BY <1>6
  <2>2. PICK m \in Bad : \A y \in Bad : m <= y
    <3>1. Bad \in SUBSET Nat
      OBVIOUS
    <3> HIDE DEF Bad
    <3> QED BY <2>1, <3>1, LeastOf
  <2>3. m \in 1..n /\ m - 1 \in 0..n /\ m - 1 < m
    <3>1. <<>> \in Seq(Nat)
      OBVIOUS
    <3>2. m # 0
      BY <1>7, <2>2, <3>1
    <3> QED BY <2>2, <3>2
  <2>4. m - 1 \notin Bad
    <3> HIDE DEF Bad
    <3> QED BY <2>2, <2>3
  <2>5. g[m - 1] \in Seq(Nat) /\ seqs[m] \in Seq(Nat)
    BY <1>2, <2>3, <2>4
  <2>6. g[m - 1] \o seqs[m] \in Seq(Nat)
    BY <2>5, Joins
  <2> QED BY <1>7, <2>2, <2>3, <2>6
<1>9. Partial(g, n, Nat, seqs)
  BY <1>7, <1>8 DEF Partial
<1> QED BY <1>2, <1>6, <1>9 DEF InRows

\* Whatever bytes their strings are made of, the records of a manifest and the
\* ring's id are read back.
THEOREM ManifestReadsBack ==
  ASSUME NEW w \in Seq(FitRecords), NEW id \in Nat
  PROVE  ManifestRead(ManifestBytes(w, id)) = [records |-> w, id |-> id]
<1>1. PICK n : n = Len(w)
  OBVIOUS
<1>2. n \in Nat
  BY <1>1
<1>3. PICK seqs : seqs = RecordsBytes(w)
  OBVIOUS
<1>4. PICK s : s = ManifestBytes(w, id)
  OBVIOUS
<1>5. InRows(w, id, n, seqs)
  BY <1>1, <1>2, <1>3, ManifestIsRows
<1>6. PICK F : Partial(F, n, Nat, seqs) /\ s = F[n] \o <<id>>
  <2>1. \E F : Partial(F, n, Nat, seqs) /\ ManifestBytes(w, id) = F[n] \o <<id>>
    BY <1>5 DEF InRows
  <2> QED BY <1>4, <2>1
<1>7. F \in [0..n -> Seq(Nat)] /\ F[0] = <<>>
  BY <1>6 DEF Partial
<1>8. PICK len : len = Len(F[n])
  OBVIOUS
<1>9. PICK last : last = <<id>>
  OBVIOUS
<1>10. n \in 0..n /\ F[n] \in Seq(Nat) /\ len \in Nat
  BY <1>2, <1>7, <1>8
<1>11. last \in Seq(Nat) /\ Len(last) = 1 /\ last[1] = id
  BY <1>9
<1>12. s \in Seq(Nat) /\ Joined(F[n], last, s)
  BY <1>6, <1>9, <1>10, <1>11, Joins
<1>13. Len(s) = len + 1 /\ s[len + 1] = id /\ Lies(s, 0, F[n])
  <2>1. Len(s) = len + 1
    BY <1>8, <1>11, <1>12 DEF Joined
  <2>2. s[len + 1] = id
    <3>1. 1 \in 1..Len(last)
      BY <1>11
    <3> QED BY <1>8, <1>11, <1>12, <3>1 DEF Joined
  <2>3. \A q \in 1..Len(F[n]) : s[0 + q] = F[n][q]
    BY <1>8, <1>10, <1>12 DEF Joined
  <2> QED BY <1>8, <1>10, <2>1, <2>2, <2>3 DEF Lies
<1>14. PartsIn(s, 0, n, F, seqs)
  <2>1. Len(s) \in Nat
    BY <1>10, <1>13
  <2> QED BY <1>2, <1>5, <1>6, <1>13, <2>1, PartsLie DEF InRows
<1>15. PICK f : /\ \A at \in 1..(Len(s) + 1) :
                      f[at] = IF at < Len(s) /\ HasRecord(s, at)
                              THEN PutFirst(RecordAt(s, at), f[AfterRecord(s, at)])
                              ELSE ManifestEnd(s, at)
                /\ ManifestRead(s) = f[1]
  BY <1>12, ManifestScan
<1>16. PICK o : o = [j \in 0..n |-> Len(F[j])]
  OBVIOUS
<1>17. o \in [0..n -> Nat] /\ o[0] = 0 /\ o[n] = len
  <2>1. \A j \in 0..n : Len(F[j]) \in Nat
    BY <1>7
  <2>2. Len(F[0]) = 0 /\ 0 \in 0..n
    BY <1>2, <1>7
  <2> QED BY <1>8, <1>10, <1>16, <2>1, <2>2
<1>18. f[o[n] + 1] = [records |-> <<>>, id |-> id]
  <2>1. PICK at : at = len + 1
    OBVIOUS
  <2>2. at \in 1..(Len(s) + 1) /\ ~(at < Len(s)) /\ at >= Len(s) /\ ~(at > Len(s)) /\ s[at] = id
    BY <1>10, <1>13, <2>1
  <2>3. f[at] = ManifestEnd(s, at)
    BY <1>15, <2>2
  <2> QED BY <1>17, <2>1, <2>2, <2>3 DEF ManifestEnd
<1>19. ASSUME NEW j \in 1..n
       PROVE  f[o[j - 1] + 1] = PutFirst(w[j], f[o[j] + 1])
  <2>1. PICK at : at = o[j - 1]
    OBVIOUS
  <2>2. j - 1 \in 0..n /\ j \in 0..n /\ at \in Nat
    BY <1>2, <1>17, <2>1
  <2>3. PICK rec : rec = w[j]
    OBVIOUS
  <2>4. rec \in FitRecords
    BY <1>1, <2>3, ElementOfSeq
  <2>5. seqs[j] = RecordBytes(rec)
    BY <1>1, <1>3, <2>3 DEF RecordsBytes
  <2>6. o[j] = at + Len(RecordBytes(rec)) /\ Lies(s, at, RecordBytes(rec))
    <3>1. o[j] = Len(F[j]) /\ at = Len(F[j - 1]) /\ 0 + Len(F[j - 1]) = at
      BY <1>16, <2>1, <2>2
    <3> QED BY <1>14, <2>5, <3>1 DEF PartsIn
  <2>7. HasRecord(s, at + 1) /\ RecordAt(s, at + 1) = rec /\ AfterRecord(s, at + 1) = o[j] + 1 /\ at + 2 <= Len(s)
    <3>1. PICK row : row = RecordBytes(rec)
      OBVIOUS
    <3>2. /\ HasRecord(s, at + 1) /\ RecordAt(s, at + 1) = rec
          /\ AfterRecord(s, at + 1) = at + Len(row) + 1 /\ at + 2 <= Len(s)
      BY <1>12, <2>2, <2>4, <2>6, <3>1, RecordIsRead
    <3> QED BY <2>6, <3>1, <3>2
  <2>8. at + 1 \in 1..(Len(s) + 1) /\ at + 1 < Len(s)
    BY <1>10, <1>13, <2>2, <2>7
  <2> QED BY <1>15, <2>1, <2>3, <2>7, <2>8
<1>20. PICK g : g = [j \in 0..n |-> f[o[j] + 1].records]
  OBVIOUS
<1>21. g[n] = <<>> /\ \A j \in 1..n : g[j - 1] = <<w[j]>> \o g[j]
  <2>1. g[n] = <<>>
    BY <1>10, <1>18, <1>20
  <2>2. ASSUME NEW j \in 1..n
        PROVE  g[j - 1] = <<w[j]>> \o g[j]
    <3>1. j - 1 \in 0..n /\ j \in 0..n
      BY <1>2
    <3>2. g[j - 1] = f[o[j - 1] + 1].records /\ g[j] = f[o[j] + 1].records
      BY <1>20, <3>1
    <3>3. f[o[j - 1] + 1] = PutFirst(w[j], f[o[j] + 1])
      BY <1>19
    <3>4. PutFirst(w[j], f[o[j] + 1]).records = <<w[j]>> \o f[o[j] + 1].records
      BY DEF PutFirst
    <3> QED BY <3>2, <3>3, <3>4
  <2> QED BY <2>1, <2>2
<1>22. g[0] = w
  BY <1>1, <1>2, <1>21, ReadInOrder
<1>23. 0 \in 0..n /\ f[o[0] + 1] = f[1]
  BY <1>2, <1>17
<1>24. \A j \in 0..n : \E r : f[o[j] + 1] = [records |-> r, id |-> id]
  <2> DEFINE Bad == {k \in 0..n : ~\E r : f[o[n - k] + 1] = [records |-> r, id |-> id]}
  <2>1. SUFFICES ASSUME Bad # {}
                 PROVE  FALSE
    <3>1. \A j \in 0..n : n - j \in 0..n /\ n - (n - j) = j
      BY <1>2
    <3> QED BY <2>1, <3>1
  <2>2. PICK m \in Bad : \A y \in Bad : m <= y
    <3>1. Bad \in SUBSET Nat
      OBVIOUS
    <3> HIDE DEF Bad
    <3> QED BY <2>1, <3>1, LeastOf
  <2>3. m # 0
    <3>1. n - 0 = n
      BY <1>2
    <3>2. f[o[n - 0] + 1] = [records |-> <<>>, id |-> id]
      BY <1>18, <3>1
    <3>3. \E r : f[o[n - 0] + 1] = [records |-> r, id |-> id]
      BY <3>2
    <3> QED BY <2>2, <3>3
  <2>4. PICK j : j = n - (m - 1)
    OBVIOUS
  <2>5. m \in 1..n /\ m - 1 \in 0..n /\ m - 1 < m /\ j \in 1..n /\ n - m = j - 1
    BY <1>2, <2>2, <2>3, <2>4
  <2>6. m - 1 \notin Bad
    <3> HIDE DEF Bad
    <3> QED BY <2>2, <2>5
  <2>7. \E r : f[o[j] + 1] = [records |-> r, id |-> id]
    BY <2>4, <2>5, <2>6
  <2>8. \E r : f[o[j - 1] + 1] = [records |-> r, id |-> id]
    <3>1. PICK r : f[o[j] + 1] = [records |-> r, id |-> id]
      BY <2>7
    <3>2. f[o[j - 1] + 1] = PutFirst(w[j], f[o[j] + 1])
      BY <1>19, <2>5
    <3>3. PICK tail : tail = f[o[j] + 1]
      OBVIOUS
    <3>4. tail.id = id
      BY <3>1, <3>3
    <3>5. PICK q : q = <<w[j]>> \o tail.records
      OBVIOUS
    <3>6. f[o[j - 1] + 1] = [records |-> q, id |-> id]
      BY <3>2, <3>3, <3>4, <3>5 DEF PutFirst
    <3> QED BY <3>6
  <2> QED BY <2>2, <2>5, <2>8
<1>25. PICK r : f[1] = [records |-> r, id |-> id]
  BY <1>23, <1>24
<1>26. g[0] = f[1].records
  BY <1>20, <1>23
<1> QED BY <1>4, <1>15, <1>22, <1>25, <1>26

-----------------------------------------------------------------------------
(* Integers of variable width.                                             *)

LEMMA OneMoreBase ==
  ASSUME NEW base \in Nat \ {0}, NEW x \in 0..(base - 1)
  PROVE  (x + base) % base = x
<1>1. PICK y : y = x + base
  OBVIOUS
<1>2. PICK q : q = y \div base
  OBVIOUS
<1>3. PICK r : r = y % base
  OBVIOUS
<1>4. x \in Nat /\ x < base /\ base \in Nat /\ y \in Nat
  BY <1>1
<1>5. r \in 0..(base - 1) /\ y = r + base * q
  BY <1>2, <1>3, <1>4, ModFacts
<1>6. q \in Nat
  BY <1>2, <1>4
<1>7. CASE q = 0
  <2>1. base * 0 = 0
    OBVIOUS
  <2> QED BY <1>1, <1>4, <1>5, <1>7, <2>1
<1>8. CASE q = 1
  <2>1. base * 1 = base
    OBVIOUS
  <2> QED BY <1>1, <1>3, <1>4, <1>5, <1>8, <2>1
<1>9. CASE q > 1
  <2>1. PICK z : z = q - 2
    OBVIOUS
  <2>2. z \in Nat /\ q = z + 2
    BY <1>6, <1>9, <2>1
  <2>3. base * (z + 2) = base * z + base + base /\ base * z \in Nat
    BY <2>2
  <2>4. PICK w : w = base * z
    OBVIOUS
  <2>5. y = r + w + base + base /\ w \in Nat
    BY <1>4, <1>5, <2>2, <2>3, <2>4
  <2> QED BY ONLY <1>1, <1>4, <1>5, <2>5
<1> QED BY <1>6, <1>7, <1>8, <1>9

\* The bytes of a value before the one that is its last.
EndsAt(left, half, n, k) == k \in 0..(n - 1) /\ left[k + 1] < half /\ \A m \in 1..k : left[m] >= half

VarintOf(left, half, size, k) ==
  [i \in 1..(k + 1) |-> IF i <= k THEN (left[i] % half) + half ELSE left[i] % size]

LensOf(s, at, half, n) ==
  {m \in 1..n : /\ at + m - 1 <= Len(s)
                /\ s[at + m - 1] < half
                /\ \A j \in 1..(m - 1) : s[at + j - 1] >= half}

LEMMA SomeByteIsLast ==
  ASSUME NEW half \in Nat \ {0}, NEW n \in Nat \ {0}, NEW value \in Nat, value < Power(half, n),
         NEW left, Shifts(left, value, half, n)
  PROVE  \E k \in 0..(n - 1) : left[k + 1] < half /\ \A m \in 1..k : left[m] >= half
<1> DEFINE Low == {i \in 1..n : left[i] < half}
<1>1. n \in Low
  BY DigitsAreEnough
<1>2. PICK i \in Low : \A y \in Low : i <= y
  <2>1. Low \in SUBSET Nat /\ Low # {}
    BY <1>1
  <2> HIDE DEF Low
  <2> QED BY <2>1, LeastOf
<1>3. PICK k : k = i - 1
  OBVIOUS
<1>4. i \in 1..n /\ k \in 0..(n - 1) /\ k + 1 = i /\ left[i] < half
  BY <1>3
<1>5. ASSUME NEW m \in 1..k
      PROVE  left[m] >= half
  <2>1. m \in 1..n /\ m < i
    BY <1>4
  <2>2. m \notin Low
    <3> HIDE DEF Low
    <3> QED BY <1>2, <1>4, <2>1
  <2>3. left[m] \in Nat /\ half \in Nat
    BY <2>1 DEF Shifts
  <2> QED BY <2>1, <2>2, <2>3
<1> QED BY <1>4, <1>5

IsVarint(v, left, half, n, k) ==
  /\ v \in Seq(Nat) /\ Len(v) = k + 1 /\ k \in Nat /\ k + 1 \in 1..n
  /\ v[k + 1] = left[k + 1] /\ v[k + 1] < half /\ v[k + 1] % half = left[k + 1] % half
  /\ \A i \in 1..k : v[i] >= half /\ v[i] % half = left[i] % half

LEMMA VarintIsBytes ==
  ASSUME NEW half \in Nat \ {0}, NEW n \in Nat \ {0}, NEW size \in Nat \ {0}, half < size,
         NEW value \in Nat, NEW left, Shifts(left, value, half, n),
         NEW k, EndsAt(left, half, n, k), NEW v, v = VarintOf(left, half, size, k)
  PROVE  IsVarint(v, left, half, n, k)
<1>1. k \in Nat /\ k + 1 \in 1..n /\ k + 1 \in 1..(k + 1) /\ ~(k + 1 <= k) /\ left[k + 1] < half
  BY DEF EndsAt
<1>2. \A i \in 1..(k + 1) : left[i] \in Nat
  BY <1>1 DEF Shifts
<1>3. v[k + 1] = left[k + 1] % size /\ \A i \in 1..k : v[i] = (left[i] % half) + half
  <2>1. \A i \in 1..k : i \in 1..(k + 1) /\ i <= k
    BY <1>1
  <2> QED BY <1>1, <2>1 DEF VarintOf
<1>4. v[k + 1] = left[k + 1]
  <2>1. PICK x : x = left[k + 1]
    OBVIOUS
  <2>2. x \in Nat /\ x < size
    BY <1>1, <1>2, <2>1
  <2>3. x % size = x
    BY <2>2, ModFacts
  <2> QED BY <1>3, <2>1, <2>3
<1>5. ASSUME NEW i \in 1..k
      PROVE  v[i] \in Nat /\ v[i] >= half /\ v[i] % half = left[i] % half
  <2>1. PICK x : x = left[i] % half
    OBVIOUS
  <2>2. x \in 0..(half - 1)
    <3>1. left[i] \in Nat
      BY <1>1, <1>2
    <3> QED BY <2>1, <3>1, ModFacts
  <2>3. (x + half) % half = x
    BY <2>2, OneMoreBase
  <2>4. v[i] = x + half
    BY <1>3, <2>1
  <2> QED BY <2>1, <2>2, <2>3, <2>4
<1>6. v \in [1..(k + 1) -> Nat]
  <2>1. \A i \in 1..(k + 1) : v[i] \in Nat
    <3>1. \A i \in 1..(k + 1) : i \in 1..k \/ i = k + 1
      BY <1>1
    <3> QED BY <1>1, <1>2, <1>4, <1>5, <3>1
  <2> QED BY <2>1 DEF VarintOf
<1>7. v \in Seq(Nat) /\ Len(v) = k + 1
  BY <1>1, <1>6
<1> QED BY <1>1, <1>4, <1>5, <1>7 DEF IsVarint

VarintIn(s, a, half, n, m, value) == LensOf(s, a, half, n) = {m} /\ Summed(s, a, m, half) = value

LEMMA VarintIsRead ==
  ASSUME NEW half \in Nat \ {0}, NEW n \in Nat \ {0}, NEW size \in Nat \ {0}, half < size,
         NEW value \in Nat, NEW left, Shifts(left, value, half, n),
         NEW k, EndsAt(left, half, n, k), NEW v, v = VarintOf(left, half, size, k),
         NEW s \in Seq(Nat), NEW at \in Nat, Lies(s, at, v)
  PROVE  VarintIn(s, at + 1, half, n, k + 1, value)
<1>1. PICK a : a = at + 1
  OBVIOUS
<1>2. /\ v \in Seq(Nat) /\ Len(v) = k + 1 /\ k + 1 \in 1..n /\ k \in Nat
      /\ v[k + 1] < half /\ v[k + 1] % half = left[k + 1] % half
      /\ \A i \in 1..k : v[i] >= half /\ v[i] % half = left[i] % half
  <2>1. IsVarint(v, left, half, n, k)
    BY VarintIsBytes
  <2> QED BY <2>1 DEF IsVarint
<1>3. a \in Nat \ {0} /\ a + (k + 1) - 1 <= Len(s) /\ Len(s) \in Nat
  BY <1>1, <1>2 DEF Lies
<1>4. \A i \in 1..(k + 1) : s[a + i - 1] = v[i]
  <2> TAKE i \in 1..(k + 1)
  <2>1. s[at + i] = v[i]
    BY <1>2 DEF Lies
  <2>2. a + i - 1 = at + i
    BY <1>1, <1>2
  <2> QED BY <2>1, <2>2
<1>5. \A i \in 1..k : s[a + i - 1] >= half
  <2>1. \A i \in 1..k : i \in 1..(k + 1)
    BY <1>2
  <2> QED BY <1>2, <1>4, <2>1
<1>6. s[a + (k + 1) - 1] < half
  <2>1. k + 1 \in 1..(k + 1)
    BY <1>2
  <2> QED BY <1>2, <1>4, <2>1
<1>7. k + 1 \in LensOf(s, a, half, n)
  <2>1. (k + 1) - 1 = k
    BY <1>2
  <2> QED BY <1>2, <1>3, <1>5, <1>6, <2>1 DEF LensOf
<1>8. ASSUME NEW m \in LensOf(s, a, half, n)
      PROVE  m = k + 1
  <2>1. m \in 1..n /\ a + m - 1 <= Len(s) /\ s[a + m - 1] < half /\ \A j \in 1..(m - 1) : s[a + j - 1] >= half
    BY DEF LensOf
  <2>2. s[a + m - 1] \in Nat /\ s[a + (k + 1) - 1] \in Nat /\ half \in Nat
    <3>1. a + m - 1 \in 1..Len(s) /\ a + (k + 1) - 1 \in 1..Len(s)
      BY <1>2, <1>3, <2>1
    <3> QED BY <3>1
  <2>3. ~(m < k + 1)
    <3>1. SUFFICES ASSUME m < k + 1
                   PROVE  FALSE
      OBVIOUS
    <3>2. m \in 1..k
      BY <1>2, <2>1, <3>1
    <3> QED BY <1>5, <2>1, <2>2, <3>2
  <2>4. ~(k + 1 < m)
    <3>1. SUFFICES ASSUME k + 1 < m
                   PROVE  FALSE
      OBVIOUS
    <3>2. k + 1 \in 1..(m - 1)
      BY <1>2, <2>1, <3>1
    <3> QED BY <1>6, <2>1, <2>2, <3>2
  <2> QED BY <1>2, <2>1, <2>3, <2>4
<1>9. Summed(s, a, k + 1, half) = value
  <2>1. PICK part : part = [i \in 1..(k + 1) |-> left[i]]
    OBVIOUS
  <2>2. \A i \in 1..(k + 1) : i \in 1..n /\ part[i] = left[i] /\ left[i] \in Nat
    BY <1>2, <2>1 DEF Shifts
  <2>3. Shifts(part, value, half, k + 1)
    <3>1. part \in [1..(k + 1) -> Nat]
      BY <2>1, <2>2
    <3>2. 1 \in 1..(k + 1) /\ \A i \in 2..(k + 1) : i \in 2..n /\ i \in 1..(k + 1) /\ i - 1 \in 1..(k + 1)
      BY <1>2
    <3> QED BY <2>2, <3>1, <3>2 DEF Shifts
  <2>4. part[k + 1] < half
    <3>1. k + 1 \in 1..(k + 1)
      BY <1>2
    <3> QED BY <2>2, <3>1 DEF EndsAt
  <2>5. \A i \in 1..(k + 1) : s[a + i - 1] % half = part[i] % half
    <3>1. \A i \in 1..(k + 1) : i \in 1..k \/ i = k + 1
      BY <1>2
    <3> QED BY <1>2, <1>4, <2>2, <3>1
  <2>6. PICK m : m = k + 1
    OBVIOUS
  <2>7. /\ m \in Nat \ {0} /\ Shifts(part, value, half, m) /\ part[m] < half /\ a + m - 1 <= Len(s)
        /\ \A i \in 1..m : s[a + i - 1] % half = part[i] % half
    BY <1>2, <1>3, <2>3, <2>4, <2>5, <2>6
  <2>8. a \in Nat \ {0}
    BY <1>3
  <2>9. Summed(s, a, m, half) = value
    BY <2>7, <2>8, SumOfShifts
  <2> QED BY <2>6, <2>9
<1> QED BY <1>1, <1>7, <1>8, <1>9 DEF VarintIn

\* getVarint32() and getVarint64() take back what setVarint32() and
\* setVarint64() wrote, and no byte behind it.
THEOREM VarintReadsBack ==
  ASSUME NEW value \in Nat, value < Power(Half, VarintLen),
         NEW s \in Seq(Nat), NEW at \in Nat, Lies(s, at, SetVarint(value))
  PROVE  /\ VarintEnd(s, at + 1) = at + 1 + Len(SetVarint(value))
         /\ GetVarint(s, at + 1) = value
<1>1. PICK half : half = Half
  OBVIOUS
<1>2. /\ half \in Nat \ {0} /\ VarintLen \in Nat \ {0} /\ ByteSize \in Nat \ {0} /\ half < ByteSize
      /\ half + half = ByteSize
  BY <1>1, CodingAssumption DEF Half
<1>3. PICK left : left = Shifted(value, half, VarintLen)
  OBVIOUS
<1>4. Shifts(left, value, half, VarintLen)
  BY <1>2, <1>3, ShiftedShifts
<1>5. PICK k : k = VarintSteps(value)
  OBVIOUS
<1>6. EndsAt(left, half, VarintLen, k)
  <2>1. \E x \in 0..(VarintLen - 1) : left[x + 1] < half /\ \A m \in 1..x : left[m] >= half
    BY <1>1, <1>2, <1>4, SomeByteIsLast
  <2>2. k = CHOOSE x \in 0..(VarintLen - 1) : left[x + 1] < half /\ \A m \in 1..x : left[m] >= half
    BY <1>1, <1>3, <1>5 DEF VarintSteps
  <2> QED BY <2>1, <2>2 DEF EndsAt
<1>7. PICK v : v = SetVarint(value)
  OBVIOUS
<1>8. v = VarintOf(left, half, ByteSize, k)
  BY <1>1, <1>3, <1>5, <1>7 DEF SetVarint, VarintOf
<1>9. v \in Seq(Nat) /\ Len(v) = k + 1 /\ k \in Nat /\ k + 1 \in 1..VarintLen
  <2>1. IsVarint(v, left, half, VarintLen, k)
    BY <1>2, <1>4, <1>6, <1>8, VarintIsBytes
  <2> QED BY <2>1 DEF IsVarint
<1>10. PICK a : a = at + 1
  OBVIOUS
<1>11. LensOf(s, a, half, VarintLen) = {k + 1} /\ Summed(s, a, k + 1, half) = value
  <2>1. Lies(s, at, v)
    BY <1>7
  <2>2. VarintIn(s, at + 1, half, VarintLen, k + 1, value)
    BY <1>2, <1>4, <1>6, <1>8, <2>1, VarintIsRead
  <2> QED BY <1>10, <2>2 DEF VarintIn
<1>12. VarintLens(s, a) = {k + 1}
  BY <1>1, <1>11 DEF VarintLens, LensOf
<1>13. VarintEnd(s, a) = a + (k + 1)
  <2>1. a # 0 /\ VarintLens(s, a) # {}
    BY <1>10, <1>12
  <2>2. (CHOOSE m \in VarintLens(s, a) : TRUE) = k + 1
    BY <1>12
  <2> QED BY <2>1, <2>2 DEF VarintEnd
<1>14. VarintEnd(s, a) - a = k + 1
  BY <1>9, <1>10, <1>13
<1>15. GetVarint(s, a) = value
  BY <1>1, <1>11, <1>14 DEF GetVarint
<1> QED BY <1>7, <1>9, <1>10, <1>13, <1>15

LEMMA PowersOfWord == Power(8, 3) = 512 /\ Power(16, 2) = 256
<1>1. ASSUME NEW base \in Nat \ {0}, NEW n \in Nat, n > 1
      PROVE  /\ n = 2 => Power(base, n) = base * base
             /\ n = 3 => Power(base, n) = base * (base * base)
  <2>1. PICK p \in [0..n -> Nat] : p[0] = 1 /\ (\A i \in 1..n : p[i] = base * p[i - 1]) /\ Power(base, n) = p[n]
    BY PowerIsProduct
  <2>2. p[1] = base * p[0] /\ base * 1 = base /\ p[2] = base * p[1]
    BY <1>1, <2>1
  <2>3. p[2] = base * base
    BY <2>1, <2>2
  <2>4. n = 3 => p[3] = base * p[2]
    BY <2>1
  <2> QED BY <2>1, <2>3, <2>4
<1>2. 8 * (8 * 8) = 512 /\ 16 * 16 = 256
  OBVIOUS
<1> QED BY <1>1, <1>2

LEMMA WordIsShifted ==
  /\ \A value, base, n : Word!Shifted(value, base, n) = Shifted(value, base, n)
  /\ \A s, at, n, base : Word!Summed(s, at, n, base) = Summed(s, at, n, base)
  /\ Word!Half = 8
BY DEF Word!Shifted, Shifted, Word!Summed, Summed, Word!Half

\* The fixed width of a word.
LEMMA WordFixed ==
  ASSUME NEW value \in 0..255
  PROVE  /\ Word!SetFixed(value) \in Seq(Nat) /\ Len(Word!SetFixed(value)) = 2
         /\ \A s \in Seq(Nat), at \in Nat : Lies(s, at, Word!SetFixed(value)) =>
              Word!HasFixed(s, at + 1) /\ Word!GetFixed(s, at + 1) = value
<1>1. PICK left : left = Shifted(value, 16, 2)
  OBVIOUS
<1>2. value \in Nat /\ 16 \in Nat \ {0} /\ 2 \in Nat \ {0} /\ value < 256
  OBVIOUS
<1>3. Shifts(left, value, 16, 2)
  BY <1>1, <1>2, ShiftedShifts
<1>4. left[2] < 16
  BY <1>2, <1>3, DigitsAreEnough, PowersOfWord
<1>5. PICK d : d = Word!SetFixed(value)
  OBVIOUS
<1>6. d = [i \in 1..2 |-> left[i] % 16]
  <2>1. d = [i \in 1..2 |-> Word!Shifted(value, 16, 2)[i] % 16]
    BY <1>5 DEF Word!SetFixed
  <2>2. Word!Shifted(value, 16, 2) = left
    BY <1>1, WordIsShifted
  <2> QED BY <2>1, <2>2
<1>7. \A i \in 1..2 : left[i] \in Nat /\ left[i] % 16 \in Nat
  BY <1>3 DEF Shifts
<1>8. d \in [1..2 -> Nat]
  BY <1>6, <1>7
<1>9. d \in Seq(Nat) /\ Len(d) = 2
  <2>1. PICK n : n = 2
    OBVIOUS
  <2>2. n \in Nat /\ d \in [1..n -> Nat]
    BY <1>8, <2>1
  <2>3. d \in Seq(Nat) /\ Len(d) = n
    BY <2>2
  <2> QED BY <2>1, <2>3
<1>10. ASSUME NEW s \in Seq(Nat), NEW at \in Nat, Lies(s, at, d)
       PROVE  Word!HasFixed(s, at + 1) /\ Word!GetFixed(s, at + 1) = value
  <2>1. at + 2 <= Len(s) /\ \A i \in 1..2 : s[at + i] = left[i] % 16
    BY <1>6, <1>9, <1>10 DEF Lies
  <2>2. PICK a : a = at + 1
    OBVIOUS
  <2>3. a \in Nat \ {0} /\ \A i \in 1..2 : a + i - 1 = at + i
    BY <2>2
  <2>4. a + 2 - 1 <= Len(s) /\ Len(s) \in Nat
    BY <2>1, <2>2
  <2>5. \A i \in 1..2 : s[a + i - 1] % 16 = left[i] % 16
    <3> TAKE i \in 1..2
    <3>1. s[a + i - 1] = left[i] % 16
      BY <2>1, <2>3
    <3>2. \A x \in Nat : (x % 16) % 16 = x % 16
      OBVIOUS
    <3> QED BY <1>7, <3>1, <3>2
  <2>6. Summed(s, a, 2, 16) = value
    <3>1. PICK n : n = 2
      OBVIOUS
    <3>2. PICK base : base = 16
      OBVIOUS
    <3>3. /\ n \in Nat \ {0} /\ base \in Nat \ {0} /\ Shifts(left, value, base, n) /\ left[n] < base
          /\ a + n - 1 <= Len(s) /\ \A i \in 1..n : s[a + i - 1] % base = left[i] % base
      BY <1>3, <1>4, <2>4, <2>5, <3>1, <3>2
    <3>4. Summed(s, a, n, base) = value
      BY <1>2, <2>3, <3>3, SumOfShifts
    <3> QED BY <3>1, <3>2, <3>4
  <2>7. Word!Summed(s, a, 2, 16) = value
    BY <2>6, WordIsShifted
  <2> QED BY <2>2, <2>4, <2>7 DEF Word!HasFixed, Word!GetFixed
<1> QED BY <1>5, <1>9, <1>10

\* The variable width of a word.
WordVarintRead(value) ==
  /\ Word!SetVarint(value) \in Seq(Nat)
  /\ \A s \in Seq(Nat) : Lies(s, 0, Word!SetVarint(value)) =>
       /\ Word!VarintLens(s, 1) = {Len(Word!SetVarint(value))}
       /\ Word!GetVarint(s, 1) = value

LEMMA WordVarint ==
  ASSUME NEW value \in 0..255
  PROVE  WordVarintRead(value)
<1>1. PICK half : half = 8
  OBVIOUS
<1>2. PICK n : n = 3
  OBVIOUS
<1>3. PICK size : size = 16
  OBVIOUS
<1>4. /\ half \in Nat \ {0} /\ n \in Nat \ {0} /\ size \in Nat \ {0} /\ half < size
      /\ value \in Nat /\ value < Power(half, n)
  BY <1>1, <1>2, <1>3, PowersOfWord
<1>5. PICK left : left = Shifted(value, half, n)
  OBVIOUS
<1>6. Shifts(left, value, half, n)
  BY <1>4, <1>5, ShiftedShifts
<1>7. left = Word!Shifted(value, 8, 3)
  BY <1>1, <1>2, <1>5, WordIsShifted
<1>8. PICK k : k = Word!VarintSteps(value)
  OBVIOUS
<1>9. EndsAt(left, half, n, k)
  <2>1. \E x \in 0..(n - 1) : left[x + 1] < half /\ \A m \in 1..x : left[m] >= half
    BY <1>4, <1>6, SomeByteIsLast
  <2>2. k = CHOOSE x \in 0..(3 - 1) : left[x + 1] < 8 /\ \A m \in 1..x : left[m] >= 8
    BY <1>7, <1>8, WordIsShifted DEF Word!VarintSteps
  <2>3. k = CHOOSE x \in 0..(n - 1) : left[x + 1] < half /\ \A m \in 1..x : left[m] >= half
    BY <1>1, <1>2, <2>2
  <2> QED BY <2>1, <2>3 DEF EndsAt
<1>10. PICK v : v = Word!SetVarint(value)
  OBVIOUS
<1>11. v = VarintOf(left, half, size, k)
  <2>1. v = [i \in 1..(k + 1) |-> IF i <= k THEN (left[i] % 8) + 8 ELSE left[i] % 16]
    BY <1>7, <1>8, <1>10, WordIsShifted DEF Word!SetVarint
  <2> QED BY <1>1, <1>3, <2>1 DEF VarintOf
<1>12. v \in Seq(Nat) /\ Len(v) = k + 1 /\ k \in Nat
  <2>1. IsVarint(v, left, half, n, k)
    BY <1>4, <1>6, <1>9, <1>11, VarintIsBytes
  <2> QED BY <2>1 DEF IsVarint
<1>13. ASSUME NEW s \in Seq(Nat), Lies(s, 0, v)
       PROVE  Word!VarintLens(s, 1) = {k + 1} /\ Word!GetVarint(s, 1) = value
  <2>1. PICK at : at = 0
    OBVIOUS
  <2>2. at \in Nat /\ Lies(s, at, v) /\ at + 1 = 1
    BY <1>13, <2>1
  <2>3. VarintIn(s, at + 1, half, n, k + 1, value)
    BY <1>4, <1>6, <1>9, <1>11, <2>2, VarintIsRead
  <2>4. LensOf(s, 1, half, n) = {k + 1} /\ Summed(s, 1, k + 1, half) = value
    BY <2>2, <2>3 DEF VarintIn
  <2>5. Word!VarintLens(s, 1) = {k + 1}
    <3>1. Word!VarintLens(s, 1) = {m \in 1..3 : /\ 1 + m - 1 <= Len(s)
                                               /\ s[1 + m - 1] < 8
                                               /\ \A j \in 1..(m - 1) : s[1 + j - 1] >= 8}
      BY WordIsShifted DEF Word!VarintLens
    <3>2. Word!VarintLens(s, 1) = LensOf(s, 1, half, n)
      BY <1>1, <1>2, <3>1 DEF LensOf
    <3> QED BY <2>4, <3>2
  <2>6. Word!VarintEnd(s, 1) - 1 = k + 1
    <3>1. (CHOOSE m \in Word!VarintLens(s, 1) : TRUE) = k + 1
      BY <2>5
    <3>2. Word!VarintEnd(s, 1) = 1 + (k + 1)
      BY <2>5, <3>1 DEF Word!VarintEnd
    <3> QED BY <1>12, <3>2
  <2>7. Word!GetVarint(s, 1) = Word!Summed(s, 1, k + 1, 8)
    BY <2>6, WordIsShifted DEF Word!GetVarint
  <2> QED BY <1>1, <2>4, <2>5, <2>7, WordIsShifted
<1> QED BY <1>10, <1>12, <1>13 DEF WordVarintRead

NumberReadsBack(value, s) ==
  \E n \in Word!VarintLens(s, 1) :
    /\ Word!GetVarint(s, 1) = value
    /\ Word!HasFixed(s, n + 1) /\ Word!GetFixed(s, n + 1) = value
    /\ n + 2 = Len(s)

LEMMA NumbersReadBack ==
  ASSUME NEW value \in 0..255
  PROVE  NumberReadsBack(value, Word!SetVarint(value) \o Word!SetFixed(value))
<1>1. PICK v : v = Word!SetVarint(value)
  OBVIOUS
<1>2. PICK d : d = Word!SetFixed(value)
  OBVIOUS
<1>3. PICK s : s = v \o d
  OBVIOUS
<1>4. v \in Seq(Nat) /\ d \in Seq(Nat) /\ Len(d) = 2
  BY <1>1, <1>2, WordVarint, WordFixed DEF WordVarintRead
<1>5. s \in Seq(Nat) /\ Joined(v, d, s)
  BY <1>3, <1>4, Joins
<1>6. PICK n : n = Len(v)
  OBVIOUS
<1>7. n \in Nat /\ Len(s) = n + 2
  BY <1>4, <1>5, <1>6 DEF Joined
<1>8. Lies(s, 0, v) /\ Lies(s, n, d)
  <2>1. (\A q \in 1..n : s[q] = v[q]) /\ (\A q \in 1..2 : s[n + q] = d[q])
    BY <1>4, <1>5, <1>6 DEF Joined
  <2> QED BY <1>4, <1>6, <1>7, <2>1 DEF Lies
<1>9. Word!VarintLens(s, 1) = {n} /\ Word!GetVarint(s, 1) = value
  BY <1>1, <1>5, <1>6, <1>8, WordVarint DEF WordVarintRead
<1>10. Word!HasFixed(s, n + 1) /\ Word!GetFixed(s, n + 1) = value
  BY <1>2, <1>5, <1>7, <1>8, WordFixed
<1> QED BY <1>1, <1>2, <1>3, <1>7, <1>9, <1>10 DEF NumberReadsBack

-----------------------------------------------------------------------------
(* What the model logs.                                                    *)

LEMMA SmallFits ==
  ASSUME NEW value \in Nat, value < ByteSize
  PROVE  Fits(value)
<1>1. PICK n : n = FixedLen
  OBVIOUS
<1>2. n \in Nat /\ n > 0 /\ ByteSize \in Nat \ {0} /\ n - 1 \in 0..n
  BY <1>1, CodingAssumption
<1>3. PICK p \in [0..n -> Nat] : /\ p[0] = 1 /\ (\A i \in 1..n : p[i] = ByteSize * p[i - 1])
                                 /\ Power(ByteSize, n) = p[n]
  BY <1>2, PowerIsProduct
<1> DEFINE Bad == {i \in 0..n : p[i] = 0}
<1>4. \A x, y \in Nat : x # 0 /\ y # 0 => x * y # 0 /\ x * y >= x
  OBVIOUS
<1>5. Bad = {}
  <2>1. SUFFICES ASSUME Bad # {}
                 PROVE  FALSE
    OBVIOUS
  <2>2. PICK m \in Bad : \A y \in Bad : m <= y
    <3>1. Bad \in SUBSET Nat
      OBVIOUS
    <3> HIDE DEF Bad
    <3> QED BY <2>1, <3>1, LeastOf
  <2>3. m \in 1..n /\ m - 1 \in 0..n /\ m - 1 < m
    <3>1. m \in 0..n /\ p[m] = 0
      BY <2>2
    <3>2. m # 0
      BY ONLY <1>3, <3>1
    <3> QED BY ONLY <1>2, <3>1, <3>2
  <2>4. m - 1 \notin Bad
    <3> HIDE DEF Bad
    <3> QED BY <2>2, <2>3
  <2>5. p[m - 1] \in Nat /\ p[m - 1] # 0
    BY <1>3, <2>3, <2>4
  <2> QED BY <1>2, <1>3, <1>4, <2>2, <2>3, <2>5
<1>6. p[n - 1] \in Nat /\ p[n - 1] # 0
  BY <1>2, <1>3, <1>5
<1>7. p[n] = ByteSize * p[n - 1]
  BY <1>2, <1>3
<1>8. p[n] >= ByteSize /\ p[n] \in Nat
  BY <1>2, <1>3, <1>4, <1>6, <1>7
<1> QED BY <1>1, <1>2, <1>3, <1>8 DEF Fits

PairRecords == [key : Texts, value : Texts]

PairsLogged ==
  which = "pairs" =>
    /\ bytes \in Seq(Nat) /\ written \in Seq(PairRecords)
    /\ \E o : RowsLie(bytes, PairRows(written), Len(written), o)

ManifestLogged ==
  which = "manifest" =>
    \E w \in Seq(FitRecords), id \in Nat :
      written = [records |-> w, id |-> id] /\ bytes = ManifestBytes(w, id)

NumberLogged ==
  which = "number" => written \in 0..255 /\ bytes = Word!SetVarint(written) \o Word!SetFixed(written)

FilesInv == PairsLogged /\ ManifestLogged /\ NumberLogged

\* The strings and records of the model are such as fit a word.
LEMMA ModelTexts ==
  /\ <<97>> \in Texts /\ <<97, 98>> \in Texts /\ <<1, 0, 0, 0>> \in Texts /\ <<>> \in Texts
  /\ Records \subseteq FitRecords
<1>1. \A n \in 0..9 : Fits(n)
  <2>1. \A n \in 0..9 : n \in Nat /\ n < ByteSize
    BY ContainersAssumption, CodingAssumption
  <2> QED BY <2>1, SmallFits
<1>2. <<97>> \in Texts /\ <<97, 98>> \in Texts /\ <<1, 0, 0, 0>> \in Texts /\ <<>> \in Texts
  <2>1. <<97>> \in Seq(Nat) /\ Len(<<97>>) = 1
    OBVIOUS
  <2>2. <<97, 98>> \in Seq(Nat) /\ Len(<<97, 98>>) = 2
    OBVIOUS
  <2>3. <<1, 0, 0, 0>> \in Seq(Nat) /\ Len(<<1, 0, 0, 0>>) = 4
    OBVIOUS
  <2>4. <<>> \in Seq(Nat) /\ Len(<<>>) = 0
    OBVIOUS
  <2> QED BY <1>1, <2>1, <2>2, <2>3, <2>4 DEF Texts
<1>3. ASSUME NEW id \in {1, 2}
      PROVE  FileName(id) \in Texts
  <2>1. PICK n : n = 9
    OBVIOUS
  <2>2. PICK f : f = FileName(id)
    OBVIOUS
  <2>3. f \in [1..n -> Nat] /\ n \in Nat
    <3>1. \A i \in 1..9 : (IF i = 5 THEN 48 + id ELSE 115) \in Nat
      OBVIOUS
    <3> QED BY <2>1, <2>2, <3>1 DEF FileName
  <2>4. f \in Seq(Nat) /\ Len(f) = n
    BY <2>3
  <2>5. n \in 0..9 /\ Fits(Len(f))
    BY <1>1, <2>1, <2>4
  <2> QED BY <2>2, <2>4, <2>5 DEF Texts
<1>4. ASSUME NEW rec \in Records
      PROVE  rec \in FitRecords
  <2>1. PICK N : N = {FileName(1), FileName(2)}
    OBVIOUS
  <2>2. PICK M : M = {<<97>>}
    OBVIOUS
  <2>3. PICK X : X = {<<97>>, <<97, 98>>}
    OBVIOUS
  <2>4. N \subseteq Texts /\ M \subseteq Texts /\ X \subseteq Texts
    BY <1>2, <1>3, <2>1, <2>2, <2>3
  <2>5. PICK L : L = {l \in Nat : Fits(l)}
    OBVIOUS
  <2>6. {0, 1} \subseteq L
    BY <1>1, <2>5
  <2>7. rec \in [level : {0, 1}, name : N, min : M, max : X]
    BY <2>1, <2>2, <2>3 DEF Records
  <2>8. rec \in [level : L, name : Texts, min : Texts, max : Texts]
    BY <2>4, <2>6, <2>7
  <2> QED BY <2>5, <2>8 DEF FitRecords
<1> QED BY <1>2, <1>4

LEMMA PairsInit ==
  ASSUME written = <<>>, bytes = <<>>
  PROVE  /\ bytes \in Seq(Nat) /\ written \in Seq(PairRecords)
         /\ \E o : RowsLie(bytes, PairRows(written), Len(written), o)
<1>1. <<>> \in Seq(Nat) /\ <<>> \in Seq(PairRecords) /\ Len(<<>>) = 0
  OBVIOUS
<1>2. PairRows(<<>>) = <<>>
  BY <1>1 DEF PairRows
<1> QED BY <1>1, <1>2, NoRowsLie

LEMMA FilesInit == MCInit => FilesInv
<1> SUFFICES ASSUME MCInit PROVE FilesInv
  OBVIOUS
<1>1. which = "pairs" => written = <<>> /\ bytes = <<>>
  BY DEF MCInit, FileInit
<1>2. NumberLogged
  BY DEF MCInit, FileInit, NumberLogged
<1>3. ManifestLogged
  <2> SUFFICES ASSUME which = "manifest"
               PROVE  \E w \in Seq(FitRecords), id \in Nat :
                        written = [records |-> w, id |-> id] /\ bytes = ManifestBytes(w, id)
    BY DEF ManifestLogged
  <2>1. PICK W : W = UNION {[1..n -> Records] : n \in 0..2}
    OBVIOUS
  <2>2. written \in [records : W, id : 1..5] /\ bytes = ManifestBytes(written.records, written.id)
    BY <2>1 DEF MCInit, FileInit
  <2>3. PICK w \in W, id \in 1..5 : written = [records |-> w, id |-> id]
    BY <2>2
  <2>4. PICK n \in 0..2 : w \in [1..n -> Records]
    BY <2>1
  <2>5. w \in [1..n -> FitRecords] /\ n \in Nat
    BY <2>4, ModelTexts
  <2>6. w \in Seq(FitRecords)
    BY <2>5
  <2>7. bytes = ManifestBytes(w, id)
    BY <2>2, <2>3
  <2> QED BY <2>3, <2>6, <2>7
<1> QED BY <1>1, <1>2, <1>3, PairsInit DEF FilesInv, PairsLogged

LEMMA PairIsLogged ==
  ASSUME PairsLogged, which = "pairs", LogPair
  PROVE  /\ bytes' \in Seq(Nat) /\ written' \in Seq(PairRecords)
         /\ \E o : RowsLie(bytes', PairRows(written'), Len(written'), o)
<1>1. PICK key \in Texts, value \in Texts :
        bytes' = bytes \o PairRow(key, value) /\ written' = Append(written, [key |-> key, value |-> value])
  BY ModelTexts DEF LogPair
<1>2. bytes \in Seq(Nat) /\ written \in Seq(PairRecords)
  BY DEF PairsLogged
<1>3. PICK n : n = Len(written)
  OBVIOUS
<1>4. PICK o : RowsLie(bytes, PairRows(written), n, o)
  BY <1>3 DEF PairsLogged
<1>5. PICK rows : rows = PairRows(written)
  OBVIOUS
<1>6. PICK pair : pair = [key |-> key, value |-> value]
  OBVIOUS
<1>7. pair \in PairRecords /\ pair.key = key /\ pair.value = value
  BY <1>6 DEF PairRecords
<1>8. PICK row : row = PairRow(key, value)
  OBVIOUS
<1>9. \A k \in Texts, v \in Texts : PairRow(k, v) \in Seq(Nat)
  <2> TAKE k \in Texts, v \in Texts
  <2>1. Text(k) \in Seq(Nat) /\ Text(v) \in Seq(Nat)
    BY TextIsText DEF Texts
  <2> QED BY <2>1 DEF PairRow
<1>10. n \in Nat /\ rows = [i \in 1..n |-> PairRow(written[i].key, written[i].value)]
  BY <1>2, <1>3, <1>5 DEF PairRows
<1>11. \A i \in 1..n : written[i].key \in Texts /\ written[i].value \in Texts
  <2> TAKE i \in 1..n
  <2>1. written[i] \in PairRecords
    BY <1>2, <1>3, ElementOfSeq
  <2> QED BY <2>1 DEF PairRecords
<1>12. rows \in Seq(Seq(Nat)) /\ Len(rows) = n
  <2>1. rows \in [1..n -> Seq(Nat)]
    BY <1>9, <1>10, <1>11
  <2> QED BY <1>10, <2>1
<1>13. row \in Seq(Nat)
  BY <1>8, <1>9
<1>14. PICK p : RowsLie(bytes \o row, Append(rows, row), n + 1, p)
  BY <1>2, <1>4, <1>5, <1>10, <1>12, <1>13, RowIsAppended
<1>15. written' \in Seq(PairRecords) /\ Len(written') = n + 1
       /\ written'[n + 1] = pair /\ \A i \in 1..n : written'[i] = written[i]
  BY <1>1, <1>2, <1>3, <1>6, <1>7
<1>16. PairRows(written') = Append(rows, row)
  <2>1. PICK all : all = Append(rows, row)
    OBVIOUS
  <2>2. all = [i \in 1..(n + 1) |-> all[i]] /\ all[n + 1] = row /\ \A i \in 1..n : all[i] = rows[i]
    BY <1>10, <1>12, <1>13, <2>1
  <2>3. \A i \in 1..(n + 1) : all[i] = PairRow(written'[i].key, written'[i].value)
    <3> TAKE i \in 1..(n + 1)
    <3>1. CASE i = n + 1
      BY <1>7, <1>8, <1>15, <2>2, <3>1
    <3>2. CASE i \in 1..n
      BY <1>10, <1>15, <2>2, <3>2
    <3> QED BY <1>10, <3>1, <3>2
  <2>4. PairRows(written') = [i \in 1..(n + 1) |-> PairRow(written'[i].key, written'[i].value)]
    BY <1>15 DEF PairRows
  <2> QED BY <2>1, <2>2, <2>3, <2>4
<1>17. bytes' = bytes \o row /\ bytes \o row \in Seq(Nat)
  BY <1>1, <1>2, <1>8, <1>13
<1> QED BY <1>14, <1>15, <1>16, <1>17

LEMMA FilesStep ==
  ASSUME FilesInv, [MCNext]_vars
  PROVE  FilesInv'
<1>1. CASE UNCHANGED <<which, bytes, written>>
  <2>1. PairsLogged'
    BY <1>1 DEF FilesInv, PairsLogged, RowsLie
  <2>2. ManifestLogged'
    BY <1>1 DEF FilesInv, ManifestLogged
  <2>3. NumberLogged'
    BY <1>1 DEF FilesInv, NumberLogged
  <2> QED BY <2>1, <2>2, <2>3 DEF FilesInv
<1>2. CASE FileStep
  <2>1. CASE Use("pairs", MaxRows) /\ LogPair
    <3>1. which = "pairs" /\ which' = "pairs"
      BY <2>1 DEF Use
    <3>2. PairsLogged'
      BY <2>1, <3>1, PairIsLogged DEF FilesInv, PairsLogged
    <3> QED BY <3>1, <3>2 DEF FilesInv, ManifestLogged, NumberLogged
  <2>2. CASE Use("ring", MaxRows)
    <3>1. which' = "ring"
      BY <2>2 DEF Use
    <3> QED BY <3>1 DEF FilesInv, PairsLogged, ManifestLogged, NumberLogged
  <2> QED BY <1>2, <2>1, <2>2 DEF FileStep
<1>3. CASE CacheStep \/ NameStep \/ ListStep \/ ClientStep
  BY <1>1, <1>3 DEF CacheStep, NameStep, ListStep, ClientStep, Use, files
<1>4. CASE MakeTable
  BY <1>1, <1>4 DEF MakeTable, MakeTable, Use
<1>5. CASE UNCHANGED vars
  BY <1>1, <1>5 DEF vars, files
<1> QED BY <1>2, <1>3, <1>4, <1>5 DEF MCNext

LEMMA FilesHold ==
  ASSUME FilesInv
  PROVE  LogsReadBack
<1>1. ASSUME which = "pairs"
      PROVE  Pairs(bytes) = written
  BY <1>1, PairsReadBack DEF FilesInv, PairsLogged, PairRecords
<1>2. ASSUME which = "manifest"
      PROVE  ManifestRead(bytes) = written
  BY <1>2, ManifestReadsBack DEF FilesInv, ManifestLogged
<1>3. ASSUME which = "number"
      PROVE  NumberReadsBack(written, bytes)
  BY <1>3, NumbersReadBack DEF FilesInv, NumberLogged
<1> QED BY <1>1, <1>2, <1>3 DEF LogsReadBack, NumberReadsBack

\* What DBImpl reads from WAL_memtable.log (wal.cpp:20) and ManiFest from
\* manifest.log (manifest.cpp:18) is what was written, in order, whatever bytes the
\* strings are made of, and an integer is read back from between others.
THEOREM LogsAreReadBack == MCSpec => []LogsReadBack
<1>1. FilesInv /\ [MCNext]_vars => FilesInv'
  BY FilesStep
<1>2. FilesInv => LogsReadBack
  BY FilesHold
<1> QED BY FilesInit, <1>1, <1>2, PTL DEF MCSpec

-----------------------------------------------------------------------------
(* The order of strings.                                                   *)

Str == Seq(Nat)

\* The first place where two strings differ, and s is the lesser.
LessAt(s, t, i) ==
  /\ i \in 1..Len(t) /\ i <= Len(s) + 1
  /\ \A q \in 1..(i - 1) : s[q] = t[q]
  /\ i <= Len(s) => s[i] < t[i]

LEMMA LessIsAt ==
  ASSUME NEW s \in Str, NEW t \in Str
  PROVE  Less(s, t) <=> \E i \in Nat : LessAt(s, t, i)
<1>1. Len(s) \in Nat /\ Len(t) \in Nat
  BY DEF Str
<1>2. ASSUME NEW i \in 1..Len(t), i <= Len(s) + 1
      PROVE  SubSeq(s, 1, i - 1) = SubSeq(t, 1, i - 1) <=> \A q \in 1..(i - 1) : s[q] = t[q]
  <2>1. SubSeq(s, 1, i - 1) = [q \in 1..(i - 1) |-> s[q]]
    <3>1. s \in Seq(Nat) /\ i - 1 \in 0..Len(s)
      BY <1>1, <1>2 DEF Str
    <3> QED BY <3>1
  <2>2. SubSeq(t, 1, i - 1) = [q \in 1..(i - 1) |-> t[q]]
    <3>1. t \in Seq(Nat) /\ i - 1 \in 0..Len(t)
      BY <1>1, <1>2 DEF Str
    <3> QED BY <3>1
  <2>3. PICK f : f = [q \in 1..(i - 1) |-> s[q]]
    OBVIOUS
  <2>4. PICK g : g = [q \in 1..(i - 1) |-> t[q]]
    OBVIOUS
  <2>5. f = g <=> \A q \in 1..(i - 1) : f[q] = g[q]
    BY <2>3, <2>4
  <2> QED BY <2>1, <2>2, <2>3, <2>4, <2>5
<1>3. ASSUME NEW i \in 1..Len(t)
      PROVE  (/\ i <= Len(s) + 1
              /\ SubSeq(s, 1, i - 1) = SubSeq(t, 1, i - 1)
              /\ i <= Len(s) => s[i] < t[i]) <=> LessAt(s, t, i)
  BY <1>2 DEF LessAt
<1>4. Less(s, t) <=> \E i \in 1..Len(t) : LessAt(s, t, i)
  BY <1>3 DEF Less
<1>5. \A i \in 1..Len(t) : i \in Nat
  BY <1>1
<1>6. \A i : LessAt(s, t, i) => i \in 1..Len(t)
  BY DEF LessAt
<1> QED BY <1>4, <1>5, <1>6

LEMMA LessIsStrict ==
  ASSUME NEW s \in Str
  PROVE  ~Less(s, s)
<1>1. SUFFICES ASSUME NEW i \in Nat, LessAt(s, s, i)
               PROVE  FALSE
  BY LessIsAt
<1>2. i \in 1..Len(s) /\ s[i] < s[i] /\ s[i] \in Nat
  BY <1>1 DEF LessAt, Str
<1> QED BY <1>2

LEMMA LessIsTransitive ==
  ASSUME NEW s \in Str, NEW t \in Str, NEW u \in Str, Less(s, t), Less(t, u)
  PROVE  Less(s, u)
<1>1. PICK i \in Nat : LessAt(s, t, i)
  BY LessIsAt
<1>2. PICK j \in Nat : LessAt(t, u, j)
  BY LessIsAt
<1>3. /\ Len(s) \in Nat /\ Len(t) \in Nat /\ Len(u) \in Nat
      /\ (\A q \in 1..Len(s) : s[q] \in Nat) /\ (\A q \in 1..Len(t) : t[q] \in Nat) /\ (\A q \in 1..Len(u) : u[q] \in Nat)
  BY DEF Str
<1>4. i \in 1..Len(t) /\ i <= Len(s) + 1 /\ (\A q \in 1..(i - 1) : s[q] = t[q]) /\ (i <= Len(s) => s[i] < t[i])
  BY <1>1 DEF LessAt
<1>5. j \in 1..Len(u) /\ j <= Len(t) + 1 /\ (\A q \in 1..(j - 1) : t[q] = u[q]) /\ (j <= Len(t) => t[j] < u[j])
  BY <1>2 DEF LessAt
<1>6. CASE i < j
  <2>1. i \in 1..Len(u) /\ i \in 1..(j - 1) /\ \A q \in 1..(i - 1) : q \in 1..(j - 1)
    BY <1>3, <1>4, <1>5, <1>6
  <2>2. t[i] = u[i] /\ \A q \in 1..(i - 1) : s[q] = u[q]
    BY <1>4, <1>5, <2>1
  <2>3. LessAt(s, u, i)
    BY <1>4, <2>1, <2>2 DEF LessAt
  <2> QED BY <2>3, LessIsAt
<1>7. CASE i = j
  <2>1. \A q \in 1..(i - 1) : s[q] = u[q]
    BY <1>4, <1>5, <1>7
  <2>2. ASSUME i <= Len(s)
        PROVE  s[i] < u[i]
    <3>1. s[i] < t[i] /\ t[i] < u[i] /\ s[i] \in Nat /\ t[i] \in Nat /\ u[i] \in Nat
      BY <1>3, <1>4, <1>5, <1>7, <2>2
    <3> QED BY <3>1
  <2>3. LessAt(s, u, i)
    BY <1>4, <1>5, <1>7, <2>1, <2>2 DEF LessAt
  <2> QED BY <2>3, LessIsAt
<1>8. CASE j < i
  <2>1. j \in 1..Len(t) /\ j \in 1..Len(s) /\ j \in 1..(i - 1) /\ \A q \in 1..(j - 1) : q \in 1..(i - 1)
    BY <1>3, <1>4, <1>5, <1>8
  <2>2. s[j] = t[j] /\ t[j] < u[j] /\ \A q \in 1..(j - 1) : s[q] = u[q]
    BY <1>4, <1>5, <2>1
  <2>3. LessAt(s, u, j)
    BY <1>3, <1>5, <2>1, <2>2 DEF LessAt
  <2> QED BY <2>3, LessIsAt
<1> QED BY <1>6, <1>7, <1>8

LEMMA LessIsTotal ==
  ASSUME NEW s \in Str, NEW t \in Str
  PROVE  s = t \/ Less(s, t) \/ Less(t, s)
<1>1. PICK m : m = Len(s)
  OBVIOUS
<1>2. PICK n : n = Len(t)
  OBVIOUS
<1>3. /\ m \in Nat /\ n \in Nat
      /\ (\A q \in 1..m : s[q] \in Nat) /\ (\A q \in 1..n : t[q] \in Nat)
      /\ s = [q \in 1..m |-> s[q]] /\ t = [q \in 1..n |-> t[q]]
  BY <1>1, <1>2 DEF Str
<1> DEFINE Diff == {i \in Nat \ {0} : i > m \/ i > n \/ s[i] # t[i]}
<1>4. m + 1 \in Diff
  BY <1>3
<1>5. PICK i \in Diff : \A y \in Diff : i <= y
  <2>1. Diff \in SUBSET Nat /\ Diff # {}
    BY <1>4
  <2> HIDE DEF Diff
  <2> QED BY <2>1, LeastOf
<1>6. i \in Nat \ {0} /\ (i > m \/ i > n \/ s[i] # t[i])
  OBVIOUS
<1>7. \A q \in 1..(i - 1) : q <= m /\ q <= n /\ s[q] = t[q]
  <2> TAKE q \in 1..(i - 1)
  <2>1. q \in Nat \ {0} /\ q < i
    BY <1>6
  <2>2. q \notin Diff
    <3> HIDE DEF Diff
    <3> QED BY <1>5, <1>6, <2>1
  <2>3. ~(q > m) /\ ~(q > n) /\ s[q] = t[q]
    BY <2>1, <2>2
  <2> QED BY <1>3, <2>1, <2>3
<1>8. i <= m + 1 /\ i <= n + 1
  <2>1. CASE i = 1
    BY <1>3, <2>1
  <2>2. CASE i # 1
    <3>1. PICK q : q = i - 1
      OBVIOUS
    <3>2. q \in 1..(i - 1)
      BY <1>6, <2>2, <3>1
    <3>3. q <= m /\ q <= n
      BY <1>7, <3>2
    <3> QED BY <1>3, <1>6, <3>1, <3>3
  <2> QED BY <2>1, <2>2
<1>9. CASE i > m /\ i > n
  <2>1. m = i - 1 /\ n = i - 1
    BY <1>3, <1>6, <1>8, <1>9
  <2>2. [q \in 1..m |-> s[q]] = [q \in 1..n |-> t[q]]
    BY <1>7, <2>1
  <2> QED BY <1>3, <2>2
<1>10. CASE i > m /\ ~(i > n)
  <2>1. i \in 1..Len(t) /\ i <= Len(s) + 1 /\ ~(i <= Len(s))
    BY ONLY <1>1, <1>2, <1>3, <1>6, <1>8, <1>10
  <2>2. \A q \in 1..(i - 1) : s[q] = t[q]
    BY <1>7
  <2>3. LessAt(s, t, i)
    BY <2>1, <2>2 DEF LessAt
  <2> QED BY <1>6, <2>3, LessIsAt
<1>11. CASE ~(i > m) /\ i > n
  <2>1. i \in 1..Len(s) /\ i <= Len(t) + 1 /\ ~(i <= Len(t))
    BY ONLY <1>1, <1>2, <1>3, <1>6, <1>8, <1>11
  <2>2. \A q \in 1..(i - 1) : t[q] = s[q]
    BY <1>7
  <2>3. LessAt(t, s, i)
    BY <2>1, <2>2 DEF LessAt
  <2> QED BY <1>6, <2>3, LessIsAt
<1>12. CASE ~(i > m) /\ ~(i > n)
  <2>1. s[i] # t[i] /\ i \in 1..m /\ i \in 1..n /\ s[i] \in Nat /\ t[i] \in Nat
    BY <1>3, <1>6, <1>12
  <2>2. CASE s[i] < t[i]
    <3>1. LessAt(s, t, i)
      BY <1>1, <1>2, <1>7, <1>8, <2>1, <2>2 DEF LessAt
    <3> QED BY <1>6, <3>1, LessIsAt
  <2>3. CASE t[i] < s[i]
    <3>1. LessAt(t, s, i)
      BY <1>1, <1>2, <1>7, <1>8, <2>1, <2>3 DEF LessAt
    <3> QED BY <1>6, <3>1, LessIsAt
  <2> QED BY <2>1, <2>2, <2>3
<1> QED BY <1>9, <1>10, <1>11, <1>12

\* A finite set of strings has a greatest one and a least one.
LEMMA GreatestIs ==
  ASSUME NEW S \in SUBSET Str, IsFiniteSet(S), S # {}
  PROVE  Greatest(S) \in S /\ \A t \in S : LessEq(t, Greatest(S))
<1> DEFINE Lesser(x) == {y \in S : Less(y, x)}
           Rank(x) == Cardinality(S) - Cardinality(Lesser(x))
           Ranks == {Rank(x) : x \in S}
<1>1. Cardinality(S) \in Nat
  BY FS_CardinalityType
<1>2. ASSUME NEW x
      PROVE  Lesser(x) \subseteq S /\ IsFiniteSet(Lesser(x)) /\ Cardinality(Lesser(x)) \in Nat
             /\ Cardinality(Lesser(x)) <= Cardinality(S)
  <2>1. Lesser(x) \in SUBSET S
    OBVIOUS
  <2> HIDE DEF Lesser
  <2> QED BY <2>1, FS_Subset, FS_CardinalityType
<1>3. \A x \in S : Rank(x) \in Nat
  <2> HIDE DEF Lesser
  <2> QED BY <1>1, <1>2
<1>4. Ranks \in SUBSET Nat /\ Ranks # {}
  <2> HIDE DEF Rank
  <2> QED BY <1>3
<1>5. PICK r \in Ranks : \A y \in Ranks : r <= y
  <2> HIDE DEF Ranks
  <2> QED BY <1>4, LeastOf
<1>6. PICK g \in S : r = Rank(g)
  <2> HIDE DEF Rank
  <2> QED BY <1>5
<1>7. ASSUME NEW t \in S
      PROVE  LessEq(t, g)
  <2>1. SUFFICES ASSUME Less(g, t)
                 PROVE  FALSE
    BY LessIsTotal DEF LessEq
  <2>2. Lesser(g) \subseteq Lesser(t)
    BY <2>1, LessIsTransitive
  <2>3. g \in Lesser(t) /\ g \notin Lesser(g)
    BY <2>1, LessIsStrict
  <2>4. Cardinality(Lesser(g)) < Cardinality(Lesser(t))
    <3>1. IsFiniteSet(Lesser(t)) /\ Lesser(g) \in SUBSET Lesser(t) /\ Lesser(g) # Lesser(t)
      BY <1>2, <2>2, <2>3
    <3>2. Cardinality(Lesser(g)) \in Nat /\ Cardinality(Lesser(t)) \in Nat
      BY <1>2
    <3> HIDE DEF Lesser
    <3>3. /\ Cardinality(Lesser(g)) <= Cardinality(Lesser(t))
          /\ Cardinality(Lesser(t)) = Cardinality(Lesser(g)) => Lesser(t) = Lesser(g)
      BY <3>1, FS_Subset
    <3> QED BY <3>1, <3>2, <3>3
  <2>5. Rank(t) < Rank(g)
    <3> HIDE DEF Lesser
    <3> QED BY <1>1, <1>2, <2>4
  <2>6. Rank(g) <= Rank(t)
    <3> HIDE DEF Rank
    <3> QED BY <1>5, <1>6
  <2>7. Rank(g) \in Nat /\ Rank(t) \in Nat
    <3> HIDE DEF Rank
    <3> QED BY <1>3
  <2> HIDE DEF Rank
  <2> QED BY <2>5, <2>6, <2>7
<1> QED BY <1>7 DEF Greatest

LEMMA GreatestOf ==
  ASSUME NEW S \in SUBSET Str, NEW g \in S, \A t \in S : LessEq(t, g)
  PROVE  Greatest(S) = g
<1>1. ASSUME NEW h \in S, \A t \in S : LessEq(t, h)
      PROVE  h = g
  <2>1. LessEq(h, g) /\ LessEq(g, h)
    BY <1>1
  <2>2. SUFFICES ASSUME Less(h, g), Less(g, h)
                 PROVE  FALSE
    BY <2>1 DEF LessEq
  <2> QED BY <2>2, LessIsTransitive, LessIsStrict
<1> QED BY <1>1 DEF Greatest

LEMMA LeastIs ==
  ASSUME NEW S \in SUBSET Str, IsFiniteSet(S), S # {}
  PROVE  Least(S) \in S /\ \A t \in S : LessEq(Least(S), t)
<1> DEFINE Lesser(x) == {y \in S : Less(y, x)}
           Rank(x) == Cardinality(Lesser(x))
           Ranks == {Rank(x) : x \in S}
<1>1. ASSUME NEW x
      PROVE  IsFiniteSet(Lesser(x)) /\ Rank(x) \in Nat
  <2>1. Lesser(x) \in SUBSET S
    OBVIOUS
  <2> HIDE DEF Lesser
  <2> QED BY <2>1, FS_Subset, FS_CardinalityType
<1>2. Ranks \in SUBSET Nat /\ Ranks # {}
  <2> HIDE DEF Rank
  <2> QED BY <1>1
<1>3. PICK r \in Ranks : \A y \in Ranks : r <= y
  <2> HIDE DEF Ranks
  <2> QED BY <1>2, LeastOf
<1>4. PICK g \in S : r = Rank(g)
  <2> HIDE DEF Rank
  <2> QED BY <1>3
<1>5. ASSUME NEW t \in S
      PROVE  LessEq(g, t)
  <2>1. SUFFICES ASSUME Less(t, g)
                 PROVE  FALSE
    BY LessIsTotal DEF LessEq
  <2>2. Lesser(t) \subseteq Lesser(g)
    BY <2>1, LessIsTransitive
  <2>3. t \in Lesser(g) /\ t \notin Lesser(t)
    BY <2>1, LessIsStrict
  <2>4. IsFiniteSet(Lesser(g)) /\ Lesser(t) \in SUBSET Lesser(g) /\ Lesser(t) # Lesser(g)
    BY <1>1, <2>2, <2>3
  <2>5. Rank(t) <= Rank(g) /\ Rank(g) # Rank(t)
    <3> HIDE DEF Lesser
    <3> QED BY <2>4, FS_Subset
  <2>6. Rank(g) <= Rank(t)
    <3> HIDE DEF Rank
    <3> QED BY <1>3, <1>4
  <2>7. Rank(g) \in Nat /\ Rank(t) \in Nat
    BY <1>1
  <2> HIDE DEF Rank
  <2> QED BY <2>5, <2>6, <2>7
<1> QED BY <1>5 DEF Least

-----------------------------------------------------------------------------
(* The walk of a skip list.                                                *)

\* A node leads down to a lower level that has its key, from the bottom nowhere.
Shape(l) ==
  /\ Top(l) \in Nat \ {0}
  /\ \A i \in 1..Top(l) : On(l, i) \subseteq Str /\ Start \notin On(l, i) /\ IsFiniteSet(On(l, i))
  /\ \A x \in On(l, 1) : l.levels[1][x].down = 0
  /\ \A i \in 2..Top(l) : \A x \in On(l, i) :
       l.levels[i][x].down \in 1..(i - 1) /\ x \in On(l, l.levels[i][x].down)

\* Every node leads to the level just below.
Dense(l) == \A i \in 1..Top(l) : \A x \in On(l, i) : l.levels[i][x].down = i - 1

Halt(l, j, q, passed) ==
  LET ahead == {x \in On(l, j) \cap passed : After(q, x)}
  IN  IF ahead = {} THEN q ELSE Greatest(ahead)

Stage(f, l, j, passed) ==
  [q \in On(l, j) \cup {Start} |->
     <<[level |-> j, at |-> Halt(l, j, q, passed)]>>
     \o (IF Under(l, j, Halt(l, j, q, passed)) = 0 THEN <<>>
         ELSE f[Under(l, j, Halt(l, j, q, passed))][Halt(l, j, q, passed)])]

LEMMA HaltIsOn ==
  ASSUME NEW l, Shape(l), NEW passed, NEW j \in 1..Top(l), NEW q \in On(l, j) \cup {Start},
         NEW h, h = Halt(l, j, q, passed)
  PROVE  /\ h \in On(l, j) \cup {Start}
         /\ Under(l, j, h) \in 0..(j - 1) /\ (Under(l, j, h) = 0 <=> j = 1)
         /\ j # 1 => h \in On(l, Under(l, j, h)) \cup {Start}
<1>1. h \in On(l, j) \cup {Start}
  <2>1. PICK ahead : ahead = {x \in On(l, j) \cap passed : After(q, x)}
    OBVIOUS
  <2>2. CASE ahead = {}
    BY <2>1, <2>2 DEF Halt
  <2>3. CASE ahead # {}
    <3>1. ahead \in SUBSET On(l, j) /\ On(l, j) \in SUBSET Str /\ IsFiniteSet(On(l, j))
      BY <2>1 DEF Shape
    <3>2. ahead \in SUBSET Str /\ IsFiniteSet(ahead)
      BY <3>1, FS_Subset
    <3>3. Greatest(ahead) \in On(l, j)
      BY <2>3, <3>1, <3>2, GreatestIs
    <3> QED BY <2>1, <2>3, <3>3 DEF Halt
  <2> QED BY <2>2, <2>3
<1>2. Top(l) \in Nat /\ j \in Nat /\ Start \notin On(l, j)
  BY DEF Shape
<1>3. CASE h = Start
  BY <1>2, <1>3 DEF Under
<1>4. CASE h # Start
  <2>1. h \in On(l, j) /\ Under(l, j, h) = l.levels[j][h].down
    BY <1>1, <1>4 DEF Under
  <2>2. CASE j = 1
    BY <2>1, <2>2 DEF Shape
  <2>3. CASE j # 1
    <3>1. j \in 2..Top(l)
      BY <1>2, <2>3
    <3>2. l.levels[j][h].down \in 1..(j - 1) /\ h \in On(l, l.levels[j][h].down)
      BY <2>1, <3>1 DEF Shape
    <3> QED BY <1>1, <1>2, <2>1, <2>3, <3>2
  <2> QED BY <1>1, <2>2, <2>3
<1> QED BY <1>1, <1>3, <1>4

WalksOf(f, l, passed) ==
  /\ \A j \in 1..Top(l) : f[j] = Stage(f, l, j, passed)
  /\ \A i, p : Trail(l, i, p, passed) = f[i][p]

LEMMA TrailWalks ==
  ASSUME NEW l, Shape(l), NEW passed
  PROVE  \E f : WalksOf(f, l, passed)
<1>1. PICK n : n = Top(l)
  OBVIOUS
<1>2. n \in Nat
  BY <1>1 DEF Shape
<1> DEFINE Solves(f, m) == f = [j \in 1..n |-> f[j]] /\ \A j \in 1..m : f[j] = Stage(f, l, j, passed)
           Bad == {m \in 0..n : ~\E f : Solves(f, m)}
<1>3. Bad = {}
  <2>1. SUFFICES ASSUME Bad # {}
                 PROVE  FALSE
    OBVIOUS
  <2>2. PICK m \in Bad : \A y \in Bad : m <= y
    <3>1. Bad \in SUBSET Nat
      OBVIOUS
    <3> HIDE DEF Bad
    <3> QED BY <2>1, <3>1, LeastOf
  <2>3. m # 0
    <3>1. PICK f : f = [j \in 1..n |-> 0]
      OBVIOUS
    <3>2. f = [j \in 1..n |-> f[j]] /\ 1..0 = {}
      BY <3>1
    <3>3. Solves(f, 0)
      BY <3>2
    <3> HIDE DEF Solves
    <3> QED BY <3>3
  <2>4. m \in 1..n /\ m - 1 \in 0..n /\ m - 1 < m
    <3>1. m \in 0..n
      BY <2>2
    <3> QED BY <1>2, <2>3, <3>1
  <2>5. m - 1 \notin Bad
    <3> HIDE DEF Bad
    <3> QED BY <2>2, <2>4
  <2>6. PICK f : Solves(f, m - 1)
    <3> HIDE DEF Solves
    <3> QED BY <2>4, <2>5
  <2>7. PICK g : g = [j \in 1..n |-> IF j = m THEN Stage(f, l, m, passed) ELSE f[j]]
    OBVIOUS
  <2>8. /\ g = [j \in 1..n |-> g[j]] /\ g[m] = Stage(f, l, m, passed)
        /\ \A j \in 1..n : j # m => g[j] = f[j]
    <3> HIDE DEF Solves
    <3> QED BY <2>4, <2>7
  <2>9. ASSUME NEW j \in 1..m
        PROVE  Stage(g, l, j, passed) = Stage(f, l, j, passed)
    <3>1. j \in 1..Top(l) /\ j - 1 < m
      BY <1>1, <1>2, <2>4
    <3>2. ASSUME NEW q \in On(l, j) \cup {Start}, NEW h, h = Halt(l, j, q, passed), Under(l, j, h) # 0
          PROVE  g[Under(l, j, h)] = f[Under(l, j, h)]
      <4>1. PICK u : u = Under(l, j, h)
        OBVIOUS
      <4>2. u \in 0..(j - 1)
        BY <3>1, <3>2, <4>1, HaltIsOn
      <4>3. u \in 1..n /\ u # m
        BY <1>1, <1>2, <3>1, <3>2, <4>1, <4>2
      <4> QED BY <2>8, <4>1, <4>3
    <3> QED BY <3>2 DEF Stage
  <2>10. ASSUME NEW j \in 1..m
         PROVE  g[j] = Stage(g, l, j, passed)
    <3>1. CASE j = m
      BY <2>8, <2>9, <3>1
    <3>2. CASE j # m
      <4>1. j \in 1..(m - 1) /\ j \in 1..n
        <5>1. m \in Nat /\ m <= n
          BY <1>2, <2>4
        <5> QED BY ONLY <1>2, <3>2, <5>1, j \in 1..m
      <4>2. f[j] = Stage(f, l, j, passed)
        BY <2>6, <4>1
      <4> QED BY <2>8, <2>9, <3>2, <4>1, <4>2
    <3> QED BY <3>1, <3>2
  <2>11. Solves(g, m)
    BY <2>8, <2>10
  <2> HIDE DEF Solves
  <2> QED BY <2>2, <2>11
<1>4. PICK f : Solves(f, n)
  <2> HIDE DEF Solves
  <2>1. n \in 0..n /\ n \notin Bad
    BY <1>2, <1>3
  <2> QED BY <2>1
<1>5. f = [j \in 1..Top(l) |-> Stage(f, l, j, passed)]
  BY <1>1, <1>4
<1> DEFINE Walk(w) == w = [j \in 1..Top(l) |->
              [q \in On(l, j) \cup {Start} |->
                 LET ahead == {x \in On(l, j) \cap passed : After(q, x)}
                     at    == IF ahead = {} THEN q ELSE Greatest(ahead)
                     below == Under(l, j, at)
                 IN  <<[level |-> j, at |-> at]>> \o (IF below = 0 THEN <<>> ELSE w[below][at])]]
<1>6. \A w : Walk(w) <=> w = [j \in 1..Top(l) |-> Stage(w, l, j, passed)]
  BY DEF Stage, Halt
<1>7. PICK w : w = CHOOSE x : Walk(x)
  OBVIOUS
<1>8. \A i, p : Trail(l, i, p, passed) = w[i][p]
  BY <1>7 DEF Trail
<1>9. w = [j \in 1..Top(l) |-> Stage(w, l, j, passed)]
  <2> HIDE DEF Walk
  <2>1. Walk(w)
    BY <1>5, <1>6, <1>7
  <2> QED BY <1>6, <2>1
<1> QED BY <1>8, <1>9 DEF WalksOf

\* Where a walk comes to rest on a level: at the last key it passes there.
Rest(l, m, passed) ==
  IF On(l, m) \cap passed = {} THEN Start ELSE Greatest(On(l, m) \cap passed)

Stop(l, m, passed) == [level |-> m, at |-> Rest(l, m, passed)]

LEMMA RestIsGreatest ==
  ASSUME NEW l, Shape(l), NEW passed, NEW j \in 1..Top(l)
  PROVE  /\ Rest(l, j, passed) = Start \/ Rest(l, j, passed) \in On(l, j) \cap passed
         /\ Rest(l, j, passed) = Start => On(l, j) \cap passed = {}
         /\ \A x \in On(l, j) \cap passed : LessEq(x, Rest(l, j, passed))
<1>1. PICK on : on = On(l, j) \cap passed
  OBVIOUS
<1>2. on \in SUBSET On(l, j) /\ On(l, j) \in SUBSET Str /\ IsFiniteSet(On(l, j)) /\ Start \notin On(l, j)
  BY <1>1 DEF Shape
<1>3. on \in SUBSET Str /\ IsFiniteSet(on)
  BY <1>2, FS_Subset
<1>4. CASE on = {}
  BY <1>1, <1>4 DEF Rest
<1>5. CASE on # {}
  <2>1. Greatest(on) \in on /\ \A t \in on : LessEq(t, Greatest(on))
    BY <1>3, <1>5, GreatestIs
  <2> QED BY <1>1, <1>2, <1>5, <2>1 DEF Rest
<1> QED BY <1>4, <1>5

\* A walk that comes from Start or from a key it passed rests there.
LEMMA HaltIsRest ==
  ASSUME NEW l, Shape(l), NEW passed, NEW j \in 1..Top(l), NEW q, q = Start \/ q \in On(l, j) \cap passed
  PROVE  Halt(l, j, q, passed) = Rest(l, j, passed)
<1>1. PICK on : on = On(l, j) \cap passed
  OBVIOUS
<1>2. on \in SUBSET On(l, j) /\ On(l, j) \in SUBSET Str /\ IsFiniteSet(On(l, j)) /\ Start \notin On(l, j)
  BY <1>1 DEF Shape
<1>3. on \in SUBSET Str /\ IsFiniteSet(on)
  BY <1>2, FS_Subset
<1>4. PICK ahead : ahead = {x \in on : After(q, x)}
  OBVIOUS
<1>5. Halt(l, j, q, passed) = IF ahead = {} THEN q ELSE Greatest(ahead)
  BY <1>1, <1>4 DEF Halt
<1>6. CASE q = Start
  <2>1. ahead = on
    BY <1>4, <1>6 DEF After
  <2> QED BY <1>1, <1>5, <1>6, <2>1 DEF Rest
<1>7. CASE q # Start
  <2>1. q \in on /\ on # {}
    BY <1>1, <1>7
  <2>2. \A x \in on : x \notin ahead => x = q \/ Less(x, q)
    BY <1>3, <1>4, <1>7, <2>1, LessIsTotal DEF After
  <2>3. PICK h : h = Halt(l, j, q, passed)
    OBVIOUS
  <2>4. h \in on /\ \A x \in on : LessEq(x, h)
    <3>1. CASE ahead = {}
      BY <1>5, <2>1, <2>2, <2>3, <3>1 DEF LessEq
    <3>2. CASE ahead # {}
      <4>1. ahead \in SUBSET Str /\ IsFiniteSet(ahead)
        <5>1. ahead \in SUBSET on
          BY <1>4
        <5> QED BY <1>3, <5>1, FS_Subset
      <4>2. h \in ahead /\ \A t \in ahead : LessEq(t, h)
        BY <1>5, <2>3, <3>2, <4>1, GreatestIs
      <4>3. h \in on /\ Less(q, h)
        BY <1>4, <1>7, <4>2 DEF After
      <4>4. ASSUME NEW x \in on
            PROVE  LessEq(x, h)
        <5>1. CASE x \in ahead
          BY <4>2, <5>1
        <5>2. CASE x = q
          BY <4>3, <5>2 DEF LessEq
        <5>3. CASE Less(x, q)
          <6>1. Less(x, h)
            BY <1>3, <2>1, <4>3, <5>3, LessIsTransitive
          <6> QED BY <6>1 DEF LessEq
        <5> QED BY <2>2, <5>1, <5>2, <5>3
      <4> QED BY <4>3, <4>4
    <3> QED BY <3>1, <3>2
  <2>5. Greatest(on) = h
    BY <1>3, <2>4, GreatestOf
  <2> QED BY <1>1, <2>1, <2>3, <2>5 DEF Rest
<1> QED BY <1>6, <1>7

\* The trail of a walk from level j down.
Trailed(t, l, j, passed) ==
  /\ t \in Seq({Stop(l, m, passed) : m \in 1..j}) /\ Len(t) \in Nat \ {0}
  /\ t[1] = Stop(l, j, passed) /\ t[Len(t)] = Stop(l, 1, passed)
  /\ Dense(l) \/ j = 1 => Len(t) = j /\ \A i \in 1..j : t[i] = Stop(l, j + 1 - i, passed)

\* A stop and a trail behind it.
LEMMA TrailGrows ==
  ASSUME NEW l, NEW passed, NEW j \in Nat, NEW u \in 1..(j - 1), Dense(l) => u = j - 1,
         NEW t, Trailed(t, l, u, passed)
  PROVE  Trailed(<<Stop(l, j, passed)>> \o t, l, j, passed)
<1>1. PICK S : S = {Stop(l, m, passed) : m \in 1..j}
  OBVIOUS
<1>2. PICK head : head = Stop(l, j, passed)
  OBVIOUS
<1>3. PICK a : a = <<head>>
  OBVIOUS
<1>4. head \in S /\ {Stop(l, m, passed) : m \in 1..u} \subseteq S
  BY <1>1, <1>2
<1>5. t \in Seq(S) /\ Len(t) \in Nat \ {0}
  <2>1. PICK R : R = {Stop(l, m, passed) : m \in 1..u}
    OBVIOUS
  <2>2. t \in Seq(R) /\ R \subseteq S /\ Len(t) \in Nat \ {0}
    BY <1>4, <2>1 DEF Trailed
  <2> QED BY ONLY <2>2
<1>6. a \in Seq(S) /\ Len(a) = 1 /\ a[1] = head
  BY <1>3, <1>4
<1>7. PICK s : s = a \o t
  OBVIOUS
<1>8. s \in Seq(S) /\ Joined(a, t, s)
  BY <1>5, <1>6, <1>7, Joins
<1>9. /\ Len(s) = 1 + Len(t) /\ s[1] = head
      /\ \A q \in 1..Len(t) : s[1 + q] = t[q]
  <2>1. 1 \in 1..Len(a)
    BY <1>6
  <2> QED BY <1>6, <1>8, <2>1 DEF Joined
<1>10. s[Len(s)] = Stop(l, 1, passed)
  <2>1. Len(t) \in 1..Len(t) /\ t[Len(t)] = Stop(l, 1, passed)
    BY <1>5 DEF Trailed
  <2> QED BY <1>9, <2>1
<1>11. ASSUME Dense(l) \/ j = 1
       PROVE  Len(s) = j /\ \A i \in 1..j : s[i] = Stop(l, j + 1 - i, passed)
  <2>1. Len(t) = u /\ u = j - 1 /\ \A i \in 1..u : t[i] = Stop(l, u + 1 - i, passed)
    <3>1. j # 1
      OBVIOUS
    <3> QED BY <1>11, <3>1 DEF Trailed
  <2>2. Len(s) = j
    BY <1>9, <2>1
  <2>3. ASSUME NEW i \in 1..j
        PROVE  s[i] = Stop(l, j + 1 - i, passed)
    <3>1. CASE i = 1
      <4>1. j + 1 - i = j
        BY <3>1
      <4> QED BY <1>2, <1>9, <3>1, <4>1
    <3>2. CASE i # 1
      <4>1. PICK q : q = i - 1
        OBVIOUS
      <4>2. q \in 1..u /\ i = 1 + q /\ u + 1 - q = j + 1 - i
        BY <2>1, <3>2, <4>1
      <4> QED BY <1>9, <2>1, <4>2
    <3> QED BY <3>1, <3>2
  <2> QED BY <2>2, <2>3
<1>12. Len(s) \in Nat \ {0}
  BY <1>5, <1>9
<1>13. Trailed(s, l, j, passed)
  BY <1>1, <1>2, <1>8, <1>9, <1>10, <1>11, <1>12 DEF Trailed
<1> QED BY <1>2, <1>3, <1>7, <1>13

LEMMA StopAtBottom ==
  ASSUME NEW l, NEW passed
  PROVE  Trailed(<<Stop(l, 1, passed)>>, l, 1, passed)
<1>1. PICK x : x = Stop(l, 1, passed)
  OBVIOUS
<1>2. {Stop(l, m, passed) : m \in 1..1} = {x}
  BY <1>1
<1>3. <<x>> \in Seq({x}) /\ Len(<<x>>) = 1 /\ <<x>>[1] = x
  OBVIOUS
<1>4. \A i \in 1..1 : i = 1 /\ 1 + 1 - i = 1
  OBVIOUS
<1> QED BY <1>1, <1>2, <1>3, <1>4 DEF Trailed

LEMMA TrailIsTrailed ==
  ASSUME NEW l, Shape(l), NEW passed, NEW j \in 1..Top(l), NEW q, q = Start \/ q \in On(l, j) \cap passed
  PROVE  Trailed(Trail(l, j, q, passed), l, j, passed)
<1>1. PICK f : WalksOf(f, l, passed)
  BY TrailWalks
<1>2. PICK n : n = Top(l)
  OBVIOUS
<1>3. n \in Nat \ {0}
  BY <1>2 DEF Shape
<1> DEFINE From(i) == {p \in On(l, i) \cup {Start} : p = Start \/ p \in passed}
           Good(i) == \A p \in From(i) : Trailed(f[i][p], l, i, passed)
           Bad == {i \in 1..n : ~Good(i)}
<1>4. ASSUME NEW i \in 1..n, \A m \in 1..(i - 1) : Good(m)
      PROVE  Good(i)
  <2>1. SUFFICES ASSUME NEW p \in From(i)
                 PROVE  Trailed(f[i][p], l, i, passed)
    OBVIOUS
  <2>2. PICK h : h = Halt(l, i, p, passed)
    OBVIOUS
  <2>3. p \in On(l, i) \cup {Start} /\ (p = Start \/ p \in On(l, i) \cap passed)
    BY <2>1
  <2>4. h = Rest(l, i, passed)
    BY <1>2, <2>2, <2>3, HaltIsRest
  <2>5. PICK u : u = Under(l, i, h)
    OBVIOUS
  <2>6. h \in On(l, i) \cup {Start} /\ u \in 0..(i - 1) /\ (u = 0 <=> i = 1) /\ (i # 1 => h \in On(l, u) \cup {Start})
    BY <1>2, <2>2, <2>3, <2>5, HaltIsOn
  <2>7. f[i][p] = <<Stop(l, i, passed)>> \o (IF u = 0 THEN <<>> ELSE f[u][h])
    <3>1. f[i][p] = Stage(f, l, i, passed)[p]
      BY <1>1, <1>2 DEF WalksOf
    <3>2. f[i][p] = <<[level |-> i, at |-> h]>> \o (IF u = 0 THEN <<>> ELSE f[u][h])
      BY <2>2, <2>3, <2>5, <3>1 DEF Stage
    <3> QED BY <2>4, <3>2 DEF Stop
  <2>8. CASE i = 1
    <3>1. PICK x : x = Stop(l, 1, passed)
      OBVIOUS
    <3>2. <<x>> \o <<>> = <<x>>
      OBVIOUS
    <3>3. f[i][p] = <<x>>
      BY <2>6, <2>7, <2>8, <3>1, <3>2
    <3> QED BY <2>8, <3>1, <3>3, StopAtBottom
  <2>9. CASE i # 1
    <3>1. u \in 1..(i - 1) /\ u # 0 /\ i \in Nat
      BY <1>3, <2>6, <2>9
    <3>2. h \in From(u)
      <4>1. h = Start \/ h \in passed
        BY <1>2, <2>4, RestIsGreatest
      <4> QED BY <2>6, <2>9, <4>1
    <3>3. Trailed(f[u][h], l, u, passed)
      <4>1. Good(u)
        <5> HIDE DEF Good
        <5> QED BY <1>4, <3>1
      <4> QED BY <3>2, <4>1
    <3>4. Dense(l) => u = i - 1
      <4>1. h # Start => h \in On(l, i) /\ u = l.levels[i][h].down
        BY <2>5, <2>6 DEF Under
      <4>2. h = Start => u = i - 1
        BY <2>5 DEF Under
      <4> QED BY <1>2, <4>1, <4>2 DEF Dense
    <3>5. PICK t : t = f[u][h]
      OBVIOUS
    <3>6. Trailed(<<Stop(l, i, passed)>> \o t, l, i, passed)
      BY <3>1, <3>3, <3>4, <3>5, TrailGrows
    <3>7. f[i][p] = <<Stop(l, i, passed)>> \o t
      BY <2>7, <3>1, <3>5
    <3> QED BY <3>6, <3>7
  <2> QED BY <2>8, <2>9
<1>5. Bad = {}
  <2>1. SUFFICES ASSUME Bad # {}
                 PROVE  FALSE
    OBVIOUS
  <2>2. PICK m \in Bad : \A y \in Bad : m <= y
    <3>1. Bad \in SUBSET Nat
      OBVIOUS
    <3> HIDE DEF Bad
    <3> QED BY <2>1, <3>1, LeastOf
  <2>3. m \in 1..n /\ ~Good(m)
    OBVIOUS
  <2>4. \A y \in 1..(m - 1) : y \in 1..n /\ ~(m <= y)
    BY <1>3, <2>3
  <2>5. \A y \in 1..(m - 1) : Good(y)
    <3> HIDE DEF Good
    <3>1. \A y \in 1..(m - 1) : y \notin Bad
      <4> HIDE DEF Bad
      <4> QED BY <2>2, <2>4
    <3> QED BY <2>4, <3>1
  <2> HIDE DEF Good
  <2> QED BY <1>4, <2>3, <2>5
<1>6. Good(j)
  <2> HIDE DEF Good
  <2> QED BY <1>2, <1>5
<1>7. q \in From(j)
  OBVIOUS
<1>8. Trail(l, j, q, passed) = f[j][q]
  BY <1>1 DEF WalksOf
<1> QED BY <1>6, <1>7, <1>8

\* Every level is part of the bottom one.
LEMMA LevelsAreListed ==
  ASSUME NEW l, Shape(l)
  PROVE  /\ \A i \in 1..Top(l) : On(l, i) \subseteq On(l, 1)
         /\ AllKeys(l) = Listed(l) /\ 1 \in 1..Top(l)
<1>1. PICK n : n = Top(l)
  OBVIOUS
<1>2. n \in Nat \ {0}
  BY <1>1 DEF Shape
<1> DEFINE Bad == {i \in 1..n : ~(On(l, i) \subseteq On(l, 1))}
<1>3. Bad = {}
  <2>1. SUFFICES ASSUME Bad # {}
                 PROVE  FALSE
    OBVIOUS
  <2>2. PICK m \in Bad : \A y \in Bad : m <= y
    <3>1. Bad \in SUBSET Nat
      OBVIOUS
    <3> HIDE DEF Bad
    <3> QED BY <2>1, <3>1, LeastOf
  <2>3. m \in 1..n /\ ~(On(l, m) \subseteq On(l, 1))
    OBVIOUS
  <2>4. m \in 2..n
    <3>1. m # 1
      BY <2>3
    <3> QED BY <1>2, <2>3, <3>1
  <2>5. PICK x \in On(l, m) : x \notin On(l, 1)
    BY <2>3
  <2>6. PICK d : d = l.levels[m][x].down
    OBVIOUS
  <2>7. d \in 1..(m - 1) /\ x \in On(l, d)
    BY <1>1, <2>4, <2>5, <2>6 DEF Shape
  <2>8. d \in 1..n /\ ~(m <= d)
    BY <1>2, <2>4, <2>7
  <2>9. d \notin Bad
    <3> HIDE DEF Bad
    <3> QED BY <2>2, <2>8
  <2> QED BY <2>5, <2>7, <2>8, <2>9
<1>4. \A i \in 1..Top(l) : On(l, i) \subseteq On(l, 1)
  BY <1>1, <1>3
<1>5. 1 \in 1..Top(l)
  BY <1>1, <1>2
<1> QED BY <1>4, <1>5 DEF AllKeys, Listed

\* Where the walks from the head end.
LEMMA LastStop ==
  ASSUME NEW l, Shape(l), NEW passed
  PROVE  Last(Trail(l, Top(l), Start, passed)).at = Rest(l, 1, passed)
<1>1. Top(l) \in 1..Top(l)
  BY DEF Shape
<1>2. PICK t : t = Trail(l, Top(l), Start, passed)
  OBVIOUS
<1>3. Trailed(t, l, Top(l), passed)
  BY <1>1, <1>2, TrailIsTrailed
<1>4. t[Len(t)] = Stop(l, 1, passed)
  BY <1>3 DEF Trailed
<1> QED BY <1>2, <1>4 DEF Last, Stop

LEMMA LowerIsGreatest ==
  ASSUME NEW l, Shape(l), NEW k, NEW below, below = {x \in Listed(l) : Less(x, k)}
  PROVE  Lower(l, k) = IF below = {} THEN Start ELSE Greatest(below)
<1>1. On(l, 1) \cap Below(l, k) = below
  BY LevelsAreListed DEF Below, Listed
<1>2. Lower(l, k) = Rest(l, 1, Below(l, k))
  BY LastStop DEF Lower
<1> QED BY <1>1, <1>2 DEF Rest

LEMMA LowerEqualIsGreatest ==
  ASSUME NEW l, Shape(l), NEW k \in Str
  PROVE  LowerEqual(l, k) = IF k \in Listed(l) THEN k ELSE Lower(l, k)
<1>1. PICK upto : upto = {x \in Listed(l) : LessEq(x, k)}
  OBVIOUS
<1>2. On(l, 1) \cap UpTo(l, k) = upto
  BY <1>1, LevelsAreListed DEF UpTo, Listed
<1>3. LowerEqual(l, k) = IF upto = {} THEN Start ELSE Greatest(upto)
  <2>1. LowerEqual(l, k) = Rest(l, 1, UpTo(l, k))
    BY LastStop DEF LowerEqual
  <2> QED BY <1>2, <2>1 DEF Rest
<1>4. Listed(l) \in SUBSET Str
  BY LevelsAreListed DEF Shape, Listed
<1>5. CASE k \in Listed(l)
  <2>1. k \in upto /\ upto \in SUBSET Str /\ \A x \in upto : LessEq(x, k)
    BY <1>1, <1>4, <1>5 DEF LessEq
  <2>2. Greatest(upto) = k
    BY <2>1, GreatestOf
  <2> QED BY <1>3, <1>5, <2>1, <2>2
<1>6. CASE k \notin Listed(l)
  <2>1. upto = {x \in Listed(l) : Less(x, k)}
    BY <1>1, <1>6 DEF LessEq
  <2>2. Lower(l, k) = IF upto = {} THEN Start ELSE Greatest(upto)
    BY <2>1, LowerIsGreatest
  <2> QED BY <1>3, <1>6, <2>2
<1> QED BY <1>5, <1>6

LEMMA ElementIsListed ==
  ASSUME NEW l, Shape(l), NEW k \in Str, k # Start
  PROVE  HasElement(l, k) <=> k \in Listed(l)
<1>1. Top(l) \in 1..Top(l) /\ Top(l) \in Nat
  BY DEF Shape
<1>2. PICK passed : passed = UpTo(l, k)
  OBVIOUS
<1>3. PICK t : t = Trail(l, Top(l), Start, passed)
  OBVIOUS
<1>4. Trailed(t, l, Top(l), passed)
  BY <1>1, <1>3, TrailIsTrailed
<1>5. HasElement(l, k) <=> \E j \in DOMAIN t : t[j].at = k
  BY <1>2, <1>3 DEF HasElement
<1>6. ASSUME NEW j \in DOMAIN t, t[j].at = k
      PROVE  k \in Listed(l)
  <2>1. PICK S : S = {Stop(l, m, passed) : m \in 1..Top(l)}
    OBVIOUS
  <2>2. t[j] \in S
    <3>1. t \in Seq(S) /\ j \in 1..Len(t)
      BY <1>4, <2>1 DEF Trailed
    <3> QED BY <3>1, ElementOfSeq
  <2>3. PICK m \in 1..Top(l) : t[j] = Stop(l, m, passed)
    BY <2>1, <2>2
  <2>4. Rest(l, m, passed) = k
    BY <1>6, <2>3 DEF Stop
  <2>5. k \in On(l, m)
    BY <2>4, RestIsGreatest
  <2> QED BY <2>5, LevelsAreListed DEF Listed
<1>7. ASSUME k \in Listed(l)
      PROVE  Len(t) \in DOMAIN t /\ t[Len(t)].at = k
  <2>1. Len(t) \in DOMAIN t /\ t[Len(t)] = Stop(l, 1, passed)
    <3>1. PICK S : S = {Stop(l, m, passed) : m \in 1..Top(l)}
      OBVIOUS
    <3>2. t \in Seq(S) /\ Len(t) \in Nat \ {0} /\ t[Len(t)] = Stop(l, 1, passed)
      BY <1>4, <3>1 DEF Trailed
    <3> QED BY <3>2
  <2>2. t[Len(t)].at = Rest(l, 1, passed)
    BY <2>1 DEF Stop
  <2>3. LowerEqual(l, k) = Rest(l, 1, passed)
    BY <1>2, LastStop DEF LowerEqual
  <2>4. LowerEqual(l, k) = k
    BY <1>7, LowerEqualIsGreatest
  <2> QED BY <2>1, <2>2, <2>3, <2>4
<1> QED BY <1>5, <1>6, <1>7

\* The memtable looks right of the node before the key.
LEMMA RightOfLower ==
  ASSUME NEW l, Shape(l), NEW k \in Str, k # Start
  PROVE  RightOf(l, Lower(l, k)) = k <=> k \in Listed(l)
<1>1. Listed(l) \in SUBSET Str /\ IsFiniteSet(Listed(l)) /\ Start \notin Listed(l)
  BY LevelsAreListed DEF Shape, Listed
<1>2. PICK below : below = {x \in Listed(l) : Less(x, k)}
  OBVIOUS
<1>3. PICK p : p = Lower(l, k)
  OBVIOUS
<1>4. p = IF below = {} THEN Start ELSE Greatest(below)
  BY <1>2, <1>3, LowerIsGreatest
<1>5. below \in SUBSET Str /\ IsFiniteSet(below)
  <2>1. below \in SUBSET Listed(l)
    BY <1>2
  <2> QED BY <1>1, <2>1, FS_Subset
<1>6. /\ p = Start \/ p \in below
      /\ p = Start => below = {}
      /\ \A x \in below : LessEq(x, p)
  <2>1. below # {} => Greatest(below) \in below /\ \A x \in below : LessEq(x, Greatest(below))
    BY <1>5, GreatestIs
  <2> QED BY <1>1, <1>2, <1>4, <2>1
<1>7. PICK ahead : ahead = {x \in Listed(l) : After(p, x)}
  OBVIOUS
<1>8. RightOf(l, p) = IF ahead = {} THEN Start ELSE Least(ahead)
  BY <1>7 DEF RightOf
<1>9. ahead \in SUBSET Str /\ IsFiniteSet(ahead)
  <2>1. ahead \in SUBSET Listed(l)
    BY <1>7
  <2> QED BY <1>1, <2>1, FS_Subset
<1>10. ahead # {} => Least(ahead) \in ahead /\ \A x \in ahead : LessEq(Least(ahead), x)
  BY <1>9, LeastIs
<1>11. ASSUME RightOf(l, p) = k
       PROVE  k \in Listed(l)
  BY <1>7, <1>8, <1>10, <1>11
<1>12. ASSUME k \in Listed(l)
       PROVE  RightOf(l, p) = k
  <2>1. k \in ahead
    BY <1>2, <1>6, <1>7, <1>12 DEF After
  <2>2. PICK g : g = Least(ahead)
    OBVIOUS
  <2>3. g \in ahead /\ LessEq(g, k)
    BY <1>10, <2>1, <2>2
  <2>4. ~Less(g, k)
    <3>1. SUFFICES ASSUME Less(g, k)
                   PROVE  FALSE
      OBVIOUS
    <3>2. g \in below /\ LessEq(g, p) /\ After(p, g) /\ p \in Str /\ p # Start
      BY <1>1, <1>2, <1>5, <1>6, <1>7, <2>3, <3>1
    <3>3. Less(p, g) /\ g \in Str
      BY <1>5, <3>2 DEF After
    <3> QED BY <3>2, <3>3, LessIsStrict, LessIsTransitive DEF LessEq
  <2> QED BY <1>8, <2>1, <2>2, <2>3, <2>4 DEF LessEq
<1> QED BY <1>3, <1>11, <1>12

Cell(v, d) == [value |-> v, down |-> d]
NodesOf(V) == [value : V, down : Nat]
LevelsOf(V) == UNION {[D -> NodesOf(V)] : D \in SUBSET Str}

\* A list of values V.
ListOK(l, V) ==
  /\ l \in [levels : Seq(LevelsOf(V)), size : Nat]
  /\ Shape(l)
  /\ l.size = Cardinality(Listed(l))

\* What insert() makes of a list below the level it may have to add.
Taller(l, w, k, v, tall) ==
  [m \in 1..Top(l) |->
     IF m <= w /\ m <= tall
     THEN [x \in On(l, m) \cup {k} |-> IF x = k THEN Cell(v, m - 1) ELSE l.levels[m][x]]
     ELSE l.levels[m]]

Built(l, w, k, v, tall) ==
  [levels |-> IF tall <= w THEN Taller(l, w, k, v, tall)
              ELSE Append(Taller(l, w, k, v, tall), [x \in {k} |-> Cell(v, w)]),
   size   |-> l.size + 1]

LEMMA InsertedIs ==
  ASSUME NEW l, Shape(l), NEW k \in Str, k # Start, k \notin Listed(l), NEW v,
         NEW w \in 1..Top(l), Dense(l) \/ w = 1, NEW p, p = Start \/ p \in On(l, w) \cap UpTo(l, k),
         NEW tall \in 1..(w + 1)
  PROVE  Inserted(l, w, p, k, v, tall) = Built(l, w, k, v, tall)
<1>1. PICK n : n = Top(l)
  OBVIOUS
<1>2. n \in Nat \ {0} /\ w \in 1..n
  BY <1>1 DEF Shape
<1>3. PICK passed : passed = UpTo(l, k)
  OBVIOUS
<1>4. PICK t : t = Trail(l, w, p, passed)
  OBVIOUS
<1>5. Trailed(t, l, w, passed)
  BY <1>3, <1>4, TrailIsTrailed
<1>6. Len(t) = w /\ \A i \in 1..w : t[i] = Stop(l, w + 1 - i, passed)
  BY <1>5 DEF Trailed
<1>7. PICK wall : wall = Reverse(t)
  OBVIOUS
<1>8. wall = [i \in 1..w |-> t[(w - i) + 1]]
  BY <1>6, <1>7 DEF Reverse
<1>9. \A j \in 1..w : wall[j] = Stop(l, j, passed) /\ wall[j].level = j
  <2> TAKE j \in 1..w
  <2>1. PICK i : i = (w - j) + 1
    OBVIOUS
  <2>2. i \in 1..w /\ w + 1 - i = j
    BY <1>2, <2>1
  <2>3. wall[j] = t[i]
    BY <1>8, <2>1
  <2>4. wall[j] = Stop(l, j, passed)
    BY <1>6, <2>2, <2>3
  <2> QED BY <2>4 DEF Stop
<1>10. Len(wall) = w
  <2>1. wall \in [1..w -> {t[i] : i \in 1..w}]
    <3>1. \A i \in 1..w : (w - i) + 1 \in 1..w
      BY <1>2
    <3> QED BY <1>8, <3>1
  <2> QED BY <1>2, <2>1, IsSequence
<1>11. wall[1].at # k
  <2>1. 1 \in 1..w /\ 1 \in 1..Top(l)
    BY <1>1, <1>2
  <2>2. wall[1].at = Rest(l, 1, passed)
    <3>1. wall[1] = Stop(l, 1, passed)
      BY <1>9, <2>1
    <3> QED BY <3>1 DEF Stop
  <2>3. Rest(l, 1, passed) = Start \/ Rest(l, 1, passed) \in On(l, 1)
    BY <2>1, RestIsGreatest
  <2> QED BY <2>2, <2>3 DEF Listed
<1> DEFINE node(j) == [value |-> v, down |-> IF j = 1 THEN 0 ELSE wall[j - 1].level]
           on(m) == {j \in 1..Len(wall) : j <= tall /\ wall[j].level = m}
           put(m) == IF on(m) = {} THEN l.levels[m]
                     ELSE [x \in On(l, m) \cup {k} |->
                             IF x = k THEN node(CHOOSE j \in on(m) : TRUE) ELSE l.levels[m][x]]
<1>12. \A j \in 1..(w + 1) : node(j) = Cell(v, j - 1)
  <2> TAKE j \in 1..(w + 1)
  <2>1. CASE j = 1
    BY <2>1 DEF Cell
  <2>2. CASE j # 1
    <3>1. j - 1 \in 1..w
      BY <1>2, <2>2
    <3>2. wall[j - 1].level = j - 1
      BY <1>9, <3>1
    <3> QED BY <2>2, <3>2 DEF Cell
  <2> QED BY <2>1, <2>2
<1>13. \A m \in 1..n : on(m) = IF m <= w /\ m <= tall THEN {m} ELSE {}
  BY <1>2, <1>9, <1>10
<1>14. ASSUME NEW m \in 1..n
       PROVE  put(m) = IF m <= w /\ m <= tall
                       THEN [x \in On(l, m) \cup {k} |-> IF x = k THEN Cell(v, m - 1) ELSE l.levels[m][x]]
                       ELSE l.levels[m]
  <2>1. CASE m <= w /\ m <= tall
    <3>1. on(m) = {m} /\ m \in 1..(w + 1)
      BY <1>2, <1>13, <2>1
    <3>2. (CHOOSE j \in on(m) : TRUE) = m
      <4> HIDE DEF on
      <4> QED BY <3>1
    <3>3. node(CHOOSE j \in on(m) : TRUE) = Cell(v, m - 1)
      <4> HIDE DEF on, node
      <4> QED BY <1>12, <3>1, <3>2
    <3> HIDE DEF on, node
    <3> QED BY <2>1, <3>1, <3>3
  <2>2. CASE ~(m <= w /\ m <= tall)
    <3>1. on(m) = {}
      BY <1>13, <2>2
    <3> HIDE DEF on, node
    <3> QED BY <2>2, <3>1
  <2> QED BY <2>1, <2>2
<1>15. [m \in 1..Top(l) |-> put(m)] = Taller(l, w, k, v, tall)
  <2> HIDE DEF put
  <2> QED BY <1>1, <1>14 DEF Taller
<1>16. node(Len(wall) + 1) = Cell(v, w)
  <2>1. w + 1 \in 1..(w + 1) /\ (w + 1) - 1 = w
    BY <1>2
  <2> HIDE DEF node
  <2> QED BY <1>10, <1>12, <2>1
<1>17. Inserted(l, w, p, k, v, tall) =
         IF wall[1].at = k THEN [l EXCEPT !.size = @ + 1]
         ELSE [levels |-> IF tall <= Len(wall) THEN [m \in 1..Top(l) |-> put(m)]
                          ELSE Append([m \in 1..Top(l) |-> put(m)], [x \in {k} |-> node(Len(wall) + 1)]),
               size   |-> l.size + 1]
  BY <1>3, <1>4, <1>7 DEF Inserted
<1>18. [x \in {k} |-> node(Len(wall) + 1)] = [x \in {k} |-> Cell(v, w)]
  <2> HIDE DEF node
  <2> QED BY <1>16
<1> HIDE DEF node, put
<1> QED BY <1>10, <1>11, <1>15, <1>17, <1>18 DEF Built

\* The levels of a list with the key.
Grown(l, l2, w, k, v, tall) ==
  /\ Top(l2) = IF tall <= w THEN Top(l) ELSE Top(l) + 1
  /\ \A m \in 1..Top(l) :
       /\ m <= w /\ m <= tall => /\ On(l2, m) = On(l, m) \cup {k}
                                 /\ l2.levels[m][k] = Cell(v, m - 1)
       /\ ~(m <= w /\ m <= tall) => On(l2, m) = On(l, m)
       /\ \A x \in On(l, m) : x # k => l2.levels[m][x] = l.levels[m][x]
  /\ tall > w => /\ On(l2, Top(l) + 1) = {k}
                 /\ l2.levels[Top(l) + 1][k] = Cell(v, w)

LEMMA InsertedGrows ==
  ASSUME NEW V, NEW l, ListOK(l, V), NEW k \in Str, NEW v \in V, k \notin Listed(l),
         NEW w \in 1..Top(l), NEW tall \in 1..(w + 1),
         NEW l2, l2 = Built(l, w, k, v, tall)
  PROVE  Grown(l, l2, w, k, v, tall) /\ l2.size = l.size + 1 /\ l2 \in [levels : Seq(LevelsOf(V)), size : Nat]
<1>1. PICK n : n = Top(l)
  OBVIOUS
<1>2. n \in Nat \ {0} /\ w \in 1..n
  BY <1>1 DEF ListOK, Shape
<1>3. PICK L : L = LevelsOf(V)
  OBVIOUS
<1>4. PICK lv : lv = l.levels
  OBVIOUS
<1>5. lv \in Seq(L) /\ Len(lv) = n /\ l.size \in Nat
  BY <1>1, <1>3, <1>4 DEF ListOK, Top
<1>6. \A m \in 1..n : lv[m] \in L /\ On(l, m) = DOMAIN lv[m]
  BY <1>4, <1>5, ElementOfSeq DEF On
<1>7. PICK R : R = Taller(l, w, k, v, tall)
  OBVIOUS
<1>8. R = [m \in 1..n |->
     IF m <= w /\ m <= tall
     THEN [x \in On(l, m) \cup {k} |-> IF x = k THEN Cell(v, m - 1) ELSE lv[m][x]]
     ELSE lv[m]]
  BY <1>1, <1>4, <1>7 DEF Taller
<1>9. ASSUME NEW m \in 1..n
      PROVE  R[m] \in L
  <2>1. CASE m <= w /\ m <= tall
    <3>1. R[m] = [x \in On(l, m) \cup {k} |-> IF x = k THEN Cell(v, m - 1) ELSE lv[m][x]]
      BY <1>8, <2>1
    <3>2. PICK D \in SUBSET Str : lv[m] \in [D -> NodesOf(V)]
      BY <1>3, <1>6 DEF LevelsOf
    <3>3. On(l, m) = D
      BY <1>6, <3>2
    <3>4. Cell(v, m - 1) \in NodesOf(V)
      BY DEF Cell, NodesOf
    <3>5. R[m] \in [D \cup {k} -> NodesOf(V)] /\ D \cup {k} \in SUBSET Str
      BY <3>1, <3>2, <3>3, <3>4
    <3> QED BY <1>3, <3>5 DEF LevelsOf
  <2>2. CASE ~(m <= w /\ m <= tall)
    BY <1>6, <1>8, <2>2
  <2> QED BY <2>1, <2>2
<1>10. R \in [1..n -> L]
  BY <1>8, <1>9
<1>11. R \in Seq(L) /\ Len(R) = n
  BY <1>2, <1>10, IsSequence
<1>12. PICK new : new = [x \in {k} |-> Cell(v, w)]
  OBVIOUS
<1>13. new \in L /\ DOMAIN new = {k} /\ new[k] = Cell(v, w)
  <2>1. Cell(v, w) \in NodesOf(V)
    BY <1>2 DEF Cell, NodesOf
  <2>2. new \in [{k} -> NodesOf(V)] /\ {k} \in SUBSET Str
    BY <1>12, <2>1
  <2> QED BY <1>3, <1>12, <2>2 DEF LevelsOf
<1>14. PICK lv2 : lv2 = l2.levels
  OBVIOUS
<1>15. l2 = [levels |-> lv2, size |-> l.size + 1] /\ lv2 = IF tall <= w THEN R ELSE Append(R, new)
  <2>1. l2 = [levels |-> IF tall <= w THEN R ELSE Append(R, new), size |-> l.size + 1]
    BY <1>7, <1>12 DEF Built
  <2> QED BY ONLY <1>14, <2>1
<1>21. l2.size = l.size + 1
  BY ONLY <1>15
<1>16. /\ lv2 \in Seq(L) /\ Len(lv2) = (IF tall <= w THEN n ELSE n + 1)
       /\ \A m \in 1..n : lv2[m] = R[m]
       /\ tall > w => lv2[n + 1] = new
  <2>1. Append(R, new) \in Seq(L) /\ Len(Append(R, new)) = n + 1
        /\ Append(R, new)[n + 1] = new /\ \A m \in 1..n : Append(R, new)[m] = R[m]
    BY <1>11, <1>13
  <2>2. tall > w <=> ~(tall <= w)
    BY <1>2
  <2> QED BY <1>11, <1>15, <2>1, <2>2
<1>17. l2 \in [levels : Seq(LevelsOf(V)), size : Nat]
  <2>1. PICK Q : Q = Seq(L)
    OBVIOUS
  <2>2. PICK sum : sum = l.size + 1
    OBVIOUS
  <2>4. lv2 \in Q /\ sum \in Nat /\ l2 = [levels |-> lv2, size |-> sum]
    <3>1. lv2 \in Q
      BY <1>16, <2>1
    <3>2. sum \in Nat
      BY <1>5, <2>2
    <3>3. l2 = [levels |-> lv2, size |-> sum]
      BY <1>15, <2>2
    <3> QED BY <3>1, <3>2, <3>3
  <2>3. l2 \in [levels : Q, size : Nat]
    BY ONLY <2>4
  <2> QED BY <1>3, <2>1, <2>3
<1>18. ASSUME NEW m \in 1..n
       PROVE  /\ m <= w /\ m <= tall => /\ On(l2, m) = On(l, m) \cup {k}
                                        /\ l2.levels[m][k] = Cell(v, m - 1)
              /\ ~(m <= w /\ m <= tall) => On(l2, m) = On(l, m)
              /\ \A x \in On(l, m) : x # k => l2.levels[m][x] = l.levels[m][x]
  <2>1. l2.levels[m] = R[m] /\ On(l2, m) = DOMAIN R[m]
    BY <1>14, <1>16 DEF On
  <2>2. CASE m <= w /\ m <= tall
    <3>1. R[m] = [x \in On(l, m) \cup {k} |-> IF x = k THEN Cell(v, m - 1) ELSE lv[m][x]]
      BY <1>8, <2>2
    <3> QED BY <1>4, <2>1, <2>2, <3>1
  <2>3. CASE ~(m <= w /\ m <= tall)
    <3>1. R[m] = lv[m]
      BY <1>8, <2>3
    <3> QED BY <1>4, <1>6, <2>1, <2>3, <3>1
  <2> QED BY <2>2, <2>3
<1>19. tall > w => On(l2, n + 1) = {k} /\ l2.levels[n + 1][k] = Cell(v, w)
  BY <1>13, <1>14, <1>16 DEF On
<1>20. Top(l2) = IF tall <= w THEN n ELSE n + 1
  BY <1>14, <1>16 DEF Top
<1> QED BY <1>1, <1>17, <1>18, <1>19, <1>20, <1>21 DEF Grown

\* A list with one key more.
WithKey(V, l, l2, w, k, v) ==
  /\ ListOK(l2, V) /\ Listed(l2) = Listed(l) \cup {k}
  /\ l2.levels[1][k] = Cell(v, 0) /\ \A x \in Listed(l) : l2.levels[1][x] = l.levels[1][x]
  /\ Dense(l) /\ w = Top(l) => Dense(l2)

LEMMA GrownIsOK ==
  ASSUME NEW V, NEW l, ListOK(l, V), NEW k \in Str, k # Start, NEW v, k \notin Listed(l),
         NEW w \in 1..Top(l), NEW tall \in 1..(w + 1), NEW l2, Grown(l, l2, w, k, v, tall),
         l2 \in [levels : Seq(LevelsOf(V)), size : Nat], l2.size = l.size + 1
  PROVE  WithKey(V, l, l2, w, k, v)
<1>1. PICK n : n = Top(l)
  OBVIOUS
<1>2. PICK n2 : n2 = Top(l2)
  OBVIOUS
<1>3. Shape(l) /\ l.size = Cardinality(Listed(l))
  BY DEF ListOK
<1>4. n \in Nat \ {0} /\ w \in 1..n /\ n2 = (IF tall <= w THEN n ELSE n + 1) /\ tall \in Nat \ {0} /\ w \in Nat
  BY <1>1, <1>2, <1>3 DEF Shape, Grown
<1>5. 1 \in 1..n /\ 1 <= w /\ 1 <= tall
  BY <1>4
<1>6. \A m \in 1..n : k \notin On(l, m)
  BY <1>1, <1>3, LevelsAreListed DEF Listed
<1>7. ASSUME NEW m \in 1..n
      PROVE  /\ On(l2, m) = IF m <= w /\ m <= tall THEN On(l, m) \cup {k} ELSE On(l, m)
             /\ \A x \in On(l, m) : l2.levels[m][x] = l.levels[m][x]
             /\ k \in On(l2, m) => m <= w /\ m <= tall /\ l2.levels[m][k] = Cell(v, m - 1)
             /\ On(l, m) \subseteq On(l2, m)
  BY <1>1, <1>6 DEF Grown
<1>8. ASSUME n2 = n + 1
      PROVE  On(l2, n2) = {k} /\ l2.levels[n2][k] = Cell(v, w) /\ w < tall
  BY <1>1, <1>4, <1>8 DEF Grown
<1>9. Listed(l2) = Listed(l) \cup {k}
  BY <1>5, <1>7 DEF Listed
<1>10. l2.levels[1][k] = Cell(v, 0)
  <2>1. k \in On(l2, 1) /\ 1 - 1 = 0
    BY <1>5, <1>7
  <2> QED BY <1>5, <1>7, <2>1
<1>11. \A x \in Listed(l) : l2.levels[1][x] = l.levels[1][x]
  BY <1>5, <1>7 DEF Listed
<1>12. \A m \in 1..n2 : m \in 1..n \/ (m = n2 /\ n2 = n + 1)
  BY <1>4
<1>13. Shape(l2)
  <2>1. n2 \in Nat \ {0}
    BY <1>4
  <2>2. ASSUME NEW m \in 1..n2
        PROVE  On(l2, m) \subseteq Str /\ Start \notin On(l2, m) /\ IsFiniteSet(On(l2, m))
    <3>1. CASE m \in 1..n
      <4>1. On(l, m) \subseteq Str /\ Start \notin On(l, m) /\ IsFiniteSet(On(l, m))
        BY <1>1, <1>3, <3>1 DEF Shape
      <4>2. IsFiniteSet(On(l, m) \cup {k})
        BY <4>1, FS_AddElement
      <4> QED BY <1>7, <3>1, <4>1, <4>2
    <3>2. CASE m = n2 /\ n2 = n + 1
      <4>1. IsFiniteSet({k})
        BY FS_Singleton
      <4> QED BY <1>8, <3>2, <4>1
    <3> QED BY <1>12, <3>1, <3>2
  <2>3. ASSUME NEW x \in On(l2, 1)
        PROVE  l2.levels[1][x].down = 0
    <3>1. CASE x = k
      BY <1>10, <3>1 DEF Cell
    <3>2. CASE x # k
      <4>1. x \in On(l, 1)
        BY <1>9, <3>2 DEF Listed
      <4> QED BY <1>3, <1>11, <4>1 DEF Shape, Listed
    <3> QED BY <3>1, <3>2
  <2>4. ASSUME NEW m \in 2..n2, NEW x \in On(l2, m)
        PROVE  l2.levels[m][x].down \in 1..(m - 1) /\ x \in On(l2, l2.levels[m][x].down)
    <3>1. PICK d : d = l2.levels[m][x].down
      OBVIOUS
    <3>2. CASE m \in 1..n /\ x = k
      <4>1. m <= w /\ m <= tall /\ d = m - 1
        <5>1. m <= w /\ m <= tall /\ l2.levels[m][k] = Cell(v, m - 1)
          BY <1>7, <3>2
        <5>2. Cell(v, m - 1).down = m - 1
          BY DEF Cell
        <5> QED BY <3>1, <3>2, <5>1, <5>2
      <4>2. d \in 1..(m - 1) /\ d \in 1..n /\ d <= w /\ d <= tall
        BY ONLY <1>4, <4>1, m \in 2..n2
      <4>3. k \in On(l2, d)
        BY <1>7, <4>2
      <4> QED BY <3>1, <3>2, <4>2, <4>3
    <3>3. CASE m \in 1..n /\ x # k
      <4>1. x \in On(l, m) /\ d = l.levels[m][x].down
        BY <1>7, <3>1, <3>3
      <4>2. m \in 2..n
        BY <1>4, <3>3
      <4>3. d \in 1..(m - 1) /\ x \in On(l, d)
        BY <1>1, <1>3, <4>1, <4>2 DEF Shape
      <4>4. d \in 1..n
        BY <1>4, <4>2, <4>3
      <4> QED BY <1>7, <3>1, <4>3, <4>4
    <3>4. CASE m = n2 /\ n2 = n + 1
      <4>1. x = k /\ d = w /\ w <= tall
        BY <1>4, <1>8, <3>1, <3>4 DEF Cell
      <4>2. d \in 1..(m - 1) /\ d \in 1..n /\ d <= w /\ d <= tall
        BY ONLY <1>4, <3>4, <4>1
      <4>3. k \in On(l2, d)
        BY <1>7, <4>2
      <4> QED BY <3>1, <4>1, <4>2, <4>3
    <3>5. m \in 1..n2
      BY <1>4
    <3> QED BY <1>12, <3>2, <3>3, <3>4, <3>5
  <2> QED BY <1>2, <2>1, <2>2, <2>3, <2>4 DEF Shape
<1>14. l2.size = Cardinality(Listed(l2))
  <2>1. IsFiniteSet(Listed(l))
    BY <1>1, <1>3, <1>5 DEF Shape, Listed
  <2>2. Cardinality(Listed(l) \cup {k}) = Cardinality(Listed(l)) + 1
    BY <2>1, FS_AddElement
  <2> QED BY <1>3, <1>9, <2>2
<1>15. ASSUME Dense(l), w = Top(l)
       PROVE  Dense(l2)
  <2>1. ASSUME NEW m \in 1..n2, NEW x \in On(l2, m)
        PROVE  l2.levels[m][x].down = m - 1
    <3>1. CASE m \in 1..n /\ x = k
      <4>1. l2.levels[m][k] = Cell(v, m - 1)
        BY <1>7, <3>1
      <4>2. Cell(v, m - 1).down = m - 1
        BY DEF Cell
      <4> QED BY <3>1, <4>1, <4>2
    <3>2. CASE m \in 1..n /\ x # k
      <4>1. x \in On(l, m) /\ l2.levels[m][x] = l.levels[m][x]
        BY <1>7, <3>2
      <4> QED BY <1>1, <1>15, <3>2, <4>1 DEF Dense
    <3>3. CASE m = n2 /\ n2 = n + 1
      <4>1. x = k /\ l2.levels[m][x].down = w /\ m - 1 = w
        BY <1>1, <1>4, <1>8, <1>15, <3>3 DEF Cell
      <4> QED BY <4>1
    <3> QED BY <1>12, <3>1, <3>2, <3>3
  <2> QED BY <1>2, <2>1 DEF Dense
<1> QED BY <1>9, <1>10, <1>11, <1>13, <1>14, <1>15 DEF ListOK, WithKey

\* What erase() leaves of a list.
LEMMA UnlinkedIsOK ==
  ASSUME NEW V, NEW l, ListOK(l, V), Dense(l), NEW k \in Listed(l), NEW l2, l2 = Unlinked(l, k)
  PROVE  ListOK(l2, V) /\ Dense(l2) /\ Listed(l2) = Listed(l) \ {k}
<1>1. PICK n : n = Top(l)
  OBVIOUS
<1>2. Shape(l) /\ l.size = Cardinality(Listed(l)) /\ l \in [levels : Seq(LevelsOf(V)), size : Nat]
  BY DEF ListOK
<1>3. n \in Nat \ {0} /\ n \in 1..n /\ 1 \in 1..n
  BY <1>1, <1>2 DEF Shape
<1>4. PICK L : L = LevelsOf(V)
  OBVIOUS
<1>5. PICK lv : lv = l.levels
  OBVIOUS
<1>6. lv \in Seq(L) /\ Len(lv) = n
  BY <1>1, <1>2, <1>4, <1>5 DEF Top
<1>7. \A m \in 1..n : lv[m] \in L /\ On(l, m) = DOMAIN lv[m]
  BY <1>5, <1>6, ElementOfSeq DEF On
<1>8. PICK t : t = Trail(l, n, Start, Below(l, k))
  OBVIOUS
<1>9. Len(t) = n /\ \A i \in 1..n : t[i].level = n + 1 - i
  <2>1. Trailed(t, l, n, Below(l, k))
    BY <1>1, <1>2, <1>3, <1>8, TrailIsTrailed
  <2>2. Len(t) = n /\ \A i \in 1..n : t[i] = Stop(l, n + 1 - i, Below(l, k))
    BY <2>1 DEF Trailed
  <2> QED BY <2>2 DEF Stop
<1>10. \A m \in 1..n : m \in {t[i].level : i \in 1..Len(t)}
  <2> TAKE m \in 1..n
  <2>1. PICK i : i = n + 1 - m
    OBVIOUS
  <2>2. i \in 1..n /\ n + 1 - i = m
    BY <1>3, <2>1
  <2> QED BY <1>9, <2>2
<1>11. PICK lv2 : lv2 = [m \in 1..n |-> [x \in On(l, m) \ {k} |-> lv[m][x]]]
  OBVIOUS
<1>12. l2 = [levels |-> lv2, size |-> l.size - 1]
  <2>1. l2 = [levels |-> [m \in 1..n |-> IF m \in {t[i].level : i \in 1..Len(t)}
                                         THEN [x \in On(l, m) \ {k} |-> lv[m][x]] ELSE lv[m]],
              size   |-> l.size - 1]
    BY <1>1, <1>5, <1>8 DEF Unlinked
  <2>2. [m \in 1..n |-> IF m \in {t[i].level : i \in 1..Len(t)}
                        THEN [x \in On(l, m) \ {k} |-> lv[m][x]] ELSE lv[m]] = lv2
    BY <1>10, <1>11
  <2> QED BY <2>1, <2>2
<1>13. ASSUME NEW m \in 1..n
       PROVE  lv2[m] \in L
  <2>1. PICK D \in SUBSET Str : lv[m] \in [D -> NodesOf(V)]
    BY <1>4, <1>7 DEF LevelsOf
  <2>2. On(l, m) = D /\ lv2[m] = [x \in On(l, m) \ {k} |-> lv[m][x]]
    BY <1>7, <1>11, <2>1
  <2>3. lv2[m] \in [D \ {k} -> NodesOf(V)] /\ D \ {k} \in SUBSET Str
    BY <2>1, <2>2
  <2> QED BY <1>4, <2>3 DEF LevelsOf
<1>14. lv2 \in Seq(L) /\ Len(lv2) = n
  <2>1. lv2 \in [1..n -> L]
    BY <1>11, <1>13
  <2> QED BY <1>3, <2>1, IsSequence
<1>15. Top(l2) = n
  BY <1>12, <1>14 DEF Top
<1>16. ASSUME NEW m \in 1..n
       PROVE  On(l2, m) = On(l, m) \ {k} /\ \A x \in On(l2, m) : l2.levels[m][x] = l.levels[m][x]
  <2>1. l2.levels[m] = [x \in On(l, m) \ {k} |-> lv[m][x]]
    BY <1>11, <1>12
  <2> QED BY <1>5, <2>1 DEF On
<1>17. Listed(l2) = Listed(l) \ {k}
  BY <1>3, <1>16 DEF Listed
<1>18. Shape(l2)
  <2>1. ASSUME NEW m \in 1..n
        PROVE  On(l2, m) \subseteq Str /\ Start \notin On(l2, m) /\ IsFiniteSet(On(l2, m))
    <3>1. On(l, m) \subseteq Str /\ Start \notin On(l, m) /\ IsFiniteSet(On(l, m))
      BY <1>1, <1>2 DEF Shape
    <3>2. IsFiniteSet(On(l, m) \ {k})
      BY <3>1, FS_RemoveElement
    <3> QED BY <1>16, <3>1, <3>2
  <2>2. \A x \in On(l2, 1) : l2.levels[1][x].down = 0
    BY <1>2, <1>3, <1>16 DEF Shape
  <2>3. ASSUME NEW m \in 2..n, NEW x \in On(l2, m)
        PROVE  l2.levels[m][x].down \in 1..(m - 1) /\ x \in On(l2, l2.levels[m][x].down)
    <3>1. m \in 1..n /\ x \in On(l, m) /\ x # k /\ l2.levels[m][x] = l.levels[m][x]
      <4>1. m \in 1..n
        BY <1>3
      <4> QED BY <1>16, <4>1
    <3>2. PICK d : d = l.levels[m][x].down
      OBVIOUS
    <3>3. d \in 1..(m - 1) /\ x \in On(l, d)
      BY <1>1, <1>2, <3>1, <3>2 DEF Shape
    <3>4. d \in 1..n
      BY <1>3, <3>3
    <3> QED BY <1>16, <3>1, <3>2, <3>3, <3>4
  <2> QED BY <1>3, <1>15, <2>1, <2>2, <2>3 DEF Shape
<1>19. Dense(l2)
  <2>1. \A m \in 1..n : \A x \in On(l2, m) : x \in On(l, m) /\ l2.levels[m][x] = l.levels[m][x]
    BY <1>16
  <2> QED BY <1>1, <1>15, <2>1 DEF Dense
<1>20. IsFiniteSet(Listed(l)) /\ Cardinality(Listed(l)) \in Nat
  <2>1. IsFiniteSet(Listed(l))
    BY <1>1, <1>2, <1>3 DEF Shape, Listed
  <2> QED BY <2>1, FS_CardinalityType
<1>21. Cardinality(Listed(l) \ {k}) = Cardinality(Listed(l)) - 1
  BY <1>20, FS_RemoveElement
<1>22. Cardinality(Listed(l) \ {k}) \in Nat
  BY <1>20, FS_RemoveElement, FS_CardinalityType
<1>23. l2.size = Cardinality(Listed(l2)) /\ l2.size \in Nat
  <2>1. l2.size = l.size - 1
    BY <1>12
  <2>2. PICK c : c = Cardinality(Listed(l2))
    OBVIOUS
  <2>3. c = l.size - 1 /\ c \in Nat
    BY <1>2, <1>17, <1>21, <1>22, <2>2
  <2> QED BY <2>1, <2>2, <2>3
<1>24. l2 \in [levels : Seq(LevelsOf(V)), size : Nat]
  <2>1. PICK Q : Q = Seq(L)
    OBVIOUS
  <2>2. lv2 \in Q /\ l.size - 1 \in Nat
    BY <1>12, <1>14, <1>23, <2>1
  <2>3. l2 \in [levels : Q, size : Nat]
    BY <1>12, <2>2
  <2> QED BY <1>4, <2>1, <2>3
<1> QED BY <1>17, <1>18, <1>19, <1>23, <1>24 DEF ListOK

LEMMA EmptyListIsOK ==
  ASSUME NEW V
  PROVE  ListOK(EmptyList, V) /\ Dense(EmptyList) /\ Listed(EmptyList) = {} /\ Top(EmptyList) = 1
<1>1. PICK e : e = [k \in {} |-> [value |-> k, down |-> 0]]
  OBVIOUS
<1>2. DOMAIN e = {} /\ e \in [{} -> NodesOf(V)] /\ {} \in SUBSET Str
  BY <1>1
<1>3. e \in LevelsOf(V)
  BY <1>2 DEF LevelsOf
<1>4. PICK lv : lv = <<e>>
  OBVIOUS
<1>5. lv \in Seq(LevelsOf(V)) /\ Len(lv) = 1 /\ lv[1] = e
  BY <1>3, <1>4
<1>6. PICK l : l = EmptyList
  OBVIOUS
<1>7. l = [levels |-> lv, size |-> 0]
  BY <1>1, <1>4, <1>6 DEF EmptyList
<1>8. Top(l) = 1 /\ On(l, 1) = {} /\ 1..1 = {1} /\ 2..1 = {}
  BY <1>2, <1>5, <1>7 DEF Top, On
<1>9. Shape(l) /\ Dense(l)
  <2>1. IsFiniteSet({}) /\ 1 \in Nat \ {0}
    BY FS_EmptySet
  <2> QED BY <1>8, <2>1 DEF Shape, Dense
<1>10. l.size = Cardinality(Listed(l)) /\ Listed(l) = {}
  BY <1>7, <1>8, FS_EmptySet DEF Listed
<1>11. l \in [levels : Seq(LevelsOf(V)), size : Nat]
  <2>1. PICK Q : Q = Seq(LevelsOf(V))
    OBVIOUS
  <2>2. l \in [levels : Q, size : Nat]
    BY <1>5, <1>7, <2>1
  <2> QED BY <2>1, <2>2
<1> QED BY <1>6, <1>8, <1>9, <1>10, <1>11 DEF ListOK

\* put() of a key that is there.
Overwritten(l, k, v) == [l EXCEPT !.levels[1][k].value = v]

LEMMA OverwrittenIsOK ==
  ASSUME NEW V, NEW l, ListOK(l, V), NEW k \in Listed(l), NEW v \in V,
         NEW l2, l2 = Overwritten(l, k, v)
  PROVE  /\ ListOK(l2, V) /\ Listed(l2) = Listed(l)
         /\ \A x \in Listed(l) : l2.levels[1][x].value = IF x = k THEN v ELSE l.levels[1][x].value
<1>1. PICK n : n = Top(l)
  OBVIOUS
<1>2. Shape(l) /\ l.size = Cardinality(Listed(l)) /\ l \in [levels : Seq(LevelsOf(V)), size : Nat]
  BY DEF ListOK
<1>3. n \in Nat \ {0} /\ 1 \in 1..n
  BY <1>1, <1>2 DEF Shape
<1>4. PICK L : L = LevelsOf(V)
  OBVIOUS
<1>5. PICK lv : lv = l.levels
  OBVIOUS
<1>6. lv \in Seq(L) /\ Len(lv) = n /\ l.size \in Nat
  <2>1. PICK Q : Q = Seq(L)
    OBVIOUS
  <2>2. l \in [levels : Q, size : Nat]
    BY <1>2, <1>4, <2>1
  <2>3. l.levels \in Q /\ l.size \in Nat
    BY <2>2
  <2> QED BY <1>1, <1>5, <2>1, <2>3 DEF Top
<1>7. \A m \in 1..n : lv[m] \in L /\ On(l, m) = DOMAIN lv[m]
  BY <1>5, <1>6, ElementOfSeq DEF On
<1>8. PICK D \in SUBSET Str : lv[1] \in [D -> NodesOf(V)]
  BY <1>3, <1>4, <1>7 DEF LevelsOf
<1>9. D = Listed(l) /\ k \in D
  BY <1>3, <1>7, <1>8 DEF Listed
<1>10. PICK b : b = [lv[1] EXCEPT ![k] = [lv[1][k] EXCEPT !.value = v]]
  OBVIOUS
<1>11. lv[1][k] \in NodesOf(V)
  BY <1>8, <1>9
<1>12. PICK node : node = [lv[1][k] EXCEPT !.value = v]
  OBVIOUS
<1>13. node \in NodesOf(V) /\ node.value = v /\ node.down = lv[1][k].down
  <2>1. PICK old : old = lv[1][k]
    OBVIOUS
  <2>2. old \in [value : V, down : Nat] /\ node = [old EXCEPT !.value = v]
    BY <1>11, <1>12, <2>1 DEF NodesOf
  <2>3. node \in [value : V, down : Nat] /\ node.value = v /\ node.down = old.down
    BY <2>2
  <2> QED BY <2>1, <2>3 DEF NodesOf
<1>14. b \in [D -> NodesOf(V)] /\ b[k] = node /\ \A x \in D : x # k => b[x] = lv[1][x]
  <2>1. b = [lv[1] EXCEPT ![k] = node]
    BY <1>10, <1>12
  <2> QED BY <1>8, <1>9, <1>13, <2>1
<1>15. PICK lv2 : lv2 = [lv EXCEPT ![1] = b]
  OBVIOUS
<1>16. l2 = [l EXCEPT !.levels = lv2]
  BY <1>5, <1>10, <1>15 DEF Overwritten
<1>17. b \in L
  BY <1>4, <1>14 DEF LevelsOf
<1>18. lv2 \in Seq(L) /\ Len(lv2) = n /\ lv2[1] = b /\ \A m \in 1..n : m # 1 => lv2[m] = lv[m]
  BY <1>3, <1>6, <1>15, <1>17
<1>19. l2 = [levels |-> lv2, size |-> l.size]
  <2>1. PICK Q : Q = Seq(L)
    OBVIOUS
  <2>2. l \in [levels : Q, size : Nat]
    BY <1>2, <1>4, <2>1
  <2> QED BY <1>16, <2>2
<1>26. l2.levels = lv2 /\ l2.size = l.size
  BY ONLY <1>19
<1>20. Top(l2) = n /\ On(l2, 1) = D /\ \A m \in 1..n : On(l2, m) = On(l, m)
  BY ONLY <1>7, <1>8, <1>14, <1>18, <1>26 DEF Top, On
<1>21. \A m \in 1..n : \A x \in On(l, m) : l2.levels[m][x].down = l.levels[m][x].down
  <2> TAKE m \in 1..n
  <2> TAKE x \in On(l, m)
  <2>1. CASE m = 1
    <3>1. x \in D /\ l2.levels[m][x] = b[x] /\ l.levels[m][x] = lv[1][x]
      BY <1>5, <1>9, <1>18, <1>26, <2>1 DEF Listed
    <3> QED BY <1>13, <1>14, <3>1
  <2>2. CASE m # 1
    BY <1>5, <1>18, <1>26, <2>2
  <2> QED BY <2>1, <2>2
<1>22. Shape(l2)
  <2>1. \A m \in 1..n : On(l2, m) \subseteq Str /\ Start \notin On(l2, m) /\ IsFiniteSet(On(l2, m))
    BY <1>1, <1>2, <1>20 DEF Shape
  <2>2. \A x \in On(l2, 1) : l2.levels[1][x].down = 0
    BY <1>2, <1>3, <1>20, <1>21 DEF Shape
  <2>3. ASSUME NEW m \in 2..n, NEW x \in On(l2, m)
        PROVE  l2.levels[m][x].down \in 1..(m - 1) /\ x \in On(l2, l2.levels[m][x].down)
    <3>1. m \in 1..n /\ \A d \in 1..(m - 1) : d \in 1..n
      BY <1>3
    <3>2. x \in On(l, m)
      BY <1>20, <3>1
    <3>3. PICK d : d = l.levels[m][x].down
      OBVIOUS
    <3>4. d \in 1..(m - 1) /\ x \in On(l, d) /\ l2.levels[m][x].down = d
      BY <1>1, <1>2, <1>21, <3>1, <3>2, <3>3 DEF Shape
    <3> QED BY <1>20, <3>1, <3>4
  <2> QED BY <1>3, <1>20, <2>1, <2>2, <2>3 DEF Shape
<1>23. Listed(l2) = Listed(l) /\ l2.size = Cardinality(Listed(l2))
  BY <1>2, <1>9, <1>26, <1>20 DEF Listed
<1>24. l2 \in [levels : Seq(LevelsOf(V)), size : Nat]
  <2>1. PICK Q : Q = Seq(L)
    OBVIOUS
  <2>3. PICK s : s = l.size
    OBVIOUS
  <2>4. s \in Nat /\ lv2 \in Q /\ l2 = [levels |-> lv2, size |-> s]
    BY <1>6, <1>18, <1>19, <2>1, <2>3
  <2>2. l2 \in [levels : Q, size : Nat]
    BY ONLY <2>4
  <2> QED BY <1>4, <2>1, <2>2
<1>25. \A x \in Listed(l) : l2.levels[1][x].value = IF x = k THEN v ELSE l.levels[1][x].value
  BY <1>5, <1>9, <1>13, <1>14, <1>18, <1>26
<1> QED BY <1>22, <1>23, <1>24, <1>25 DEF ListOK

\* insert() of a key that is not there: from the head of a list whose towers
\* have no gaps, or from a node at the bottom.
LEMMA InsertedIsOK ==
  ASSUME NEW V, NEW l, ListOK(l, V), NEW k \in Str, k # Start, k \notin Listed(l), NEW v \in V,
         NEW w \in 1..Top(l), Dense(l) \/ w = 1, NEW p, p = Start \/ p \in On(l, w) \cap UpTo(l, k),
         NEW tall \in 1..(w + 1), NEW l2, l2 = Inserted(l, w, p, k, v, tall)
  PROVE  WithKey(V, l, l2, w, k, v)
<1>1. Shape(l)
  BY DEF ListOK
<1>2. l2 = Built(l, w, k, v, tall)
  BY <1>1, InsertedIs
<1>3. Grown(l, l2, w, k, v, tall) /\ l2 \in [levels : Seq(LevelsOf(V)), size : Nat]
  BY <1>2, InsertedGrows
<1>4. l2.size = l.size + 1
  BY <1>2, InsertedGrows
<1> QED BY <1>3, <1>4, GrownIsOK

\* The node put() starts from.
LEMMA LowerIsBelow ==
  ASSUME NEW l, Shape(l), NEW k \in Str, NEW p, p = Lower(l, k)
  PROVE  p = Start \/ p \in On(l, 1) \cap UpTo(l, k)
<1>1. PICK below : below = {x \in Listed(l) : Less(x, k)}
  OBVIOUS
<1>2. p = IF below = {} THEN Start ELSE Greatest(below)
  BY <1>1, LowerIsGreatest
<1>3. Listed(l) \in SUBSET Str /\ IsFiniteSet(Listed(l)) /\ AllKeys(l) = Listed(l)
  BY LevelsAreListed DEF Shape, Listed
<1>4. below \in SUBSET Str /\ IsFiniteSet(below)
  <2>1. below \in SUBSET Listed(l)
    BY <1>1
  <2> QED BY <1>3, <2>1, FS_Subset
<1>5. below # {} => Greatest(below) \in below
  BY <1>4, GreatestIs
<1> QED BY <1>1, <1>2, <1>3, <1>5 DEF UpTo, LessEq, Listed

LEMMA PutIsOK ==
  ASSUME NEW V, NEW l, ListOK(l, V), NEW k \in Str, k # Start, NEW v \in V, NEW tall \in 1..2,
         NEW l2, l2 = KVPut(l, k, v, tall)
  PROVE  /\ ListOK(l2, V) /\ Listed(l2) = Listed(l) \cup {k}
         /\ \A x \in Listed(l2) : l2.levels[1][x].value = IF x = k THEN v ELSE l.levels[1][x].value
<1>1. Shape(l)
  BY DEF ListOK
<1>2. PICK p : p = Lower(l, k)
  OBVIOUS
<1>3. RightOf(l, p) = k <=> k \in Listed(l)
  BY <1>1, <1>2, RightOfLower
<1>4. CASE k \in Listed(l)
  <2>1. l2 = Overwritten(l, k, v)
    BY <1>2, <1>3, <1>4 DEF KVPut, Overwritten
  <2>2. /\ ListOK(l2, V) /\ Listed(l2) = Listed(l)
        /\ \A x \in Listed(l) : l2.levels[1][x].value = IF x = k THEN v ELSE l.levels[1][x].value
    BY <1>4, <2>1, OverwrittenIsOK
  <2> QED BY <1>4, <2>2
<1>5. CASE k \notin Listed(l)
  <2>1. PICK w : w = 1
    OBVIOUS
  <2>2. l2 = Inserted(l, w, p, k, v, tall)
    BY <1>2, <1>3, <1>5, <2>1 DEF KVPut
  <2>3. w \in 1..Top(l) /\ tall \in 1..(w + 1)
    BY <1>1, <2>1 DEF Shape
  <2>4. p = Start \/ p \in On(l, w) \cap UpTo(l, k)
    BY <1>1, <1>2, <2>1, LowerIsBelow
  <2>5. /\ ListOK(l2, V) /\ Listed(l2) = Listed(l) \cup {k}
        /\ l2.levels[1][k].value = v
        /\ \A x \in Listed(l) : l2.levels[1][x] = l.levels[1][x]
    <3>1. WithKey(V, l, l2, w, k, v)
      BY <1>5, <2>1, <2>2, <2>3, <2>4, InsertedIsOK
    <3> QED BY <3>1 DEF WithKey, Cell
  <2> QED BY <1>5, <2>5
<1> QED BY <1>4, <1>5

-----------------------------------------------------------------------------

RecordsInv ==
  which = "records" => /\ ListOK(list, ListKeys) /\ Dense(list)
                       /\ Listed(list) = DOMAIN map /\ DOMAIN map \subseteq ListKeys

LEMMA KeysAreStrings == ListKeys \in SUBSET Str /\ Start \notin ListKeys
BY ContainersAssumption DEF Str

LEMMA InsertKeepsRecords ==
  ASSUME RecordsInv, which = "records", InsertRecord
  PROVE  ListOK(list', ListKeys) /\ Dense(list') /\ Listed(list') = DOMAIN map' /\ DOMAIN map' \subseteq ListKeys
<1>1. PICK k \in ListKeys \ DOMAIN map, tall \in 1..MaxTall :
        /\ tall <= Top(list) + 1
        /\ list' = InsertedFromHead(list, k, k, tall)
        /\ map' = [x \in DOMAIN map \cup {k} |-> x]
  BY DEF InsertRecord
<1>2. k \in Str /\ k # Start /\ k \notin Listed(list)
  BY <1>1, KeysAreStrings DEF RecordsInv
<1>3. PICK w : w = Top(list)
  OBVIOUS
<1>4. w \in Nat \ {0} /\ MaxTall \in Nat
  BY <1>3, ContainersAssumption DEF RecordsInv, ListOK, Shape
<1>8. tall <= w + 1
  BY <1>1, <1>3
<1>5. w \in 1..Top(list) /\ tall \in 1..(w + 1)
  <2>1. tall \in 1..MaxTall /\ w = Top(list)
    BY <1>3
  <2> QED BY ONLY <1>4, <1>8, <2>1
<1>6. list' = Inserted(list, w, Start, k, k, tall)
  BY <1>1, <1>3 DEF InsertedFromHead
<1>7. ListOK(list', ListKeys) /\ Listed(list') = Listed(list) \cup {k} /\ Dense(list')
  <2>1. PICK p : p = Start
    OBVIOUS
  <2>2. PICK l2 : l2 = list'
    OBVIOUS
  <2>3. ListOK(list, ListKeys) /\ Dense(list) /\ l2 = Inserted(list, w, p, k, k, tall)
    BY <1>6, <2>1, <2>2 DEF RecordsInv
  <2>4. WithKey(ListKeys, list, l2, w, k, k)
    BY <1>2, <1>5, <2>1, <2>3, InsertedIsOK
  <2> QED BY <1>3, <2>2, <2>3, <2>4 DEF WithKey
<1> QED BY <1>1, <1>7 DEF RecordsInv

LEMMA EraseKeepsRecords ==
  ASSUME RecordsInv, which = "records", EraseRecord
  PROVE  ListOK(list', ListKeys) /\ Dense(list') /\ Listed(list') = DOMAIN map' /\ DOMAIN map' \subseteq ListKeys
<1>1. PICK k \in DOMAIN map : /\ list' = Unlinked(list, k)
                              /\ map' = [x \in DOMAIN map \ {k} |-> x]
  BY DEF EraseRecord
<1>2. ListOK(list', ListKeys) /\ Dense(list') /\ Listed(list') = Listed(list) \ {k}
  BY <1>1, UnlinkedIsOK DEF RecordsInv
<1> QED BY <1>1, <1>2 DEF RecordsInv

MemInv ==
  which = "memtable" => ListOK(list, Values) /\ KVAll(list) = map /\ DOMAIN map \subseteq ListKeys

LEMMA PutKeepsPairs ==
  ASSUME MemInv, which = "memtable", PutPair
  PROVE  ListOK(list', Values) /\ KVAll(list') = map' /\ DOMAIN map' \subseteq ListKeys
<1>1. PICK k \in ListKeys, v \in Values, tall \in 1..2 :
        /\ list' = KVPut(list, k, v, tall)
        /\ map' = [x \in DOMAIN map \cup {k} |-> IF x = k THEN v ELSE map[x]]
  BY DEF PutPair
<1>2. k \in Str /\ k # Start
  BY <1>1, KeysAreStrings
<1>3. PICK l2 : l2 = list'
  OBVIOUS
<1>4. /\ ListOK(l2, Values) /\ Listed(l2) = Listed(list) \cup {k}
      /\ \A x \in Listed(l2) : l2.levels[1][x].value = IF x = k THEN v ELSE list.levels[1][x].value
  BY <1>1, <1>2, <1>3, PutIsOK DEF MemInv
<1>5. map = [x \in Listed(list) |-> list.levels[1][x].value]
  BY DEF MemInv, KVAll
<1>6. DOMAIN map = Listed(list) /\ \A x \in Listed(list) : map[x] = list.levels[1][x].value
  BY <1>5
<1>7. KVAll(l2) = [x \in Listed(l2) |-> l2.levels[1][x].value]
  BY DEF KVAll
<1>8. KVAll(l2) = [x \in DOMAIN map \cup {k} |-> IF x = k THEN v ELSE map[x]]
  BY <1>4, <1>6, <1>7
<1>9. DOMAIN map' = DOMAIN map \cup {k}
  BY <1>1
<1> QED BY <1>1, <1>3, <1>4, <1>8, <1>9 DEF MemInv

ListsInv == RecordsInv /\ MemInv

LEMMA ListsStart ==
  ASSUME MCInit
  PROVE  ListsInv
<1>1. list = EmptyList /\ map = NoMap
  BY DEF MCInit
<1>2. DOMAIN map = {}
  BY <1>1 DEF NoMap
<1>3. PICK l : l = EmptyList
  OBVIOUS
<1>4. \A V : ListOK(l, V) /\ Dense(l) /\ Listed(l) = {}
  BY <1>3, EmptyListIsOK
<1>5. KVAll(l) = map
  <2>1. KVAll(l) = [k \in {} |-> l.levels[1][k].value]
    BY <1>4 DEF KVAll
  <2> QED BY <1>1, <2>1 DEF NoMap
<1> QED BY <1>1, <1>2, <1>3, <1>4, <1>5 DEF ListsInv, RecordsInv, MemInv

LEMMA ClearKeepsPairs ==
  ASSUME ClearPairs
  PROVE  ListOK(list', Values) /\ KVAll(list') = map' /\ DOMAIN map' \subseteq ListKeys
<1>1. list' = EmptyList /\ map' = NoMap
  BY DEF ClearPairs
<1>2. PICK l : l = EmptyList
  OBVIOUS
<1>3. ListOK(l, Values) /\ Listed(l) = {}
  BY <1>2, EmptyListIsOK
<1>4. KVAll(l) = NoMap /\ DOMAIN NoMap = {}
  <2>1. KVAll(l) = [k \in {} |-> l.levels[1][k].value]
    BY <1>3 DEF KVAll
  <2> QED BY <2>1 DEF NoMap
<1> QED BY <1>1, <1>2, <1>3, <1>4

LEMMA ListsKept ==
  ASSUME ListsInv, [MCNext]_vars
  PROVE  ListsInv'
<1>1. CASE UNCHANGED vars
  BY <1>1 DEF vars, files, ListsInv, RecordsInv, MemInv
<1>2. CASE CacheStep
  BY <1>2 DEF CacheStep, Use, files, ListsInv, RecordsInv, MemInv
<1>3. CASE NameStep
  BY <1>3 DEF NameStep, Use, ListsInv, RecordsInv, MemInv
<1>4. CASE ListStep
  <2>1. CASE Use("records", MaxListed) /\ (InsertRecord \/ EraseRecord)
    <3>1. which = "records" /\ which' = "records"
      BY <2>1 DEF Use
    <3> QED BY <2>1, <3>1, InsertKeepsRecords, EraseKeepsRecords DEF ListsInv, RecordsInv, MemInv
  <2>2. CASE Use("memtable", MaxListed) /\ (PutPair \/ ClearPairs)
    <3>1. which = "memtable" /\ which' = "memtable"
      BY <2>2 DEF Use
    <3> QED BY <2>2, <3>1, PutKeepsPairs, ClearKeepsPairs DEF ListsInv, RecordsInv, MemInv
  <2> QED BY <1>4, <2>1, <2>2 DEF ListStep
<1>5. CASE MakeTable
  BY <1>5 DEF MakeTable, Use, ListsInv, RecordsInv, MemInv
<1>6. CASE FileStep
  BY <1>6 DEF FileStep, Use, ListsInv, RecordsInv, MemInv
<1>7. CASE ClientStep
  <2>1. UNCHANGED <<which, list, map>>
    BY <1>7 DEF ClientStep, Use, files
  <2> QED BY <2>1 DEF ListsInv, RecordsInv, MemInv
<1> QED BY <1>1, <1>2, <1>3, <1>4, <1>5, <1>6, <1>7 DEF MCNext

LEMMA RecordsAreASet ==
  ASSUME ListsInv
  PROVE  ListIsSet
<1>1. SUFFICES ASSUME which = "records"
               PROVE  /\ Listed(list) = DOMAIN map
                      /\ list.size = Cardinality(DOMAIN map)
                      /\ \A i \in 2..Top(list) : \A k \in On(list, i) :
                           list.levels[i][k].down = i - 1 /\ k \in On(list, i - 1)
                      /\ \A k \in ListKeys :
                           /\ HasElement(list, k) <=> k \in DOMAIN map
                           /\ LET below == {x \in DOMAIN map : Less(x, k)}
                              IN  /\ Lower(list, k) = IF below = {} THEN Start ELSE Greatest(below)
                                  /\ LowerEqual(list, k) = IF k \in DOMAIN map THEN k ELSE Lower(list, k)
  BY DEF ListIsSet
<1>2. ListOK(list, ListKeys) /\ Dense(list) /\ Listed(list) = DOMAIN map
  BY <1>1 DEF ListsInv, RecordsInv
<1>3. Shape(list) /\ list.size = Cardinality(DOMAIN map)
  BY <1>2 DEF ListOK
<1>4. ASSUME NEW i \in 2..Top(list), NEW k \in On(list, i)
      PROVE  list.levels[i][k].down = i - 1 /\ k \in On(list, i - 1)
  <2>1. i \in 1..Top(list)
    BY <1>3 DEF Shape
  <2>2. list.levels[i][k].down = i - 1
    BY <1>2, <2>1 DEF Dense
  <2>3. k \in On(list, list.levels[i][k].down)
    BY <1>3 DEF Shape
  <2> QED BY <2>2, <2>3
<1>5. ASSUME NEW k \in ListKeys
      PROVE  /\ HasElement(list, k) <=> k \in DOMAIN map
             /\ LET below == {x \in DOMAIN map : Less(x, k)}
                IN  /\ Lower(list, k) = IF below = {} THEN Start ELSE Greatest(below)
                    /\ LowerEqual(list, k) = IF k \in DOMAIN map THEN k ELSE Lower(list, k)
  <2>1. k \in Str /\ k # Start
    BY KeysAreStrings
  <2>2. PICK below : below = {x \in DOMAIN map : Less(x, k)}
    OBVIOUS
  <2>3. HasElement(list, k) <=> k \in DOMAIN map
    BY <1>2, <1>3, <2>1, ElementIsListed
  <2>4. Lower(list, k) = IF below = {} THEN Start ELSE Greatest(below)
    BY <1>2, <1>3, <2>2, LowerIsGreatest
  <2>5. LowerEqual(list, k) = IF k \in DOMAIN map THEN k ELSE Lower(list, k)
    BY <1>2, <1>3, <2>1, LowerEqualIsGreatest
  <2> QED BY <2>2, <2>3, <2>4, <2>5
<1> QED BY <1>2, <1>3, <1>4, <1>5

LEMMA PairsAreAMap ==
  ASSUME ListsInv
  PROVE  MemtableIsMap
<1>1. SUFFICES ASSUME which = "memtable"
               PROVE  /\ KVAll(list) = map
                      /\ list.size = Cardinality(DOMAIN map)
                      /\ \A k \in ListKeys : /\ KVCount(list, k) <=> k \in DOMAIN map
                                             /\ KVGet(list, k) = IF k \in DOMAIN map THEN map[k] ELSE Missing
  BY DEF MemtableIsMap
<1>2. ListOK(list, Values) /\ KVAll(list) = map
  BY <1>1 DEF ListsInv, MemInv
<1>3. map = [x \in Listed(list) |-> list.levels[1][x].value]
  BY <1>2 DEF KVAll
<1>4. DOMAIN map = Listed(list) /\ \A x \in Listed(list) : map[x] = list.levels[1][x].value
  BY <1>3
<1>5. Shape(list) /\ list.size = Cardinality(DOMAIN map)
  BY <1>2, <1>4 DEF ListOK
<1>6. ASSUME NEW k \in ListKeys
      PROVE  /\ KVCount(list, k) <=> k \in DOMAIN map
             /\ KVGet(list, k) = IF k \in DOMAIN map THEN map[k] ELSE Missing
  <2>1. k \in Str /\ k # Start
    BY KeysAreStrings
  <2>2. KVCount(list, k) <=> k \in DOMAIN map
    BY <1>4, <1>5, <2>1, RightOfLower DEF KVCount
  <2> QED BY <1>4, <2>2 DEF KVGet
<1> QED BY <1>2, <1>5, <1>6

\* Whatever records ManiFest inserts and erases (manifest.cpp:115-225), the
\* towers of its skip lists have no gaps, size() counts the bottom, and lower(),
\* lower_equal() and count() (skiplist.h) find what a plain set would.
THEOREM ListsAnswerLikeSets == MCSpec => []ListIsSet
<1>1. MCInit => ListsInv
  BY ListsStart
<1>2. ListsInv /\ [MCNext]_vars => ListsInv'
  BY ListsKept
<1>3. ListsInv => ListIsSet
  BY RecordsAreASet
<1> QED BY <1>1, <1>2, <1>3, PTL DEF MCSpec

\* Whatever is put (utils.h:109-169) between two clear()s, the memtable holds
\* for each key what was put last and nothing else, although a put of a key it
\* has changes the bottom node only, and a head on top leads down past levels.
THEOREM MemtableAnswersLikeAMap == MCSpec => []MemtableIsMap
<1>1. MCInit => ListsInv
  BY ListsStart
<1>2. ListsInv /\ [MCNext]_vars => ListsInv'
  BY ListsKept
<1>3. ListsInv => MemtableIsMap
  BY PairsAreAMap
<1> QED BY <1>1, <1>2, <1>3, PTL DEF MCSpec

-----------------------------------------------------------------------------
(* Prefixes of strings.                                                    *)

LEMMA PrefixIs ==
  ASSUME NEW s \in Str, NEW t \in Str
  PROVE  IsPrefix(s, t) <=> Len(s) <= Len(t) /\ \A i \in 1..Len(s) : s[i] = t[i]
<1>1. Len(s) \in Nat /\ Len(t) \in Nat
  BY DEF Str
<1>2. SUFFICES ASSUME Len(s) <= Len(t)
               PROVE  SubSeq(s, 1, Len(s)) = SubSeq(t, 1, Len(s)) <=> \A i \in 1..Len(s) : s[i] = t[i]
  BY DEF IsPrefix
<1>3. SubSeq(s, 1, Len(s)) = [i \in 1..Len(s) |-> s[i]]
  <2>1. s \in Seq(Nat) /\ Len(s) \in 0..Len(s)
    BY <1>1 DEF Str
  <2> QED BY <2>1
<1>4. SubSeq(t, 1, Len(s)) = [i \in 1..Len(s) |-> t[i]]
  <2>1. t \in Seq(Nat) /\ Len(s) \in 0..Len(t)
    BY <1>1, <1>2 DEF Str
  <2> QED BY <2>1
<1> QED BY <1>3, <1>4

\* The first i characters of p.
LEMMA StartOf ==
  ASSUME NEW p \in Str, NEW i \in 0..Len(p), NEW c, c = SubSeq(p, 1, i)
  PROVE  c \in Str /\ Len(c) = i /\ IsPrefix(c, p) /\ \A j \in 1..i : c[j] = p[j]
<1>1. p \in Seq(Nat) /\ Len(p) \in Nat /\ i \in Nat /\ i <= Len(p)
  BY DEF Str
<1>2. c = [j \in 1..i |-> p[j]]
  BY <1>1
<1>3. c \in [1..i -> Nat]
  <2>1. \A j \in 1..i : j \in 1..Len(p)
    BY <1>1
  <2>2. \A j \in 1..i : p[j] \in Nat
    BY <1>1, <2>1
  <2> QED BY <1>2, <2>2
<1>4. c \in Str /\ Len(c) = i
  BY <1>1, <1>3, IsSequence DEF Str
<1>5. \A j \in 1..i : c[j] = p[j]
  BY <1>2
<1> QED BY <1>1, <1>4, <1>5, PrefixIs

LEMMA PrefixIsStart ==
  ASSUME NEW p \in Str, NEW q \in Str, IsPrefix(q, p)
  PROVE  Len(q) \in 0..Len(p) /\ q = SubSeq(p, 1, Len(q))
<1>1. q \in Seq(Nat) /\ p \in Seq(Nat) /\ Len(q) \in Nat /\ Len(p) \in Nat
  BY DEF Str
<1>2. Len(q) <= Len(p) /\ \A i \in 1..Len(q) : q[i] = p[i]
  BY PrefixIs
<1>3. SubSeq(p, 1, Len(q)) = [j \in 1..Len(q) |-> p[j]]
  BY <1>1, <1>2
<1>4. q = [j \in 1..Len(q) |-> q[j]]
  BY <1>1
<1> QED BY <1>1, <1>2, <1>3, <1>4

LEMMA PrefixesAre ==
  ASSUME NEW p \in Str
  PROVE  Prefixes(p) = {q \in Str : IsPrefix(q, p)}
<1>1. ASSUME NEW q \in Prefixes(p)
      PROVE  q \in Str /\ IsPrefix(q, p)
  <2>1. PICK i \in 0..Len(p) : q = SubSeq(p, 1, i)
    BY DEF Prefixes
  <2> QED BY <2>1, StartOf
<1>2. ASSUME NEW q \in Str, IsPrefix(q, p)
      PROVE  q \in Prefixes(p)
  BY <1>2, PrefixIsStart DEF Prefixes
<1> QED BY <1>1, <1>2

LEMMA PrefixReflexive ==
  ASSUME NEW s \in Str
  PROVE  IsPrefix(s, s)
<1>1. Len(s) \in Nat
  BY DEF Str
<1> QED BY <1>1, PrefixIs

LEMMA PrefixTransitive ==
  ASSUME NEW s \in Str, NEW t \in Str, NEW u \in Str, IsPrefix(s, t), IsPrefix(t, u)
  PROVE  IsPrefix(s, u)
<1>1. Len(s) \in Nat /\ Len(t) \in Nat /\ Len(u) \in Nat
  BY DEF Str
<1>2. /\ Len(s) <= Len(t) /\ Len(t) <= Len(u)
      /\ \A i \in 1..Len(s) : s[i] = t[i]
      /\ \A i \in 1..Len(t) : t[i] = u[i]
  BY PrefixIs
<1>3. Len(s) <= Len(u)
  BY <1>1, <1>2
<1>4. \A i \in 1..Len(s) : s[i] = u[i]
  <2> TAKE i \in 1..Len(s)
  <2>1. i \in 1..Len(t)
    BY <1>1, <1>2
  <2> QED BY <1>2, <2>1
<1> QED BY <1>3, <1>4, PrefixIs

LEMMA EmptyIsPrefix ==
  ASSUME NEW s \in Str
  PROVE  <<>> \in Str /\ IsPrefix(<<>>, s) /\ (IsPrefix(s, <<>>) => s = <<>>)
<1>1. Len(s) \in Nat /\ s \in Seq(Nat)
  BY DEF Str
<1>2. PICK e : e = <<>>
  OBVIOUS
<1>3. e \in Str /\ Len(e) = 0
  BY <1>2 DEF Str
<1>4. IsPrefix(e, s)
  BY <1>1, <1>3, PrefixIs
<1>5. IsPrefix(s, e) => s = e
  <2>1. SUFFICES ASSUME IsPrefix(s, e)
                 PROVE  s = e
    OBVIOUS
  <2>2. Len(s) <= 0
    BY <1>3, <2>1, PrefixIs
  <2>3. Len(s) = 0
    BY <1>1, <2>2
  <2> QED BY <1>1, <1>2, <2>3
<1> QED BY <1>2, <1>3, <1>4, <1>5

\* Two prefixes of a string.
LEMMA PrefixesLieInOrder ==
  ASSUME NEW p \in Str, NEW q \in Str, NEW r \in Str, IsPrefix(q, p), IsPrefix(r, p), Len(q) <= Len(r)
  PROVE  IsPrefix(q, r)
<1>1. Len(q) \in Nat /\ Len(r) \in Nat
  BY DEF Str
<1>2. (\A i \in 1..Len(q) : q[i] = p[i]) /\ (\A i \in 1..Len(r) : r[i] = p[i])
  BY PrefixIs
<1>3. \A i \in 1..Len(q) : q[i] = r[i]
  <2> TAKE i \in 1..Len(q)
  <2>1. i \in 1..Len(r)
    BY <1>1
  <2> QED BY <1>2, <2>1
<1> QED BY <1>3, PrefixIs

-----------------------------------------------------------------------------
(* The tree of a trie.                                                     *)

Beyond(S, q) == {r \in S : IsPrefix(q, r)}

\* A tree without dead branches whose nodes know how many values they lead to.
TrieOK(t) ==
  /\ Valued(t) \in SUBSET Str /\ IsFiniteSet(Valued(t))
  /\ DOMAIN t = {<<>>} \cup {q \in Str : Beyond(Valued(t), q) # {}}
  /\ \A q \in DOMAIN t : t[q].size = Cardinality(Beyond(Valued(t), q))

LEMMA EmptyTrieIsOK == TrieOK(EmptyTrie) /\ Valued(EmptyTrie) = {}
<1>1. PICK t : t = EmptyTrie
  OBVIOUS
<1>2. PICK e : e = <<>>
  OBVIOUS
<1>3. DOMAIN t = {e} /\ t[e].value = Nil /\ t[e].size = 0
  BY <1>1, <1>2 DEF EmptyTrie, EmptyNode
<1>4. Valued(t) = {}
  BY <1>3 DEF Valued
<1>5. \A q : Beyond(Valued(t), q) = {}
  BY <1>4 DEF Beyond
<1>6. IsFiniteSet({}) /\ Cardinality({}) = 0
  BY FS_EmptySet
<1> QED BY <1>1, <1>2, <1>3, <1>4, <1>5, <1>6 DEF TrieOK

LEMMA BeyondIsFinite ==
  ASSUME NEW S, IsFiniteSet(S), NEW q
  PROVE  IsFiniteSet(Beyond(S, q)) /\ Cardinality(Beyond(S, q)) \in Nat
<1>1. Beyond(S, q) \in SUBSET S
  BY DEF Beyond
<1>2. IsFiniteSet(Beyond(S, q))
  BY <1>1, FS_Subset
<1> QED BY <1>2, FS_CardinalityType

\* A tree with one value more, or another value for p.
WithValue(t, t2, p, v) ==
  /\ TrieOK(t2) /\ Valued(t2) = Valued(t) \cup {p}
  /\ t2[p].value = v
  /\ \A q \in Valued(t) : q # p => t2[q].value = t[q].value

LEMMA StoredIsOK ==
  ASSUME NEW t, TrieOK(t), NEW s, NEW p \in Str, p = Path(s), NEW v, v # Nil, NEW t2, t2 = Stored(t, s, v)
  PROVE  WithValue(t, t2, p, v)
<1>1. PICK S : S = Valued(t)
  OBVIOUS
<1>2. PICK D : D = DOMAIN t
  OBVIOUS
<1>3. S \in SUBSET Str /\ IsFiniteSet(S) /\ S \subseteq D
  BY <1>1, <1>2 DEF TrieOK, Valued
<1>4. D = {<<>>} \cup {q \in Str : Beyond(S, q) # {}}
  BY <1>1, <1>2 DEF TrieOK
<1>5. \A q \in D : t[q].size = Cardinality(Beyond(S, q))
  BY <1>1, <1>2 DEF TrieOK
<1>6. PICK P : P = Prefixes(p)
  OBVIOUS
<1>7. P = {q \in Str : IsPrefix(q, p)}
  BY <1>6, PrefixesAre
<1>8. Count(t, s) <=> p \in S
  BY <1>1, <1>2 DEF Count, Query, Valued
<1>9. PICK grown : grown = IF p \in S THEN {} ELSE P
  OBVIOUS
<1>10. t2 = [q \in D \cup P |->
               [value |-> IF q = p THEN v ELSE NodeAt(t, q).value,
                size  |-> NodeAt(t, q).size + (IF q \in grown THEN 1 ELSE 0)]]
  BY <1>2, <1>6, <1>8, <1>9 DEF Stored
<1>11. DOMAIN t2 = D \cup P /\ D \cup P \subseteq Str
  <2>1. <<>> \in Str
    BY EmptyIsPrefix
  <2> QED BY <1>4, <1>7, <1>10, <2>1
<1>12. \A q \in D \cup P : /\ t2[q].value = IF q = p THEN v ELSE NodeAt(t, q).value
                           /\ t2[q].size = NodeAt(t, q).size + (IF q \in grown THEN 1 ELSE 0)
  BY <1>10
<1>13. p \in P
  BY <1>7, PrefixReflexive
<1>14. Valued(t2) = S \cup {p}
  <2>1. ASSUME NEW q \in D \cup P, q # p
        PROVE  t2[q].value # Nil <=> q \in S
    <3>1. t2[q].value = NodeAt(t, q).value
      BY <1>12, <2>1
    <3>2. CASE q \in D
      BY <1>1, <1>2, <3>1, <3>2 DEF NodeAt, Valued
    <3>3. CASE q \notin D
      BY <1>2, <1>3, <3>1, <3>3 DEF NodeAt, EmptyNode
    <3> QED BY <3>2, <3>3
  <2>2. t2[p].value # Nil
    BY <1>12, <1>13
  <2> QED BY <1>3, <1>11, <1>13, <2>1, <2>2 DEF Valued
<1>15. PICK S2 : S2 = S \cup {p}
  OBVIOUS
<1>16. S2 \in SUBSET Str /\ IsFiniteSet(S2)
  BY <1>3, <1>15, FS_AddElement
<1>17. D \cup P = {<<>>} \cup {q \in Str : Beyond(S2, q) # {}}
  <2>1. \A q : Beyond(S2, q) = IF IsPrefix(q, p) THEN Beyond(S, q) \cup {p} ELSE Beyond(S, q)
    BY <1>15 DEF Beyond
  <2>2. \A q \in Str : q \in P <=> IsPrefix(q, p)
    BY <1>7
  <2>3. \A q \in Str : Beyond(S2, q) # {} <=> Beyond(S, q) # {} \/ q \in P
    BY <2>1, <2>2
  <2> QED BY <1>4, <1>7, <2>3
<1>18. ASSUME NEW q \in D \cup P
       PROVE  t2[q].size = Cardinality(Beyond(S2, q))
  <2>1. q \in Str
    BY <1>11
  <2>2. NodeAt(t, q).size = Cardinality(Beyond(S, q))
    <3>1. CASE q \in D
      BY <1>2, <1>5, <3>1 DEF NodeAt
    <3>2. CASE q \notin D
      <4>1. Beyond(S, q) = {}
        BY <1>4, <2>1, <3>2
      <4>2. Cardinality({}) = 0
        BY FS_EmptySet
      <4> QED BY <1>2, <3>2, <4>1, <4>2 DEF NodeAt, EmptyNode
    <3> QED BY <3>1, <3>2
  <2>3. IsFiniteSet(Beyond(S, q)) /\ Cardinality(Beyond(S, q)) \in Nat
    BY <1>3, BeyondIsFinite
  <2>4. CASE q \in P /\ p \notin S
    <3>1. Beyond(S2, q) = Beyond(S, q) \cup {p} /\ p \notin Beyond(S, q)
      BY <1>7, <1>15, <2>4 DEF Beyond
    <3>2. Cardinality(Beyond(S2, q)) = Cardinality(Beyond(S, q)) + 1
      BY <2>3, <3>1, FS_AddElement
    <3> QED BY <1>9, <1>12, <2>2, <2>4, <3>2
  <2>5. CASE ~(q \in P /\ p \notin S)
    <3>1. q \notin grown
      BY <1>9, <2>5
    <3>2. Beyond(S2, q) = Beyond(S, q)
      BY <1>7, <1>15, <2>1, <2>5 DEF Beyond
    <3> QED BY <1>12, <2>2, <2>3, <3>1, <3>2
  <2> QED BY <2>4, <2>5
<1>19. TrieOK(t2)
  BY <1>11, <1>14, <1>15, <1>16, <1>17, <1>18 DEF TrieOK
<1>20. \A q \in S : q # p => t2[q].value = t[q].value
  BY <1>2, <1>3, <1>12 DEF NodeAt
<1> QED BY <1>1, <1>12, <1>13, <1>14, <1>19, <1>20 DEF WithValue

\* A tree without the value for p.
WithoutValue(t, t2, p) ==
  /\ TrieOK(t2) /\ Valued(t2) = Valued(t) \ {p}
  /\ \A q \in Valued(t2) : t2[q].value = t[q].value

\* The tree after the way to p was counted down, dead branches still there.
CountedDown(t, c, p) ==
  /\ DOMAIN c = DOMAIN t /\ Valued(c) = Valued(t) \ {p}
  /\ \A q \in DOMAIN c : c[q].size = Cardinality(Beyond(Valued(c), q))
  /\ \A q \in Valued(c) : c[q].value = t[q].value

LEMMA CountedIsDown ==
  ASSUME NEW t, TrieOK(t), NEW p \in Valued(t), NEW c, c = Counted(t, p)
  PROVE  CountedDown(t, c, p)
<1>1. PICK S : S = Valued(t)
  OBVIOUS
<1>2. PICK D : D = DOMAIN t
  OBVIOUS
<1>3. S \in SUBSET Str /\ IsFiniteSet(S) /\ S \subseteq D /\ p \in S /\ p \in Str
  BY <1>1, <1>2 DEF TrieOK, Valued
<1>4. \A q \in D : t[q].size = Cardinality(Beyond(S, q)) /\ q \in Str
  <2>1. <<>> \in Str
    BY <1>3, EmptyIsPrefix
  <2> QED BY <1>1, <1>2, <2>1 DEF TrieOK
<1>5. PICK P : P = Prefixes(p)
  OBVIOUS
<1>6. P = {q \in Str : IsPrefix(q, p)}
  BY <1>3, <1>5, PrefixesAre
<1>7. c = [q \in D |-> [value |-> IF q = p THEN Nil ELSE t[q].value,
                        size  |-> t[q].size - (IF q \in P THEN 1 ELSE 0)]]
  BY <1>2, <1>5 DEF Counted
<1>8. DOMAIN c = D
  BY <1>7
<1>9. \A q \in D : /\ c[q].value = IF q = p THEN Nil ELSE t[q].value
                   /\ c[q].size = t[q].size - (IF q \in P THEN 1 ELSE 0)
  BY <1>7
<1>10. Valued(c) = S \ {p}
  BY <1>1, <1>2, <1>8, <1>9 DEF Valued
<1>11. ASSUME NEW q \in D
       PROVE  c[q].size = Cardinality(Beyond(S \ {p}, q))
  <2>1. IsFiniteSet(Beyond(S, q)) /\ Cardinality(Beyond(S, q)) \in Nat
    BY <1>3, BeyondIsFinite
  <2>2. CASE q \in P
    <3>1. Beyond(S \ {p}, q) = Beyond(S, q) \ {p} /\ p \in Beyond(S, q)
      BY <1>3, <1>6, <2>2 DEF Beyond
    <3>2. Cardinality(Beyond(S, q) \ {p}) = Cardinality(Beyond(S, q)) - 1
      BY <2>1, <3>1, FS_RemoveElement
    <3> QED BY <1>4, <1>9, <2>2, <3>1, <3>2
  <2>3. CASE q \notin P
    <3>1. Beyond(S \ {p}, q) = Beyond(S, q)
      BY <1>4, <1>6, <2>3 DEF Beyond
    <3> QED BY <1>4, <1>9, <2>1, <2>3, <3>1
  <2> QED BY <2>2, <2>3
<1>12. \A q \in S \ {p} : c[q].value = t[q].value
  BY <1>3, <1>9
<1> QED BY <1>1, <1>2, <1>8, <1>10, <1>11, <1>12 DEF CountedDown

\* Where the branch is cut: nothing hangs below, and something that counts is above.
CutAt(c, p, m) ==
  /\ m \in 1..Len(p) \/ (m = 1 /\ Len(p) = 0)
  /\ \A i \in m..(Len(p) - 1) : c[SubSeq(p, 1, i)].size = 0
  /\ m # 1 => m - 1 \in 0..(Len(p) - 1) /\ c[SubSeq(p, 1, m - 1)].size # 0

LEMMA CutIs ==
  ASSUME NEW c, NEW p \in Str
  PROVE  CutAt(c, p, Cut(c, p))
<1>1. PICK n : n = Len(p)
  OBVIOUS
<1>2. n \in Nat
  BY <1>1 DEF Str
<1>3. PICK alive : alive = {i \in 0..(n - 1) : c[SubSeq(p, 1, i)].size # 0}
  OBVIOUS
<1>4. Cut(c, p) = IF alive = {} THEN 1 ELSE 1 + CHOOSE i \in alive : \A j \in alive : j <= i
  BY <1>1, <1>3 DEF Cut
<1>5. CASE alive = {}
  <2>1. Cut(c, p) = 1
    BY <1>4, <1>5
  <2>2. 1 \in 1..n \/ n = 0
    BY <1>2
  <2>3. \A i \in 1..(n - 1) : i \in 0..(n - 1)
    BY <1>2
  <2>4. \A i \in 1..(n - 1) : c[SubSeq(p, 1, i)].size = 0
    BY <1>3, <1>5, <2>3
  <2> QED BY <1>1, <2>1, <2>2, <2>4 DEF CutAt
<1>6. CASE alive # {}
  <2>1. PICK z \in alive : \A j \in alive : j <= z
    <3>1. alive \in SUBSET Nat /\ \A j \in alive : j <= n
      BY <1>2, <1>3
    <3>2. PICK back : back = {n - j : j \in alive}
      OBVIOUS
    <3>3. back \in SUBSET Nat /\ back # {}
      <4>1. \A j \in alive : n - j \in Nat
        BY <1>2, <3>1
      <4> QED BY <1>6, <3>2, <4>1
    <3>4. PICK b \in back : \A y \in back : b <= y
      BY <3>3, LeastOf
    <3>5. PICK z \in alive : b = n - z
      BY <3>2
    <3>6. \A j \in alive : j <= z
      <4> TAKE j \in alive
      <4>1. n - j \in back
        BY <3>2
      <4>2. b <= n - j /\ j \in Nat /\ z \in Nat
        BY <3>1, <3>4, <4>1
      <4> QED BY <1>2, <3>5, <4>2
    <3> QED BY <3>6
  <2>2. PICK m : m = CHOOSE i \in alive : \A j \in alive : j <= i
    OBVIOUS
  <2>3. m \in alive /\ \A j \in alive : j <= m
    BY <2>1, <2>2
  <2>4. Cut(c, p) = m + 1 /\ m \in 0..(n - 1) /\ c[SubSeq(p, 1, m)].size # 0
    <3>1. m \in 0..(n - 1) /\ c[SubSeq(p, 1, m)].size # 0
      BY <1>3, <2>3
    <3>2. Cut(c, p) = 1 + m
      BY <1>4, <1>6, <2>2
    <3> QED BY <3>1, <3>2
  <2>5. PICK k : k = m + 1
    OBVIOUS
  <2>6. k \in 1..n /\ k - 1 = m /\ \A i \in k..(n - 1) : i \in 0..(n - 1) /\ ~(i <= m)
    BY <1>2, <2>4, <2>5
  <2>7. \A i \in k..(n - 1) : c[SubSeq(p, 1, i)].size = 0
    BY <1>3, <2>3, <2>6
  <2> QED BY <1>1, <2>4, <2>5, <2>6, <2>7 DEF CutAt
<1> QED BY <1>5, <1>6

DeadBranch(c, x) ==
  {q \in DOMAIN c : ~IsPrefix(x, q)} = {<<>>} \cup {q \in Str : Beyond(Valued(c), q) # {}}

\* The branch that is cut off, and nothing else, was without a value.
LEMMA BranchIsDead ==
  ASSUME NEW t, TrieOK(t), NEW p \in Valued(t), NEW c, CountedDown(t, c, p), c[p].size = 0,
         NEW m, CutAt(c, p, m), NEW x, x = SubSeq(p, 1, m)
  PROVE  DeadBranch(c, x)
<1>1. PICK S : S = Valued(c)
  OBVIOUS
<1>2. PICK D : D = DOMAIN c
  OBVIOUS
<1>3. p \in Str /\ <<>> \in Str /\ S \in SUBSET Str /\ p \notin S /\ Valued(t) = S \cup {p} /\ IsFiniteSet(S)
  <2>1. p \in Str /\ Valued(t) \in SUBSET Str /\ IsFiniteSet(Valued(t))
    BY DEF TrieOK
  <2>2. <<>> \in Str
    BY <2>1, EmptyIsPrefix
  <2>3. S = Valued(t) \ {p}
    BY <1>1 DEF CountedDown
  <2>4. IsFiniteSet(S)
    BY <2>1, <2>3, FS_RemoveElement
  <2> QED BY <2>1, <2>2, <2>3, <2>4
<1>4. D = {<<>>} \cup {q \in Str : Beyond(S \cup {p}, q) # {}}
  BY <1>2, <1>3 DEF CountedDown, TrieOK
<1>5. \A q \in D : c[q].size = Cardinality(Beyond(S, q)) /\ q \in Str
  BY <1>1, <1>2, <1>3, <1>4 DEF CountedDown
<1>6. \A q \in D : c[q].size = 0 <=> Beyond(S, q) = {}
  <2> TAKE q \in D
  <2>1. IsFiniteSet(Beyond(S, q))
    BY <1>3, BeyondIsFinite
  <2> QED BY <1>5, <2>1, FS_EmptySet
<1>7. Len(p) \in Nat /\ p \in D /\ Beyond(S, p) = {}
  <2>1. IsPrefix(p, p)
    BY <1>3, PrefixReflexive
  <2>2. p \in D
    BY <1>3, <1>4, <2>1 DEF Beyond
  <2> QED BY <1>3, <1>6, <2>2 DEF Str
<1>8. \A i \in 0..Len(p) : SubSeq(p, 1, i) \in D
  <2> TAKE i \in 0..Len(p)
  <2>1. SubSeq(p, 1, i) \in Str /\ IsPrefix(SubSeq(p, 1, i), p)
    BY <1>3, StartOf
  <2> QED BY <1>3, <1>4, <2>1 DEF Beyond
<1>9. CASE Len(p) = 0
  <2>1. p = <<>>
    <3>1. p \in Seq(Nat)
      BY <1>3 DEF Str
    <3> QED BY <1>9, <3>1
  <2>2. S = {}
    <3>1. \A r \in S : IsPrefix(p, r)
      BY <1>3, <2>1, EmptyIsPrefix
    <3> QED BY <1>7, <3>1 DEF Beyond
  <2>3. D = {p}
    BY <1>3, <1>4, <2>1, <2>2, EmptyIsPrefix DEF Beyond
  <2>4. ~IsPrefix(x, p)
    <3>1. m = 1
      BY <1>9 DEF CutAt
    <3>2. p \in Seq(Nat) /\ x = [i \in 1..1 |-> p[i]]
      <4>1. p \in Seq(Nat)
        BY <1>3 DEF Str
      <4> QED BY <3>1, <4>1
    <3>3. Len(x) = 1
      <4>1. x \in [1..1 -> {p[1]}] /\ 1 \in Nat
        <5>1. \A i \in 1..1 : p[i] \in {p[1]}
          OBVIOUS
        <5>2. x = [i \in 1..1 |-> p[i]]
          BY <3>2
        <5> QED BY ONLY <5>1, <5>2
      <4>2. PICK n : n = 1
        OBVIOUS
      <4>3. Len(x) = n
        BY <4>1, <4>2, IsSequence
      <4> QED BY <4>2, <4>3
    <3>4. ~(Len(x) <= Len(p))
      BY ONLY <1>9, <3>3
    <3> QED BY <3>4 DEF IsPrefix
  <2>5. \A q : Beyond(S, q) = {}
    BY <2>2 DEF Beyond
  <2> QED BY <1>1, <1>2, <2>1, <2>3, <2>4, <2>5 DEF DeadBranch
<1>10. CASE Len(p) # 0
  <2>1. m \in 1..Len(p) /\ m \in 0..Len(p)
    BY <1>7, <1>10 DEF CutAt
  <2>2. x \in Str /\ Len(x) = m /\ IsPrefix(x, p) /\ x \in D
    BY <1>3, <1>8, <2>1, StartOf
  <2>3. Beyond(S, x) = {}
    <3>1. CASE m = Len(p)
      <4>1. x = p
        BY <1>3, <3>1, PrefixReflexive, PrefixIsStart
      <4> QED BY <1>7, <4>1
    <3>2. CASE m # Len(p)
      <4>1. m \in m..(Len(p) - 1)
        BY <1>7, <2>1, <3>2
      <4>2. c[x].size = 0
        BY <4>1 DEF CutAt
      <4> QED BY <1>6, <2>2, <4>2
    <3> QED BY <3>1, <3>2
  <2>4. ASSUME NEW q \in Str, Beyond(S, q) # {}
        PROVE  q \in D /\ ~IsPrefix(x, q)
    <3>1. PICK r \in S : IsPrefix(q, r)
      BY <2>4 DEF Beyond
    <3>2. q \in D
      BY <1>4, <3>1 DEF Beyond
    <3>3. IsPrefix(x, q) => IsPrefix(x, r)
      BY <1>3, <2>2, <3>1, PrefixTransitive
    <3> QED BY <2>3, <3>1, <3>2, <3>3 DEF Beyond
  <2>5. ~IsPrefix(x, <<>>)
    <3>1. PICK e : e = <<>>
      OBVIOUS
    <3>2. Len(e) = 0 /\ m \in Nat \ {0}
      BY <1>7, <2>1, <3>1
    <3>3. ~(Len(x) <= Len(e))
      BY <2>2, <3>2
    <3> QED BY <3>1, <3>3 DEF IsPrefix
  <2>6. ASSUME NEW q \in D, ~IsPrefix(x, q), q # <<>>
        PROVE  Beyond(S, q) # {}
    <3>1. q \in Str /\ Beyond(S \cup {p}, q) # {}
      BY <1>4, <2>6
    <3>2. CASE ~IsPrefix(q, p)
      BY <3>1, <3>2 DEF Beyond
    <3>3. CASE IsPrefix(q, p)
      <4>1. PICK j : j = Len(q)
        OBVIOUS
      <4>2. j \in Nat /\ j # 0
        <5>1. q \in Seq(Nat)
          BY <3>1 DEF Str
        <5> QED BY <2>6, <4>1, <5>1
      <4>3. j < m
        <5>1. SUFFICES ASSUME m <= j
                       PROVE  IsPrefix(x, q)
          BY <1>7, <2>1, <2>6, <4>2
        <5> QED BY <1>3, <2>2, <3>1, <3>3, <4>1, <5>1, PrefixesLieInOrder
      <4>4. m # 1 /\ m - 1 \in 0..Len(p) /\ j <= m - 1
        BY <1>7, <2>1, <4>2, <4>3
      <4>5. PICK y : y = SubSeq(p, 1, m - 1)
        OBVIOUS
      <4>6. y \in D /\ c[y].size # 0 /\ y \in Str /\ Len(y) = m - 1 /\ IsPrefix(y, p)
        <5>1. PICK k : k = m - 1
          OBVIOUS
        <5>2. k \in 0..Len(p) /\ y = SubSeq(p, 1, k)
          BY <4>4, <4>5, <5>1
        <5>3. y \in D /\ y \in Str /\ Len(y) = k /\ IsPrefix(y, p)
          BY <1>3, <1>8, <5>2, StartOf
        <5>4. c[y].size # 0
          BY <4>4, <4>5 DEF CutAt
        <5> QED BY <5>1, <5>3, <5>4
      <4>7. PICK r \in S : IsPrefix(y, r)
        BY <1>6, <4>6 DEF Beyond
      <4>8. IsPrefix(q, y)
        BY <1>3, <3>1, <3>3, <4>1, <4>4, <4>6, PrefixesLieInOrder
      <4>9. IsPrefix(q, r)
        BY <1>3, <3>1, <4>6, <4>7, <4>8, PrefixTransitive
      <4> QED BY <4>9 DEF Beyond
    <3> QED BY <3>2, <3>3
  <2>7. <<>> \in D
    BY <1>4
  <2> QED BY <1>1, <1>2, <1>5, <2>4, <2>5, <2>6, <2>7 DEF DeadBranch
<1> QED BY <1>9, <1>10

LEMMA PrunedIsOK ==
  ASSUME NEW t, TrieOK(t), NEW s, NEW p \in Valued(t), p = Path(s), NEW t2, t2 = Pruned(t, s)
  PROVE  WithoutValue(t, t2, p)
<1>1. PICK c : c = Counted(t, p)
  OBVIOUS
<1>2. CountedDown(t, c, p)
  BY <1>1, CountedIsDown
<1>3. PICK S : S = Valued(c)
  OBVIOUS
<1>4. p \in Str /\ p \in DOMAIN t /\ S = Valued(t) \ {p} /\ S \in SUBSET Str /\ IsFiniteSet(S)
  <2>1. IsFiniteSet(Valued(t) \ {p})
    BY FS_RemoveElement DEF TrieOK
  <2> QED BY <1>2, <1>3, <2>1 DEF CountedDown, TrieOK, Valued
<1>5. PICK x : x = SubSeq(p, 1, Cut(c, p))
  OBVIOUS
<1>6. PICK D2 : D2 = {q \in DOMAIN c : ~IsPrefix(x, q)}
  OBVIOUS
<1>7. t2 = IF c[p].size # 0 THEN c ELSE [q \in D2 |-> c[q]]
  BY <1>1, <1>4, <1>5, <1>6 DEF Pruned
<1>8. CASE c[p].size # 0
  <2>1. t2 = c
    BY <1>7, <1>8
  <2>2. PICK r \in S : IsPrefix(p, r)
    <3>1. c[p].size = Cardinality(Beyond(S, p))
      BY <1>2, <1>3, <1>4 DEF CountedDown
    <3>2. Beyond(S, p) # {}
      BY <1>8, <3>1, FS_EmptySet
    <3> QED BY <3>2 DEF Beyond
  <2>3. \A q \in Str : Beyond(Valued(t), q) # {} <=> Beyond(S, q) # {}
    <3> TAKE q \in Str
    <3>1. r \in Str
      BY <1>4
    <3>2. IsPrefix(q, p) => IsPrefix(q, r)
      BY <1>4, <2>2, <3>1, PrefixTransitive
    <3> QED BY <1>4, <3>2 DEF Beyond
  <2>4. DOMAIN t2 = {<<>>} \cup {q \in Str : Beyond(S, q) # {}}
    BY <1>2, <2>1, <2>3 DEF CountedDown, TrieOK
  <2> QED BY <1>2, <1>3, <1>4, <2>1, <2>4 DEF WithoutValue, CountedDown, TrieOK
<1>9. CASE c[p].size = 0
  <2>1. t2 = [q \in D2 |-> c[q]]
    BY <1>7, <1>9
  <2>2. DOMAIN t2 = D2 /\ \A q \in D2 : t2[q] = c[q]
    BY <2>1
  <2>3. CutAt(c, p, Cut(c, p))
    BY <1>4, CutIs
  <2>4. D2 = {<<>>} \cup {q \in Str : Beyond(S, q) # {}}
    <3>1. DeadBranch(c, x)
      BY <1>2, <1>5, <1>9, <2>3, BranchIsDead
    <3> QED BY <1>3, <1>6, <3>1 DEF DeadBranch
  <2>5. S \subseteq D2
    <3> SUFFICES ASSUME NEW q \in S
                 PROVE  q \in D2
      OBVIOUS
    <3>1. IsPrefix(q, q) /\ q \in Str
      BY <1>4, PrefixReflexive
    <3> QED BY <2>4, <3>1 DEF Beyond
  <2>6. Valued(t2) = S
    BY <1>3, <1>6, <2>2, <2>5 DEF Valued
  <2>7. D2 \subseteq DOMAIN c
    BY <1>6
  <2>8. \A q \in D2 : t2[q].size = Cardinality(Beyond(S, q))
    BY <1>2, <1>3, <2>2, <2>7 DEF CountedDown
  <2>9. \A q \in S : t2[q].value = t[q].value
    BY <1>2, <1>3, <2>2, <2>5 DEF CountedDown
  <2> QED BY <1>4, <2>2, <2>4, <2>6, <2>8, <2>9 DEF WithoutValue, TrieOK
<1> QED BY <1>8, <1>9

\* The place of a string among others.
PlaceIn(S, q) == Cardinality({r \in S : Less(r, q)})

LEMMA PlacesDiffer ==
  ASSUME NEW S \in SUBSET Str, IsFiniteSet(S)
  PROVE  /\ \A q \in S : PlaceIn(S, q) \in 0..(Cardinality(S) - 1)
         /\ \A q, r \in S : PlaceIn(S, q) = PlaceIn(S, r) => q = r
<1>1. PICK n : n = Cardinality(S)
  OBVIOUS
<1>2. n \in Nat
  BY <1>1, FS_CardinalityType
<1> DEFINE Lesser(q) == {r \in S : Less(r, q)}
<1>3. \A q \in S : IsFiniteSet(Lesser(q)) /\ Cardinality(Lesser(q)) \in 0..(n - 1)
  <2> TAKE q \in S
  <2>1. Lesser(q) \in SUBSET (S \ {q})
    BY LessIsStrict
  <2>2. IsFiniteSet(S \ {q}) /\ Cardinality(S \ {q}) = n - 1
    BY <1>1, FS_RemoveElement
  <2> HIDE DEF Lesser
  <2>3. IsFiniteSet(Lesser(q)) /\ Cardinality(Lesser(q)) <= Cardinality(S \ {q})
    BY <2>1, <2>2, FS_Subset
  <2>4. Cardinality(Lesser(q)) \in Nat
    BY <2>3, FS_CardinalityType
  <2> QED BY <1>2, <2>2, <2>3, <2>4
<1>4. ASSUME NEW q \in S, NEW r \in S, Less(q, r)
      PROVE  Cardinality(Lesser(q)) # Cardinality(Lesser(r))
  <2>1. Lesser(q) \subseteq Lesser(r)
    BY <1>4, LessIsTransitive
  <2>2. q \in Lesser(r) /\ q \notin Lesser(q)
    BY <1>4, LessIsStrict
  <2> HIDE DEF Lesser
  <2>3. Lesser(q) \in SUBSET Lesser(r) /\ Lesser(q) # Lesser(r)
    BY <2>1, <2>2
  <2> QED BY <1>3, <2>3, FS_Subset
<1>5. \A q \in S : PlaceIn(S, q) = Cardinality(Lesser(q))
  BY DEF PlaceIn
<1> HIDE DEF Lesser
<1>6. \A q, r \in S : PlaceIn(S, q) = PlaceIn(S, r) => q = r
  <2> TAKE q, r \in S
  <2>1. q = r \/ Less(q, r) \/ Less(r, q)
    BY LessIsTotal
  <2> QED BY <1>4, <1>5, <2>1
<1> QED BY <1>1, <1>3, <1>5, <1>6

LEMMA EveryPlaceIsTaken ==
  ASSUME NEW S \in SUBSET Str, IsFiniteSet(S), NEW i \in 1..Cardinality(S)
  PROVE  \E q \in S : PlaceIn(S, q) = i - 1
<1>1. PICK n : n = Cardinality(S)
  OBVIOUS
<1>2. n \in Nat
  BY <1>1, FS_CardinalityType
<1>3. PICK place : place = [q \in S |-> PlaceIn(S, q)]
  OBVIOUS
<1>4. PICK T : T = 0..(n - 1)
  OBVIOUS
<1>5. place \in [S -> T] /\ DOMAIN place = S /\ \A q \in S : place[q] = PlaceIn(S, q)
  BY <1>1, <1>3, <1>4, PlacesDiffer
<1>6. \A q, r \in S : place[q] = place[r] => q = r
  BY <1>5, PlacesDiffer
<1>7. place \in Injection(S, T)
  BY <1>5, <1>6 DEF Injection, IsInjective
<1>8. IsFiniteSet(T) /\ Cardinality(T) = n
  <2>1. PICK m : m = n - 1
    OBVIOUS
  <2>2. m \in Int /\ 0 \in Int
    BY <1>2, <2>1
  <2>3. IsFiniteSet(0..m) /\ Cardinality(0..m) = IF 0 > m THEN 0 ELSE m - 0 + 1
    BY <2>2, FS_Interval
  <2>4. (IF 0 > m THEN 0 ELSE m - 0 + 1) = n
    BY <1>2, <2>1
  <2> QED BY <1>4, <2>1, <2>3, <2>4
<1>9. place \in Surjection(S, T)
  BY <1>1, <1>7, <1>8, FS_Injection
<1>10. i - 1 \in T
  BY <1>1, <1>2, <1>4
<1>11. PICK q \in S : place[q] = i - 1
  BY <1>9, <1>10 DEF Surjection
<1> QED BY <1>5, <1>11

\* Each value is listed in one place.
Listing(t) ==
  /\ Len(Entries(t)) = Cardinality(Valued(t))
  /\ {<<e.key, e.value>> : e \in Range(Entries(t))} = {<<p, t[p].value>> : p \in Valued(t)}

LEMMA EntriesAreListed ==
  ASSUME NEW t, TrieOK(t)
  PROVE  Listing(t)
<1>1. PICK S : S = Valued(t)
  OBVIOUS
<1>2. PICK n : n = Cardinality(S)
  OBVIOUS
<1>3. S \in SUBSET Str /\ IsFiniteSet(S)
  BY <1>1 DEF TrieOK
<1>4. n \in Nat
  BY <1>2, <1>3, FS_CardinalityType
<1> DEFINE Key(i) == CHOOSE q \in S : PlaceIn(S, q) = i - 1
<1>5. \A i \in 1..n : \E q \in S : PlaceIn(S, q) = i - 1
  BY <1>2, <1>3, EveryPlaceIsTaken
<1>6. PICK all : all = Entries(t)
  OBVIOUS
<1>7. all = [i \in 1..n |-> [key |-> Key(i), value |-> t[Key(i)].value]]
  BY <1>1, <1>2, <1>6 DEF Entries, PlaceIn
<1>8. \A q \in S : PlaceIn(S, q) \in 0..(n - 1)
  BY <1>2, <1>3, PlacesDiffer
<1>9. \A q, r \in S : PlaceIn(S, q) = PlaceIn(S, r) => q = r
  BY <1>3, PlacesDiffer
<1>10. \A i \in 1..n : Key(i) \in S /\ PlaceIn(S, Key(i)) = i - 1
  BY <1>5
<1>11. \A q \in S : \E i \in 1..n : Key(i) = q
  <2> TAKE q \in S
  <2>1. PICK i : i = PlaceIn(S, q) + 1
    OBVIOUS
  <2>2. PlaceIn(S, q) \in 0..(n - 1)
    BY <1>8
  <2>3. i \in 1..n /\ i - 1 = PlaceIn(S, q)
    BY <1>4, <2>1, <2>2
  <2>4. Key(i) = q
    BY <1>9, <1>10, <2>3
  <2> QED BY <2>3, <2>4
<1> HIDE DEF Key
<1>12. Len(all) = n
  <2>1. PICK T : T = {[key |-> q, value |-> t[q].value] : q \in S}
    OBVIOUS
  <2>2. \A i \in 1..n : [key |-> Key(i), value |-> t[Key(i)].value] \in T
    BY <1>10, <2>1
  <2>3. all \in [1..n -> T]
    BY <1>7, <2>2
  <2> QED BY <1>4, <2>3, IsSequence
<1>13. DOMAIN all = 1..n /\ \A i \in 1..n : all[i].key = Key(i) /\ all[i].value = t[Key(i)].value
  BY <1>7
<1>14. ASSUME NEW e \in Range(all)
       PROVE  e.key \in S /\ e.value = t[e.key].value
  <2>1. PICK i \in 1..n : e = all[i]
    BY <1>13 DEF Range
  <2> QED BY <1>10, <1>13, <2>1
<1>15. ASSUME NEW q \in S
       PROVE  \E e \in Range(all) : e.key = q /\ e.value = t[q].value
  <2>1. PICK i \in 1..n : Key(i) = q
    BY <1>11
  <2>2. all[i] \in Range(all)
    BY <1>13 DEF Range
  <2> QED BY <1>13, <2>1, <2>2
<1>16. {<<e.key, e.value>> : e \in Range(all)} = {<<p, t[p].value>> : p \in S}
  BY <1>14, <1>15
<1> QED BY <1>1, <1>2, <1>6, <1>12, <1>16 DEF Listing

-----------------------------------------------------------------------------
(* The trie of the cache and a trie of names.                              *)

LEMMA PathIsString ==
  ASSUME NEW k \in Keys \cup PathKeys
  PROVE  Path(k) \in Str
<1>1. ctoi \in [DOMAIN ctoi -> Nat] /\ k \in Seq(DOMAIN ctoi)
  BY ContainersAssumption
<1>2. PICK n : n = Len(k)
  OBVIOUS
<1>3. n \in Nat /\ \A i \in 1..n : k[i] \in DOMAIN ctoi
  BY <1>1, <1>2
<1>4. \A i \in 1..n : ctoi[k[i]] \in Nat
  BY <1>1, <1>3
<1>5. PICK p : p = Path(k)
  OBVIOUS
<1>6. p = [i \in 1..n |-> ctoi[k[i]]]
  BY <1>2, <1>5 DEF Path
<1>7. p \in [1..n -> Nat]
  BY <1>4, <1>6
<1> QED BY <1>3, <1>5, <1>7, IsSequence DEF Str

\* The trie of the cache: a value for each cached key.
KeysAreNodes ==
  which = "cache" => /\ Valued(nodes) = {Path(k) : k \in DOMAIN trie}
                     /\ \A k \in DOMAIN trie : nodes[Path(k)].value = k

\* A trie of names: what was stored last under each path.
NamesAreNodes ==
  which = "names" => DOMAIN map = Valued(nodes) /\ \A p \in DOMAIN map : nodes[p].value = map[p]

NodesInv == RecencyInv /\ TrieOK(nodes) /\ KeysAreNodes /\ NamesAreNodes

LEMMA NodesInit ==
  ASSUME MCInit
  PROVE  NodesInv
<1>1. nodes = EmptyTrie /\ DOMAIN trie = {} /\ DOMAIN map = {}
  BY DEF MCInit, LruInit, NoMap
<1>2. TrieOK(nodes) /\ Valued(nodes) = {}
  BY <1>1, EmptyTrieIsOK
<1> QED BY <1>1, <1>2, RecencyInit DEF NodesInv, KeysAreNodes, NamesAreNodes

\* put() of a new key, after the key that makes room has gone.
LEMMA NodeIsPut ==
  ASSUME NodesInv, which = "cache", NEW k \in Keys, ~Cached(k), NEW rest, rest \subseteq DOMAIN trie,
         NEW t, TrieOK(t), Valued(t) = {Path(x) : x \in rest}, \A x \in rest : t[Path(x)].value = x,
         NEW t2, t2 = Stored(t, k, k)
  PROVE  /\ TrieOK(t2) /\ Valued(t2) = {Path(x) : x \in rest \cup {k}}
         /\ \A x \in rest \cup {k} : t2[Path(x)].value = x
<1>1. PICK p : p = Path(k)
  OBVIOUS
<1>2. p \in Str /\ k # Nil
  BY <1>1, PathIsString, ContainersAssumption
<1>3. WithValue(t, t2, p, k)
  BY <1>1, <1>2, StoredIsOK
<1>4. rest \subseteq Keys /\ k \notin rest
  BY DEF NodesInv, RecencyInv, LruInv, LruTypeOK, Cached
<1>5. \A x \in rest : Path(x) # p /\ Path(x) \in Valued(t)
  BY <1>1, <1>4, ContainersAssumption
<1> QED BY <1>1, <1>3, <1>5 DEF WithValue

\* The key at the back leaves the trie.
LEMMA NodeIsDropped ==
  ASSUME NodesInv, which = "cache", NEW k \in DOMAIN trie, NEW t2, t2 = Pruned(nodes, k)
  PROVE  /\ TrieOK(t2) /\ Valued(t2) = {Path(x) : x \in DOMAIN trie \ {k}}
         /\ \A x \in DOMAIN trie \ {k} : t2[Path(x)].value = x
<1>1. PICK p : p = Path(k)
  OBVIOUS
<1>2. TrieOK(nodes) /\ Valued(nodes) = {Path(x) : x \in DOMAIN trie} /\ \A x \in DOMAIN trie : nodes[Path(x)].value = x
  BY DEF NodesInv, KeysAreNodes
<1>3. p \in Valued(nodes)
  BY <1>1, <1>2
<1>4. WithoutValue(nodes, t2, p)
  BY <1>1, <1>2, <1>3, PrunedIsOK
<1>5. \A x \in DOMAIN trie : Path(x) = p <=> x = k
  <2>1. DOMAIN trie \subseteq Keys
    BY DEF NodesInv, RecencyInv, LruInv, LruTypeOK
  <2> QED BY <1>1, <2>1, ContainersAssumption
<1>6. Valued(t2) = {Path(x) : x \in DOMAIN trie \ {k}}
  BY <1>2, <1>4, <1>5 DEF WithoutValue
<1>7. \A x \in DOMAIN trie \ {k} : t2[Path(x)].value = x
  <2> TAKE x \in DOMAIN trie \ {k}
  <2>1. Path(x) \in Valued(t2)
    BY <1>6
  <2> QED BY <1>2, <1>4, <2>1 DEF WithoutValue
<1> QED BY <1>4, <1>6, <1>7 DEF WithoutValue

LEMMA CacheKeepsNodes ==
  ASSUME NodesInv, CacheStep
  PROVE  TrieOK(nodes') /\ KeysAreNodes'
<1>1. which = "cache" /\ which' = "cache"
  BY DEF CacheStep, Use
<1>2. TrieOK(nodes) /\ Valued(nodes) = {Path(x) : x \in DOMAIN trie} /\ \A x \in DOMAIN trie : nodes[Path(x)].value = x
  BY <1>1 DEF NodesInv, KeysAreNodes
<1>3. PICK k \in Keys : MCGet(k) \/ MCPut(k)
  BY DEF CacheStep
<1>4. CASE MCGet(k)
  <2>1. nodes' = nodes /\ trie' = trie
    BY <1>4 DEF MCGet, Touch
  <2> QED BY <1>1, <1>2, <2>1 DEF KeysAreNodes
<1>5. CASE MCPut(k)
  <2>1. PICK v \in Values, new_kv \in BOOLEAN : LruPut(k, v, new_kv)
    BY <1>5 DEF MCPut
  <2>2. CASE Cached(k)
    <3>1. nodes' = nodes /\ DOMAIN trie' = DOMAIN trie
      BY <1>5, <2>1, <2>2 DEF MCPut, LruPut, Replace, Insert
    <3> QED BY <1>1, <1>2, <3>1 DEF KeysAreNodes
  <2>3. CASE ~Cached(k)
    <3>1. Insert(k, v, new_kv)
      BY <2>1, <2>3 DEF LruPut, Replace
    <3>2. PICK rest : rest = IF Full THEN DOMAIN trie \ {Back} ELSE DOMAIN trie
      OBVIOUS
    <3>3. DOMAIN trie' = rest \cup {k} /\ rest \subseteq DOMAIN trie
      BY <3>1, <3>2 DEF Insert
    <3>4. PICK t : t = IF Dropped(k) = {} THEN nodes ELSE Pruned(nodes, Back)
      OBVIOUS
    <3>5. TrieOK(t) /\ Valued(t) = {Path(x) : x \in rest} /\ \A x \in rest : t[Path(x)].value = x
      <4>1. CASE Full
        <5>1. Back \in DOMAIN trie
          <6>1. LruInv
            BY DEF NodesInv, RecencyInv
          <6>2. Len(lrulist) = CacheSize /\ CacheSize \in Nat \ {0}
            BY <4>1, CapacityAssumption DEF Full
          <6>3. Len(lrulist) \in 1..Len(lrulist)
            BY <6>2
          <6> QED BY <6>1, <6>3 DEF Back, LruInv, ListMatchesTrie
        <5>2. t = Pruned(nodes, Back) /\ rest = DOMAIN trie \ {Back}
          BY <2>3, <3>2, <3>4, <4>1 DEF Dropped
        <5> QED BY <1>1, <5>1, <5>2, NodeIsDropped
      <4>2. CASE ~Full
        <5>1. t = nodes /\ rest = DOMAIN trie
          BY <3>2, <3>4, <4>2 DEF Dropped
        <5> QED BY <1>2, <5>1
      <4> QED BY <4>1, <4>2
    <3>6. nodes' = Stored(t, k, k)
      BY <1>5, <2>3, <3>4 DEF MCPut
    <3>7. PICK t2 : t2 = nodes'
      OBVIOUS
    <3>8. /\ TrieOK(t2) /\ Valued(t2) = {Path(x) : x \in rest \cup {k}}
          /\ \A x \in rest \cup {k} : t2[Path(x)].value = x
      BY <1>1, <2>3, <3>3, <3>5, <3>6, <3>7, NodeIsPut
    <3> QED BY <3>3, <3>7, <3>8 DEF KeysAreNodes
  <2> QED BY <2>2, <2>3
<1> QED BY <1>3, <1>4, <1>5

LEMMA NamesKeepNodes ==
  ASSUME NodesInv, NameStep
  PROVE  TrieOK(nodes') /\ NamesAreNodes'
<1>1. which = "names" /\ which' = "names"
  BY DEF NameStep, Use
<1>2. TrieOK(nodes) /\ DOMAIN map = Valued(nodes) /\ \A p \in DOMAIN map : nodes[p].value = map[p]
  BY <1>1 DEF NodesInv, NamesAreNodes
<1>3. PICK t2 : t2 = nodes'
  OBVIOUS
<1>4. CASE StoreName
  <2>1. PICK k \in PathKeys, v \in Values :
          /\ nodes' = Stored(nodes, k, v)
          /\ map' = [p \in DOMAIN map \cup {Path(k)} |-> IF p = Path(k) THEN v ELSE map[p]]
    BY <1>4 DEF StoreName
  <2>2. PICK p : p = Path(k)
    OBVIOUS
  <2>3. p \in Str /\ v # Nil
    BY <2>2, PathIsString, ContainersAssumption
  <2>4. WithValue(nodes, t2, p, v)
    BY <1>2, <1>3, <2>1, <2>2, <2>3, StoredIsOK
  <2>5. DOMAIN map' = DOMAIN map \cup {p} /\ \A q \in DOMAIN map \cup {p} : map'[q] = IF q = p THEN v ELSE map[q]
    BY <2>1, <2>2
  <2> QED BY <1>2, <1>3, <2>4, <2>5 DEF WithValue, NamesAreNodes
<1>5. CASE EraseName
  <2>1. PICK k \in PathKeys : /\ Count(nodes, k)
                              /\ nodes' = Pruned(nodes, k)
                              /\ map' = [p \in DOMAIN map \ {Path(k)} |-> map[p]]
    BY <1>5 DEF EraseName
  <2>2. PICK p : p = Path(k)
    OBVIOUS
  <2>3. p \in Valued(nodes)
    BY <2>1, <2>2 DEF Count, Query, Valued
  <2>4. WithoutValue(nodes, t2, p)
    BY <1>2, <1>3, <2>1, <2>2, <2>3, PrunedIsOK
  <2>5. DOMAIN map' = DOMAIN map \ {p} /\ \A q \in DOMAIN map \ {p} : map'[q] = map[q]
    BY <2>1, <2>2
  <2> QED BY <1>2, <1>3, <2>4, <2>5 DEF WithoutValue, NamesAreNodes
<1>6. StoreName \/ EraseName
  BY DEF NameStep
<1> QED BY <1>4, <1>5, <1>6

LEMMA NodesStep ==
  ASSUME NodesInv, [MCNext]_vars
  PROVE  NodesInv'
<1>1. RecencyInv'
  BY RecencyStep DEF NodesInv
<1>2. CASE CacheStep
  <2>1. NamesAreNodes'
    BY <1>2 DEF CacheStep, Use, NamesAreNodes
  <2> QED BY <1>1, <1>2, <2>1, CacheKeepsNodes DEF NodesInv
<1>3. CASE NameStep
  <2>1. KeysAreNodes'
    BY <1>3 DEF NameStep, Use, KeysAreNodes
  <2> QED BY <1>1, <1>3, <2>1, NamesKeepNodes DEF NodesInv
<1>4. CASE /\ UNCHANGED <<which, trie, nodes>>
           /\ which = "names" => UNCHANGED map
  BY <1>1, <1>4 DEF NodesInv, KeysAreNodes, NamesAreNodes
<1>5. CASE ListStep
  BY <1>4, <1>5 DEF ListStep, Use, idle
<1>6. CASE MakeTable
  BY <1>4, <1>6 DEF MakeTable, Use, idle
<1>7. CASE FileStep
  BY <1>4, <1>7 DEF FileStep, Use, idle
<1>8. CASE ClientStep
  BY <1>4, <1>8 DEF ClientStep, Use, idle, files
<1>9. CASE UNCHANGED vars
  BY <1>4, <1>9 DEF vars, files
<1> QED BY <1>2, <1>3, <1>5, <1>6, <1>7, <1>8, <1>9 DEF MCNext

LEMMA NodesAreAMap ==
  ASSUME NodesInv
  PROVE  TrieIsMap
<1>1. PICK S : S = Valued(nodes)
  OBVIOUS
<1>2. TrieOK(nodes) /\ S \in SUBSET Str
  BY <1>1 DEF NodesInv, TrieOK
<1>3. ASSUME which = "cache", NEW k \in Keys
      PROVE  Query(nodes, k) = IF Cached(k) THEN k ELSE Nil
  <2>1. S = {Path(x) : x \in DOMAIN trie} /\ \A x \in DOMAIN trie : nodes[Path(x)].value = x
    BY <1>1, <1>3 DEF NodesInv, KeysAreNodes
  <2>2. CASE Cached(k)
    <3>1. Path(k) \in S
      BY <2>1, <2>2 DEF Cached
    <3> QED BY <1>1, <2>1, <2>2, <3>1 DEF Query, Valued, Cached
  <2>3. CASE ~Cached(k)
    <3>1. DOMAIN trie \subseteq Keys
      BY DEF NodesInv, RecencyInv, LruInv, LruTypeOK
    <3>2. Path(k) \notin S
      BY <2>1, <2>3, <3>1, ContainersAssumption DEF Cached
    <3> QED BY <1>1, <2>3, <3>2 DEF Query, Valued
  <2> QED BY <2>2, <2>3
<1>4. DOMAIN nodes = {<<>>} \cup UNION {Prefixes(p) : p \in S}
  <2>1. \A p \in S : Prefixes(p) = {q \in Str : IsPrefix(q, p)}
    BY <1>2, PrefixesAre
  <2>2. DOMAIN nodes = {<<>>} \cup {q \in Str : Beyond(S, q) # {}}
    BY <1>1, <1>2 DEF TrieOK
  <2>3. {q \in Str : Beyond(S, q) # {}} = UNION {Prefixes(p) : p \in S}
    <3>1. ASSUME NEW q \in Str, Beyond(S, q) # {}
          PROVE  \E p \in S : q \in Prefixes(p)
      BY <2>1, <3>1 DEF Beyond
    <3>2. ASSUME NEW p \in S, NEW q \in Prefixes(p)
          PROVE  q \in Str /\ Beyond(S, q) # {}
      BY <2>1 DEF Beyond
    <3> QED BY <3>1, <3>2
  <2> QED BY <2>2, <2>3
<1>5. \A p \in DOMAIN nodes : nodes[p].size = Cardinality({q \in S : IsPrefix(p, q)})
  BY <1>1, <1>2 DEF TrieOK, Beyond
<1>6. ASSUME which = "names"
      PROVE  /\ \A k \in PathKeys : Query(nodes, k) = IF Path(k) \in DOMAIN map THEN map[Path(k)] ELSE Nil
             /\ Len(Entries(nodes)) = Size(nodes)
             /\ {<<e.key, e.value>> : e \in Range(Entries(nodes))} = {<<p, map[p]>> : p \in DOMAIN map}
  <2>1. DOMAIN map = S /\ \A p \in S : nodes[p].value = map[p]
    BY <1>1, <1>6 DEF NodesInv, NamesAreNodes
  <2>2. \A k \in PathKeys : Query(nodes, k) = IF Path(k) \in DOMAIN map THEN map[Path(k)] ELSE Nil
    BY <1>1, <2>1 DEF Query, Valued
  <2>3. Listing(nodes)
    BY <1>2, EntriesAreListed
  <2>4. Size(nodes) = Cardinality(S)
    <3>1. PICK e : e = <<>>
      OBVIOUS
    <3>2. e \in DOMAIN nodes
      BY <1>4, <3>1
    <3>3. {q \in S : IsPrefix(e, q)} = S
      BY <1>2, <3>1, EmptyIsPrefix
    <3> QED BY <1>5, <3>1, <3>2, <3>3 DEF Size
  <2>5. {<<p, nodes[p].value>> : p \in S} = {<<p, map[p]>> : p \in DOMAIN map}
    BY <2>1
  <2> QED BY <1>1, <2>2, <2>3, <2>4, <2>5 DEF Listing
<1> QED BY <1>1, <1>3, <1>4, <1>5, <1>6 DEF TrieIsMap

\* For every capacity and set of keys, and for names that may share a path, trie.h
\* finds what was stored last under each path and nothing else, whatever was
\* erased; no branch of it is without a value, the size of a node is the number
\* of values under it, and getKV() lists each of them once.
THEOREM TrieAnswersLikeAMap == MCSpec => []TrieIsMap
<1>1. MCInit => NodesInv
  BY NodesInit
<1>2. NodesInv /\ [MCNext]_vars => NodesInv'
  BY NodesStep
<1>3. NodesInv => TrieIsMap
  BY NodesAreAMap
<1> QED BY <1>1, <1>2, <1>3, PTL DEF MCSpec

-----------------------------------------------------------------------------
(* What WAL_manifest.log does to its reader.                              *)

\* The word of the code, and as many rows as a log it can address holds.
CodeWords == ByteSize = 256 /\ FixedLen = 4 /\ MaxRows \in Nat /\ 100 * MaxRows < 256 * 256 * 256

LEMMA ByteAsWord ==
  ASSUME CodeWords, NEW v \in 0..255, NEW d, d = SetFixed(v)
  PROVE  d \in Seq(Nat) /\ Len(d) = 4 /\ d[1] = v /\ d[2] = 0 /\ d[3] = 0 /\ d[4] = 0
<1>1. PICK base : base = 256
  OBVIOUS
<1>2. PICK n : n = 4
  OBVIOUS
<1>3. ByteSize = base /\ FixedLen = n /\ base \in Nat \ {0} /\ n \in Nat \ {0} /\ v \in Nat
  BY <1>1, <1>2 DEF CodeWords
<1>4. d \in Seq(Nat) /\ Len(d) = n
  BY <1>3, FixedIsWord
<1>5. PICK left : left = Shifted(v, base, n)
  OBVIOUS
<1>6. Shifts(left, v, base, n)
  BY <1>3, <1>5, ShiftedShifts
<1>7. left[1] = v /\ left[2] = v \div 256 /\ left[3] = left[2] \div 256 /\ left[4] = left[3] \div 256
  <2>1. 2 \in 2..n /\ 3 \in 2..n /\ 4 \in 2..n /\ 2 - 1 = 1 /\ 3 - 1 = 2 /\ 4 - 1 = 3
    BY <1>2
  <2>2. \A i \in 2..n : left[i] = left[i - 1] \div 256
    BY <1>1, <1>6 DEF Shifts
  <2>3. left[2] = left[2 - 1] \div 256 /\ left[3] = left[3 - 1] \div 256 /\ left[4] = left[4 - 1] \div 256
    BY <2>1, <2>2
  <2> QED BY <1>6, <2>1, <2>3 DEF Shifts
<1>8. left[2] = 0 /\ left[3] = 0 /\ left[4] = 0
  <2>1. v \div 256 = 0 /\ 0 \div 256 = 0
    OBVIOUS
  <2> QED BY <1>7, <2>1
<1>9. d = [i \in 1..n |-> left[i] % 256]
  BY <1>1, <1>3, <1>5 DEF SetFixed
<1>10. 1 \in 1..n /\ 2 \in 1..n /\ 3 \in 1..n /\ 4 \in 1..n
  BY <1>2
<1>11. d[1] = v % 256 /\ d[2] = 0 % 256 /\ d[3] = 0 % 256 /\ d[4] = 0 % 256
  BY <1>7, <1>8, <1>9, <1>10
<1>12. v % 256 = v /\ 0 % 256 = 0
  OBVIOUS
<1> QED BY <1>2, <1>4, <1>11, <1>12

\* Four bytes, and the word they are.
FourBytes(s, at) ==
  /\ at + 3 <= Len(s)
  /\ s[at] \in 0..255 /\ s[at + 1] \in 0..255 /\ s[at + 2] \in 0..255 /\ s[at + 3] \in 0..255

IsWord(s, at) ==
  /\ HasFixed(s, at)
  /\ GetFixed(s, at) = s[at] + 256 * (s[at + 1] + 256 * (s[at + 2] + 256 * s[at + 3]))

LEMMA WordOfBytes ==
  ASSUME CodeWords, NEW s \in Seq(Nat), NEW at \in Nat \ {0}, FourBytes(s, at)
  PROVE  IsWord(s, at)
<1>0. at + 3 <= Len(s)
      /\ s[at] \in 0..255 /\ s[at + 1] \in 0..255 /\ s[at + 2] \in 0..255 /\ s[at + 3] \in 0..255
  BY DEF FourBytes
<1>1. PICK base : base = 256
  OBVIOUS
<1>2. PICK n : n = 4
  OBVIOUS
<1>3. ByteSize = base /\ FixedLen = n /\ base \in Nat \ {0} /\ n \in Nat /\ Len(s) \in Nat
  BY <1>1, <1>2 DEF CodeWords
<1>4. at + n - 1 <= Len(s)
  BY <1>0, <1>2, <1>3
<1>5. PICK from : Sums(from, s, at, n, base) /\ Summed(s, at, n, base) = from[1]
  BY <1>3, <1>4, SummedSums
<1>6. \A i \in 1..n : from[i] = (s[at + i - 1] % 256) + 256 * from[i + 1]
  BY <1>1, <1>5 DEF Sums
<1>7. from[5] = 0
  <2>1. n + 1 = 5
    BY <1>2
  <2> QED BY <1>5, <2>1 DEF Sums
<1>8. PICK a : a = s[at]
  OBVIOUS
<1>9. PICK b : b = s[at + 1]
  OBVIOUS
<1>10. PICK c : c = s[at + 2]
  OBVIOUS
<1>11. PICK e : e = s[at + 3]
  OBVIOUS
<1>12. a \in 0..255 /\ b \in 0..255 /\ c \in 0..255 /\ e \in 0..255
  BY <1>0, <1>8, <1>9, <1>10, <1>11
<1>13. from[1] = (a % 256) + 256 * from[2] /\ from[2] = (b % 256) + 256 * from[3]
       /\ from[3] = (c % 256) + 256 * from[4] /\ from[4] = (e % 256) + 256 * from[5]
  <2>1. 1 \in 1..n /\ 2 \in 1..n /\ 3 \in 1..n /\ 4 \in 1..n
    BY <1>2
  <2>2. at + 1 - 1 = at /\ at + 2 - 1 = at + 1 /\ at + 3 - 1 = at + 2 /\ at + 4 - 1 = at + 3
        /\ 1 + 1 = 2 /\ 2 + 1 = 3 /\ 3 + 1 = 4 /\ 4 + 1 = 5
    OBVIOUS
  <2>3. /\ from[1] = (s[at + 1 - 1] % 256) + 256 * from[1 + 1]
        /\ from[2] = (s[at + 2 - 1] % 256) + 256 * from[2 + 1]
        /\ from[3] = (s[at + 3 - 1] % 256) + 256 * from[3 + 1]
        /\ from[4] = (s[at + 4 - 1] % 256) + 256 * from[4 + 1]
    BY <1>6, <2>1
  <2>4. s[at + 1 - 1] = a /\ s[at + 2 - 1] = b /\ s[at + 3 - 1] = c /\ s[at + 4 - 1] = e
    BY <1>8, <1>9, <1>10, <1>11, <2>2
  <2>5. from[1 + 1] = from[2] /\ from[2 + 1] = from[3] /\ from[3 + 1] = from[4] /\ from[4 + 1] = from[5]
    BY <2>2
  <2>6. from[1] = (a % 256) + 256 * from[2]
    BY <2>3, <2>4, <2>5, Zenon
  <2>7. from[2] = (b % 256) + 256 * from[3]
    BY <2>3, <2>4, <2>5, Zenon
  <2>8. from[3] = (c % 256) + 256 * from[4]
    BY <2>3, <2>4, <2>5, Zenon
  <2>9. from[4] = (e % 256) + 256 * from[5]
    BY <2>3, <2>4, <2>5, Zenon
  <2> QED BY <2>6, <2>7, <2>8, <2>9
<1>14. a % 256 = a /\ b % 256 = b /\ c % 256 = c /\ e % 256 = e
  BY ONLY <1>12
<1>15. from[4] = e /\ from[3] = c + 256 * e
  BY ONLY <1>7, <1>12, <1>13, <1>14
<1>16. from[2] = b + 256 * (c + 256 * e) /\ from[1] = a + 256 * (b + 256 * (c + 256 * e))
  <2>1. from[2] = b + 256 * from[3]
    BY <1>13, <1>14
  <2>2. from[2] = b + 256 * (c + 256 * e)
    BY <1>15, <2>1
  <2>3. from[1] = a + 256 * from[2]
    BY <1>13, <1>14
  <2> QED BY <2>2, <2>3
<1>18. GetFixed(s, at) = from[1]
  BY <1>3, <1>5 DEF GetFixed
<1> QED BY <1>3, <1>4, <1>8, <1>9, <1>10, <1>11, <1>16, <1>18 DEF HasFixed, IsWord

-----------------------------------------------------------------------------

EventAt(s, at)    == [ope |-> s[at], text |-> TextAt(s, at + 1)]
HasEvent(s, at)   == HasText(s, at + 1)
AfterEvent(s, at) == AfterText(s, at + 1)

Scanned(s, V, f) ==
  /\ f \in [1..(Len(s) + 1) -> Seq(V)]
  /\ \A at \in 1..(Len(s) + 1) :
       f[at] = IF at > Len(s) THEN <<>>
               ELSE IF ~HasEvent(s, at) THEN <<Aborted>>
               ELSE <<EventAt(s, at)>> \o f[AfterEvent(s, at)]
  /\ Events(s) = f[1]

LEMMA EventsScan ==
  ASSUME NEW s \in Seq(Nat)
  PROVE  \E V, f : Scanned(s, V, f)
<1>1. PICK n : n = Len(s)
  OBVIOUS
<1>2. n \in Nat
  BY <1>1
<1>3. PICK on : on = {at \in 1..n : HasEvent(s, at)}
  OBVIOUS
<1>4. PICK V : V = {Aborted} \cup {EventAt(s, at) : at \in on}
  OBVIOUS
<1>5. PICK next : next = [at \in on |-> AfterEvent(s, at)]
  OBVIOUS
<1>6. PICK end : end = [at \in 1..(n + 1) |-> IF at > n THEN <<>> ELSE <<Aborted>>]
  OBVIOUS
<1>7. PICK step : step = [at \in on |-> [x \in Seq(V) |-> <<EventAt(s, at)>> \o x]]
  OBVIOUS
<1>9. next \in [on -> 1..(n + 1)] /\ \A at \in on : at < next[at]
  <2>1. \A at \in on : next[at] \in 1..(n + 1) /\ at < next[at]
    <3> TAKE at \in on
    <3>1. at \in 1..n /\ HasText(s, at + 1)
      BY <1>3 DEF HasEvent
    <3>2. PICK a : a = at + 1
      OBVIOUS
    <3>3. a \in Nat \ {0} /\ HasText(s, a)
      BY <1>2, <3>1, <3>2
    <3>4. AfterText(s, a) \in (a + 1)..(n + 1)
      BY <1>1, <3>3, AfterTextIsLater
    <3>5. next[at] = AfterText(s, a)
      BY <1>5, <3>2 DEF AfterEvent
    <3> QED BY <1>2, <3>1, <3>2, <3>4, <3>5
  <2> QED BY <1>5, <2>1
<1>10. on \in SUBSET (1..(n + 1)) /\ n + 1 \in Nat
  BY <1>2, <1>3
<1>11. end \in [1..(n + 1) -> Seq(V)]
  <2>1. <<>> \in Seq(V) /\ <<Aborted>> \in Seq(V)
    BY <1>4
  <2> QED BY <1>6, <2>1
<1>12. step \in [on -> [Seq(V) -> Seq(V)]]
  <2>1. ASSUME NEW at \in on, NEW x \in Seq(V)
        PROVE  <<EventAt(s, at)>> \o x \in Seq(V)
    <3>1. <<EventAt(s, at)>> \in Seq(V)
      BY <1>4
    <3> QED BY <3>1, Joins
  <2>2. \A at \in on : [x \in Seq(V) |-> <<EventAt(s, at)>> \o x] \in [Seq(V) -> Seq(V)]
    BY <2>1
  <2> QED BY <1>7, <2>2
<1>13. PICK f : Runs(f, n + 1, Seq(V), on, next, end, step)
  BY <1>9, <1>10, <1>11, <1>12, RecursionAhead
<1> DEFINE Body(g) == [at \in 1..(n + 1) |-> IF at > n THEN <<>>
                         ELSE IF ~HasEvent(s, at) THEN <<Aborted>>
                         ELSE <<EventAt(s, at)>> \o g[AfterEvent(s, at)]]
<1>14. ASSUME NEW at \in 1..(n + 1)
       PROVE  f[at] = Body(f)[at]
  <2>1. CASE at \in on
    <3>1. at \in 1..n /\ HasEvent(s, at)
      BY <1>3, <2>1
    <3>2. f[at] = step[at][f[next[at]]] /\ f[next[at]] \in Seq(V)
      BY <1>9, <1>13, <2>1 DEF Runs
    <3>3. step[at] = [x \in Seq(V) |-> <<EventAt(s, at)>> \o x] /\ next[at] = AfterEvent(s, at)
      BY <1>5, <1>7, <2>1
    <3>4. f[at] = <<EventAt(s, at)>> \o f[AfterEvent(s, at)]
      BY <3>2, <3>3
    <3>5. ~(at > n)
      BY <1>2, <3>1
    <3> QED BY <3>1, <3>4, <3>5
  <2>2. CASE at \notin on
    <3>1. f[at] = end[at]
      BY <1>13, <2>2 DEF Runs
    <3>2. at > n \/ ~HasEvent(s, at)
      BY <1>2, <1>3, <2>2
    <3> QED BY <1>6, <3>1, <3>2
  <2> QED BY <2>1, <2>2
<1>15. f \in [1..(n + 1) -> Seq(V)]
  BY <1>13 DEF Runs
<1>16. f = Body(f)
  <2>1. f = [at \in 1..(n + 1) |-> f[at]]
    BY <1>15
  <2>2. \A g : Body(g) = [at \in 1..(n + 1) |-> Body(g)[at]]
    OBVIOUS
  <2> HIDE DEF Body
  <2>3. [at \in 1..(n + 1) |-> f[at]] = [at \in 1..(n + 1) |-> Body(f)[at]]
    BY <1>14
  <2> QED BY <2>1, <2>2, <2>3
<1>17. \A g : Body(g) = [at \in 1..(n + 1) |-> IF at > n THEN <<>>
                           ELSE IF ~HasText(s, at + 1) THEN <<Aborted>>
                           ELSE <<[ope |-> s[at], text |-> TextAt(s, at + 1)]>> \o g[AfterText(s, at + 1)]]
  BY DEF HasEvent, AfterEvent, EventAt
<1>18. PICK g : g = Body(g) /\ Events(s) = g[1]
  <2> HIDE DEF Body
  <2> QED BY <1>1, <1>16, <1>17 DEF Events
<1>19. \A at \in 1..(n + 1) : g[at] = Body(g)[at]
  <2> HIDE DEF Body
  <2> QED BY <1>18
<1>20. \A at \in 1..(n + 1) : g[at] = IF at > n THEN <<>>
                                ELSE IF ~HasEvent(s, at) THEN <<Aborted>>
                                ELSE <<EventAt(s, at)>> \o g[AfterEvent(s, at)]
  BY <1>19
<1>21. \A at \in 1..(n + 1) : g[at] \in Seq(V)
  <2> DEFINE Bad == {m \in 0..n : g[n + 1 - m] \notin Seq(V)}
  <2>1. ASSUME Bad # {} PROVE FALSE
    <3>1. PICK m \in Bad : \A y \in Bad : m <= y
      <4>1. Bad \in SUBSET Nat
        OBVIOUS
      <4> HIDE DEF Bad
      <4> QED BY <2>1, <4>1, LeastOf
    <3>2. PICK at : at = n + 1 - m
      OBVIOUS
    <3>3. m \in 0..n /\ at \in 1..(n + 1) /\ g[at] \notin Seq(V)
      BY <1>2, <3>1, <3>2
    <3>4. <<>> \in Seq(V) /\ <<Aborted>> \in Seq(V)
      BY <1>4
    <3>5. ~(at > n) /\ HasEvent(s, at)
      BY <1>20, <3>3, <3>4
    <3>6. at \in on
      BY <1>2, <1>3, <3>3, <3>5
    <3>7. PICK b : b = AfterEvent(s, at)
      OBVIOUS
    <3>8. b \in 1..(n + 1) /\ at < b
      BY <1>5, <1>9, <3>6, <3>7
    <3>9. n + 1 - b \in 0..n /\ n + 1 - b < m /\ n + 1 - (n + 1 - b) = b
      BY <1>2, <3>2, <3>3, <3>8
    <3>10. g[b] \in Seq(V)
      <4>1. n + 1 - b \notin Bad
        <5> HIDE DEF Bad
        <5> QED BY <1>2, <3>1, <3>3, <3>8, <3>9
      <4> QED BY <3>9, <4>1
    <3>11. <<EventAt(s, at)>> \in Seq(V)
      BY <1>4, <3>6
    <3>12. <<EventAt(s, at)>> \o g[b] \in Seq(V)
      BY <3>10, <3>11, Joins
    <3>13. g[at] = <<EventAt(s, at)>> \o g[b]
      BY <1>20, <3>3, <3>5, <3>7
    <3> QED BY <3>3, <3>12, <3>13
  <2>2. ASSUME NEW at \in 1..(n + 1) PROVE g[at] \in Seq(V)
    <3>1. n + 1 - at \in 0..n /\ n + 1 - (n + 1 - at) = at
      BY <1>2
    <3>2. n + 1 - at \notin Bad
      <4> HIDE DEF Bad
      <4> QED BY <2>1
    <3> QED BY <3>1, <3>2
  <2> QED BY <2>2
<1> QED BY <1>1, <1>18, <1>20, <1>21 DEF Scanned

\* The reader cannot digest what it finds at a place.
AbortsAt(s, at) ==
  /\ at \in 1..Len(s)
  /\ ~HasEvent(s, at) \/ Indigestible(EventAt(s, at))

LEMMA AbortsFirstOrSecond ==
  ASSUME NEW s \in Seq(Nat), Len(s) > 0,
         AbortsAt(s, 1) \/ (HasEvent(s, 1) /\ AbortsAt(s, AfterEvent(s, 1)))
  PROVE  ReplayAborts(s)
<1>1. PICK V, f : Scanned(s, V, f)
  BY EventsScan
<1>2. PICK n : n = Len(s)
  OBVIOUS
<1>3. n \in Nat /\ n > 0 /\ \A at \in 1..(n + 1) : f[at] \in Seq(V)
  BY <1>1, <1>2 DEF Scanned
<1>4. \A at \in 1..n : f[at] = IF ~HasEvent(s, at) THEN <<Aborted>>
                               ELSE <<EventAt(s, at)>> \o f[AfterEvent(s, at)]
  <2>1. \A at \in 1..n : at \in 1..(n + 1) /\ ~(at > n)
    BY <1>3
  <2> QED BY <1>1, <1>2, <2>1 DEF Scanned
<1>5. ASSUME NEW at \in 1..n, HasEvent(s, at)
      PROVE  AfterEvent(s, at) \in 1..(n + 1)
  <2>1. PICK a : a = at + 1
    OBVIOUS
  <2>2. a \in Nat \ {0} /\ HasText(s, a)
    BY <1>3, <1>5, <2>1 DEF HasEvent
  <2>3. AfterText(s, a) \in (a + 1)..(n + 1)
    BY <1>2, <2>2, AfterTextIsLater
  <2> QED BY <1>3, <2>1, <2>2, <2>3 DEF AfterEvent
<1>6. ASSUME NEW at \in 1..n, AbortsAt(s, at)
      PROVE  Len(f[at]) > 0 /\ Indigestible(f[at][1])
  <2>1. CASE ~HasEvent(s, at)
    <3>1. f[at] = <<Aborted>>
      BY <1>4, <2>1
    <3>2. Indigestible(Aborted)
      BY DEF Indigestible
    <3> QED BY <3>1, <3>2
  <2>2. CASE HasEvent(s, at)
    <3>1. Indigestible(EventAt(s, at))
      BY <1>6, <2>2 DEF AbortsAt
    <3>2. PICK rest : rest = f[AfterEvent(s, at)]
      OBVIOUS
    <3>3. rest \in Seq(V)
      BY <1>3, <1>5, <2>2, <3>2
    <3>4. f[at] = <<EventAt(s, at)>> \o rest
      BY <1>4, <2>2, <3>2
    <3>5. PICK e : e = EventAt(s, at)
      OBVIOUS
    <3>6. Len(<<e>> \o rest) > 0 /\ (<<e>> \o rest)[1] = e
      BY <3>3
    <3> QED BY <3>1, <3>4, <3>5, <3>6
  <2> QED BY <2>1, <2>2
<1>7. Events(s) = f[1] /\ 1 \in 1..n /\ f[1] \in Seq(V)
  BY <1>1, <1>3 DEF Scanned
<1>8. CASE AbortsAt(s, 1)
  <2>1. Len(f[1]) > 0 /\ Indigestible(f[1][1])
    BY <1>6, <1>7, <1>8
  <2>2. 1 \in DOMAIN f[1]
    BY <1>7, <2>1
  <2> QED BY <1>7, <2>1, <2>2 DEF ReplayAborts
<1>9. CASE HasEvent(s, 1) /\ AbortsAt(s, AfterEvent(s, 1))
  <2>1. PICK b : b = AfterEvent(s, 1)
    OBVIOUS
  <2>2. b \in 1..n /\ AbortsAt(s, b)
    BY <1>2, <1>9, <2>1 DEF AbortsAt
  <2>3. Len(f[b]) > 0 /\ Indigestible(f[b][1])
    BY <1>6, <2>2
  <2>4. f[b] \in Seq(V)
    BY <1>3, <2>2
  <2>5. f[1] = <<EventAt(s, 1)>> \o f[b]
    BY <1>4, <1>7, <1>9, <2>1
  <2>6. PICK e : e = EventAt(s, 1)
    OBVIOUS
  <2>7. PICK rest : rest = f[b]
    OBVIOUS
  <2>8. 2 \in DOMAIN (<<e>> \o rest) /\ (<<e>> \o rest)[2] = rest[1]
    BY <2>3, <2>4, <2>7
  <2> QED BY <1>7, <2>3, <2>5, <2>6, <2>7, <2>8 DEF ReplayAborts
<1> QED BY <1>8, <1>9

LEMMA EmptyReplays == ~ReplayAborts(<<>>)
<1>1. PICK s : s = <<>>
  OBVIOUS
<1>2. s \in Seq(Nat) /\ Len(s) = 0
  BY <1>1
<1>3. PICK V, f : Scanned(s, V, f)
  BY <1>2, EventsScan
<1>4. Events(s) = <<>>
  <2>1. 1 \in 1..(Len(s) + 1) /\ 1 > Len(s)
    BY <1>2
  <2> QED BY <1>3, <2>1 DEF Scanned
<1> QED BY <1>1, <1>4 DEF ReplayAborts

\* A log that begins with the row of a turn, and goes on with the row that lists
\* a table of level 0, the name of which has nine bytes.
TurnFirst(s) == Len(s) >= 5 /\ s[1] = 2 /\ s[2] \in 1..5 /\ s[3] = 0 /\ s[4] = 0 /\ s[5] = 0

TableSecond(s) ==
  /\ Len(s) >= 18
  /\ s[6] = 0 /\ s[7] \in 0..255 /\ s[15] = 9
  /\ \A i \in 8..14 : s[i] = 0
  /\ \A i \in 16..18 : s[i] = 0

Begun(s) == TurnFirst(s) /\ (Len(s) = 5 \/ TableSecond(s)) /\ Len(s) < 256 * 256 * 256

LEMMA BegunAborts ==
  ASSUME CodeWords, NEW s \in Seq(Nat), Begun(s)
  PROVE  ReplayAborts(s)
<1>1. PICK n : n = Len(s)
  OBVIOUS
<1>2. PICK id : id = s[2]
  OBVIOUS
<1>3. n \in Nat /\ n >= 5 /\ id \in 1..5 /\ s[1] = 2 /\ s[3] = 0 /\ s[4] = 0 /\ s[5] = 0
      /\ n < 256 * 256 * 256
  BY <1>1, <1>2 DEF Begun, TurnFirst
<1>4. PICK m : m = FixedLen
  OBVIOUS
<1>5. m = 4
  BY <1>4 DEF CodeWords
<1>6. GetFixed(s, 2) = id /\ HasFixed(s, 2)
  <2>1. PICK at : at = 2
    OBVIOUS
  <2>2. at \in Nat \ {0} /\ at + 3 <= Len(s) /\ at + 1 = 3 /\ at + 2 = 4 /\ at + 3 = 5
    BY <1>1, <1>3, <2>1
  <2>3. s[at] \in 0..255 /\ s[at + 1] \in 0..255 /\ s[at + 2] \in 0..255 /\ s[at + 3] \in 0..255
    BY <1>2, <1>3, <2>1, <2>2
  <2>4. /\ HasFixed(s, at)
        /\ GetFixed(s, at) = s[at] + 256 * (s[at + 1] + 256 * (s[at + 2] + 256 * s[at + 3]))
    <3>1. FourBytes(s, at)
      BY <2>2, <2>3 DEF FourBytes
    <3>2. IsWord(s, at)
      BY <2>2, <3>1, WordOfBytes
    <3> QED BY <3>2 DEF IsWord
  <2>5. GetFixed(s, at) = id + 256 * (0 + 256 * (0 + 256 * 0))
    BY <1>2, <1>3, <2>1, <2>2, <2>4
  <2> QED BY <1>3, <2>1, <2>4, <2>5
<1>7. HasText(s, 2) <=> 5 + id <= n
  <2>1. HasText(s, 2) <=> 2 + m - 1 + id <= n
    BY <1>1, <1>4, <1>6 DEF HasText
  <2>2. 2 + m - 1 + id = 5 + id
    BY <1>3, <1>5
  <2> QED BY <2>1, <2>2
<1>8. Len(s) > 0 /\ 1 \in 1..n
  BY <1>1, <1>3
<1>9. HasEvent(s, 1) <=> HasText(s, 2)
  <2>1. 1 + 1 = 2
    OBVIOUS
  <2> QED BY <2>1 DEF HasEvent
<1>10. CASE n = 5
  <2>1. ~(5 + id <= n)
    BY <1>3, <1>10
  <2>2. AbortsAt(s, 1)
    BY <1>1, <1>7, <1>8, <1>9, <2>1 DEF AbortsAt
  <2>3. AbortsAt(s, 1) \/ (HasEvent(s, 1) /\ AbortsAt(s, AfterEvent(s, 1)))
    BY <2>2
  <2> QED BY <1>8, <2>3, AbortsFirstOrSecond
<1>11. CASE TableSecond(s)
  <2>1. n >= 18 /\ s[6] = 0 /\ s[7] \in 0..255 /\ s[15] = 9
        /\ (\A i \in 8..14 : s[i] = 0) /\ (\A i \in 16..18 : s[i] = 0)
    BY <1>1, <1>11 DEF TableSecond
  <2>2. HasEvent(s, 1)
    <3>1. 5 + id <= n
      BY <1>3, <2>1
    <3> QED BY <1>7, <1>9, <3>1
  <2>3. PICK text : text = TextAt(s, 2)
    OBVIOUS
  <2>4. Len(text) = id
    <3>1. text = SubSeq(s, 2 + m, 2 + m - 1 + id)
      BY <1>4, <1>6, <2>3 DEF TextAt
    <3>2. 2 + m = 6 /\ 2 + m - 1 + id = 5 + id
      BY <1>3, <1>5
    <3>3. PICK b : b = 5 + id
      OBVIOUS
    <3>4. b \in Nat /\ b <= n /\ b - 6 + 1 = id /\ b >= 6
      <4>1. id \in 1..5 /\ n \in Nat /\ n >= 18
        BY <1>3, <2>1
      <4> QED BY ONLY <3>3, <4>1
    <3>5. PICK a : a = 6
      OBVIOUS
    <3>6. a \in Nat /\ a >= 1 /\ b - a + 1 = id /\ b >= a
      BY <3>4, <3>5
    <3>7. Len(SubSeq(s, a, b)) = b - a + 1
      BY <1>1, <3>4, <3>6
    <3> QED BY <3>1, <3>2, <3>3, <3>5, <3>6, <3>7
  <2>5. PICK e : e = EventAt(s, 1)
    OBVIOUS
  <2>6. e.ope = 2 /\ e.text = text
    <3>1. 1 + 1 = 2
      OBVIOUS
    <3> QED BY <1>3, <2>3, <2>5, <3>1 DEF EventAt
  <2>7. AfterEvent(s, 1) = 6 + id
    <3>1. AfterEvent(s, 1) = AfterText(s, 1 + 1)
      BY DEF AfterEvent
    <3>2. 1 + 1 = 2
      OBVIOUS
    <3>3. AfterText(s, 2) = 2 + m + id
      BY <1>4, <1>6 DEF AfterText
    <3>4. 2 + m + id = 6 + id
      BY <1>3, <1>5
    <3> QED BY <3>1, <3>2, <3>3, <3>4
  <2>8. CASE id \in 1..3
    <3>1. ~HasFixed(text, 1)
      <4>1. ~(1 + m - 1 <= Len(text))
        BY <1>5, <2>4, <2>8
      <4> QED BY <1>4, <4>1 DEF HasFixed
    <3>2. Indigestible(e)
      <4>1. e.ope \notin {0, 1}
        BY <2>6
      <4> QED BY <2>6, <3>1, <4>1 DEF Indigestible
    <3>3. AbortsAt(s, 1)
      BY <1>1, <1>8, <2>5, <3>2 DEF AbortsAt
    <3>4. AbortsAt(s, 1) \/ (HasEvent(s, 1) /\ AbortsAt(s, AfterEvent(s, 1)))
      BY <3>3
    <3> QED BY <1>8, <3>4, AbortsFirstOrSecond
  <2>9. CASE id = 4
    <3>1. PICK at : at = 10
      OBVIOUS
    <3>2. AfterEvent(s, 1) = at
      BY <2>7, <2>9, <3>1
    <3>3. PICK a : a = at + 1
      OBVIOUS
    <3>4. a \in Nat \ {0} /\ a + 3 <= Len(s) /\ a = 11 /\ a + 1 = 12 /\ a + 2 = 13 /\ a + 3 = 14
      BY <1>1, <2>1, <3>1, <3>3
    <3>5. s[a] = 0 /\ s[a + 1] = 0 /\ s[a + 2] = 0 /\ s[a + 3] = 0 /\ s[at] = 0
      BY <2>1, <3>1, <3>4
    <3>6. GetFixed(s, a) = 0
      <4>1. s[a] \in 0..255 /\ s[a + 1] \in 0..255 /\ s[a + 2] \in 0..255 /\ s[a + 3] \in 0..255
        BY <3>5
      <4>2. /\ HasFixed(s, a)
            /\ GetFixed(s, a) = s[a] + 256 * (s[a + 1] + 256 * (s[a + 2] + 256 * s[a + 3]))
        <5>1. FourBytes(s, a)
          BY <3>4, <4>1 DEF FourBytes
        <5>2. IsWord(s, a)
          BY <3>4, <5>1, WordOfBytes
        <5> QED BY <5>2 DEF IsWord
      <4>3. GetFixed(s, a) = 0 + 256 * (0 + 256 * (0 + 256 * 0))
        BY <3>5, <4>2
      <4> QED BY <4>3
    <3>7. PICK none : none = TextAt(s, a)
      OBVIOUS
    <3>8. Len(none) = 0
      <4>1. none = SubSeq(s, a + m, a + m - 1 + 0)
        BY <1>4, <3>6, <3>7 DEF TextAt
      <4>2. PICK x : x = a + m
        OBVIOUS
      <4>3. PICK y : y = a + m - 1 + 0
        OBVIOUS
      <4>4. x \in Nat /\ y \in Nat /\ x >= 1 /\ y < x
        BY <1>5, <3>4, <4>2, <4>3
      <4>5. SubSeq(s, x, y) = <<>>
        BY <4>4
      <4> QED BY <4>1, <4>2, <4>3, <4>5
    <3>9. ~HasRecord(none, 1)
      <4>1. ~(1 + m - 1 <= Len(none))
        BY <1>5, <3>8
      <4> QED BY <1>4, <4>1 DEF HasRecord, HasFixed
    <3>10. PICK second : second = EventAt(s, at)
      OBVIOUS
    <3>11. second.ope = 0 /\ second.text = none
      BY <3>3, <3>5, <3>7, <3>10 DEF EventAt
    <3>12. Indigestible(second)
      BY <3>9, <3>11 DEF Indigestible
    <3>13. AbortsAt(s, at)
      <4>1. at \in 1..Len(s)
        BY <1>1, <2>1, <3>1
      <4> QED BY <3>10, <3>12, <4>1 DEF AbortsAt
    <3> QED BY <1>8, <2>2, <3>2, <3>13, AbortsFirstOrSecond
  <2>10. CASE id = 5
    <3>1. PICK at : at = 11
      OBVIOUS
    <3>2. AfterEvent(s, 1) = at
      BY <2>7, <2>10, <3>1
    <3>3. PICK a : a = at + 1
      OBVIOUS
    <3>4. a \in Nat \ {0} /\ a + 3 <= Len(s) /\ a = 12 /\ a + 1 = 13 /\ a + 2 = 14 /\ a + 3 = 15
      BY <1>1, <2>1, <3>1, <3>3
    <3>5. s[a] = 0 /\ s[a + 1] = 0 /\ s[a + 2] = 0 /\ s[a + 3] = 9
      BY <2>1, <3>4
    <3>6. GetFixed(s, a) > n
      <4>1. s[a] \in 0..255 /\ s[a + 1] \in 0..255 /\ s[a + 2] \in 0..255 /\ s[a + 3] \in 0..255
        BY <3>5
      <4>2. /\ HasFixed(s, a)
            /\ GetFixed(s, a) = s[a] + 256 * (s[a + 1] + 256 * (s[a + 2] + 256 * s[a + 3]))
        <5>1. FourBytes(s, a)
          BY <3>4, <4>1 DEF FourBytes
        <5>2. IsWord(s, a)
          BY <3>4, <5>1, WordOfBytes
        <5> QED BY <5>2 DEF IsWord
      <4>3. GetFixed(s, a) = 0 + 256 * (0 + 256 * (0 + 256 * 9))
        BY <3>5, <4>2
      <4>4. PICK g : g = GetFixed(s, a)
        OBVIOUS
      <4>5. g = 0 + 256 * (0 + 256 * (0 + 256 * 9))
        BY <4>3, <4>4
      <4>6. g > n
        BY <1>3, <4>5
      <4> QED BY <4>4, <4>6
    <3>7. ~HasText(s, a)
      <4>1. PICK g : g = GetFixed(s, a)
        OBVIOUS
      <4>2. GetFixed(s, a) \in Int
        <5>1. HasFixed(s, a)
          <6>1. a + m - 1 <= Len(s)
            BY <1>1, <1>5, <3>4
          <6> QED BY <1>4, <6>1 DEF HasFixed
        <5> QED BY <3>4, <5>1, FixedIsNat
      <4>3. ~(a + m - 1 + g <= n)
        BY <1>3, <1>5, <3>4, <3>6, <4>1, <4>2
      <4> QED BY <1>1, <1>4, <4>1, <4>3 DEF HasText
    <3>8. AbortsAt(s, at)
      <4>1. at \in 1..Len(s)
        BY <1>1, <2>1, <3>1
      <4>2. ~HasEvent(s, at)
        BY <3>3, <3>7 DEF HasEvent
      <4> QED BY <4>1, <4>2 DEF AbortsAt
    <3> QED BY <1>8, <2>2, <3>2, <3>8, AbortsFirstOrSecond
  <2> QED BY <1>3, <2>8, <2>9, <2>10
<1> QED BY <1>1, <1>10, <1>11 DEF Begun

LEMMA TurnRow ==
  ASSUME CodeWords, NEW id \in 1..5, NEW row, row = RingRow(id)
  PROVE  row \in Seq(Nat) /\ Len(row) = 5 /\ TurnFirst(row)
<1>1. PICK d : d = SetFixed(id)
  OBVIOUS
<1>2. id \in 0..255
  OBVIOUS
<1>3. d \in Seq(Nat) /\ Len(d) = 4 /\ d[1] = id /\ d[2] = 0 /\ d[3] = 0 /\ d[4] = 0
  BY <1>1, <1>2, ByteAsWord
<1>4. PICK h : h = <<2>>
  OBVIOUS
<1>5. h \in Seq(Nat) /\ Len(h) = 1 /\ h[1] = 2
  BY <1>4
<1>6. row = h \o d
  BY <1>1, <1>4 DEF RingRow
<1>7. row \in Seq(Nat) /\ Joined(h, d, row)
  BY <1>3, <1>5, <1>6, Joins
<1>8. Len(row) = 5
  BY <1>3, <1>5, <1>7 DEF Joined
<1>9. row[1] = 2
  <2>1. 1 \in 1..Len(h)
    BY <1>5
  <2> QED BY <1>5, <1>7, <2>1 DEF Joined
<1>10. row[1 + 1] = d[1] /\ row[1 + 2] = d[2] /\ row[1 + 3] = d[3] /\ row[1 + 4] = d[4]
  <2>1. 1 \in 1..Len(d) /\ 2 \in 1..Len(d) /\ 3 \in 1..Len(d) /\ 4 \in 1..Len(d)
    BY <1>3
  <2> QED BY <1>5, <1>7, <2>1 DEF Joined
<1>11. row[2] = id /\ row[3] = 0 /\ row[4] = 0 /\ row[5] = 0
  BY <1>3, <1>10
<1> QED BY <1>7, <1>8, <1>9, <1>11 DEF TurnFirst

\* How the row that lists a table of level 0 begins.
ListsFirst(row) ==
  /\ row[1] = 0 /\ row[2] \in 0..255 /\ row[10] = 9
  /\ \A i \in 3..9 : row[i] = 0
  /\ \A i \in 11..13 : row[i] = 0

LEMMA RecordParts ==
  ASSUME NEW rec \in Records
  PROVE  /\ rec.level \in {0, 1}
         /\ rec.name \in Seq(Nat) /\ Len(rec.name) = 9
         /\ rec.min \in Seq(Nat) /\ Len(rec.min) \in 1..2
         /\ rec.max \in Seq(Nat) /\ Len(rec.max) \in 1..2
<1>1. PICK N : N = {FileName(1), FileName(2)}
  OBVIOUS
<1>2. PICK M : M = {<<97>>}
  OBVIOUS
<1>3. PICK X : X = {<<97>>, <<97, 98>>}
  OBVIOUS
<1>4. rec \in [level : {0, 1}, name : N, min : M, max : X]
  BY <1>1, <1>2, <1>3 DEF Records
<1>5. rec.level \in {0, 1} /\ rec.name \in N /\ rec.min \in M /\ rec.max \in X
  BY <1>4
<1>6. ASSUME NEW id \in {1, 2}, NEW f, f = FileName(id)
      PROVE  f \in Seq(Nat) /\ Len(f) = 9
  <2>1. PICK n : n = 9
    OBVIOUS
  <2>2. f \in [1..n -> Nat] /\ n \in Nat
    <3>1. \A i \in 1..9 : (IF i = 5 THEN 48 + id ELSE 115) \in Nat
      OBVIOUS
    <3> QED BY <1>6, <2>1, <3>1 DEF FileName
  <2>3. f \in Seq(Nat) /\ Len(f) = n
    BY <2>2
  <2> QED BY <2>1, <2>3
<1>7. \A f \in N : f \in Seq(Nat) /\ Len(f) = 9
  <2>1. PICK a : a = FileName(1)
    OBVIOUS
  <2>2. PICK b : b = FileName(2)
    OBVIOUS
  <2>3. a \in Seq(Nat) /\ Len(a) = 9 /\ b \in Seq(Nat) /\ Len(b) = 9
    BY <1>6, <2>1, <2>2
  <2> QED BY <1>1, <2>1, <2>2, <2>3
<1>8. \A f \in X : f \in Seq(Nat) /\ Len(f) \in 1..2
  <2>1. PICK a : a = <<97>>
    OBVIOUS
  <2>2. PICK b : b = <<97, 98>>
    OBVIOUS
  <2>3. a \in Seq(Nat) /\ Len(a) = 1 /\ b \in Seq(Nat) /\ Len(b) = 2
    BY <2>1, <2>2
  <2>4. 1 \in 1..2 /\ 2 \in 1..2
    OBVIOUS
  <2>5. X = {a, b}
    BY <1>3, <2>1, <2>2
  <2> QED BY <2>3, <2>4, <2>5
<1>9. M \subseteq X
  BY <1>2, <1>3
<1> QED BY <1>5, <1>7, <1>8, <1>9

LEMMA ListRow ==
  ASSUME CodeWords, NEW ope \in {0, 1}, NEW rec \in Records, NEW row, row = RecordRow(ope, rec)
  PROVE  /\ row \in Seq(Nat) /\ Len(row) \in 13..100
         /\ (ope = 0 /\ rec.level = 0) => ListsFirst(row)
<1>1. /\ rec.level \in {0, 1}
      /\ rec.name \in Seq(Nat) /\ Len(rec.name) = 9
      /\ rec.min \in Seq(Nat) /\ Len(rec.min) \in 1..2
      /\ rec.max \in Seq(Nat) /\ Len(rec.max) \in 1..2
  BY RecordParts
<1>2. FixedLen = 4
  BY DEF CodeWords
<1>3. PICK d : d = SetFixed(rec.level)
  OBVIOUS
<1>4. PICK w : w = SetFixed(9)
  OBVIOUS
<1>5. PICK name : name = rec.name
  OBVIOUS
<1>6. PICK y : y = Text(rec.min)
  OBVIOUS
<1>7. PICK z : z = Text(rec.max)
  OBVIOUS
<1>8. d \in Seq(Nat) /\ Len(d) = 4 /\ d[1] = rec.level /\ d[2] = 0 /\ d[3] = 0 /\ d[4] = 0
  <2>1. rec.level \in 0..255
    BY <1>1
  <2> QED BY <1>3, <2>1, ByteAsWord
<1>9. w \in Seq(Nat) /\ Len(w) = 4 /\ w[1] = 9 /\ w[2] = 0 /\ w[3] = 0 /\ w[4] = 0
  <2>1. PICK nine : nine = 9
    OBVIOUS
  <2>2. nine \in 0..255 /\ w = SetFixed(nine)
    BY <1>4, <2>1
  <2>3. w \in Seq(Nat) /\ Len(w) = 4 /\ w[1] = nine /\ w[2] = 0 /\ w[3] = 0 /\ w[4] = 0
    BY <2>2, ByteAsWord
  <2> QED BY <2>1, <2>3
<1>10. y \in Seq(Nat) /\ Len(y) \in 5..6 /\ z \in Seq(Nat) /\ Len(z) \in 5..6
  <2>1. y \in Seq(Nat) /\ Len(y) = FixedLen + Len(rec.min)
    BY <1>1, <1>6, TextIsText
  <2>2. z \in Seq(Nat) /\ Len(z) = FixedLen + Len(rec.max)
    BY <1>1, <1>7, TextIsText
  <2>3. \A k \in 1..2 : 4 + k \in 5..6
    OBVIOUS
  <2> QED BY <1>1, <1>2, <2>1, <2>2, <2>3
<1>11. PICK x : x = Text(rec.name)
  OBVIOUS
<1>12. x = w \o name /\ name \in Seq(Nat) /\ Len(name) = 9
  BY <1>1, <1>4, <1>5, <1>11 DEF Text
<1>13. x \in Seq(Nat) /\ Joined(w, name, x)
  BY <1>9, <1>12, Joins
<1>14. Len(x) = 13 /\ x[1] = 9 /\ x[2] = 0 /\ x[3] = 0 /\ x[4] = 0
  <2>1. 1 \in 1..Len(w) /\ 2 \in 1..Len(w) /\ 3 \in 1..Len(w) /\ 4 \in 1..Len(w)
    BY <1>9
  <2>2. Len(x) = Len(w) + Len(name)
    BY <1>13 DEF Joined
  <2>3. Len(x) = 4 + 9
    BY <1>9, <1>12, <2>2
  <2>4. x[1] = w[1] /\ x[2] = w[2] /\ x[3] = w[3] /\ x[4] = w[4]
    BY <1>13, <2>1 DEF Joined
  <2> QED BY <1>9, <2>3, <2>4
<1>15. PICK dx : dx = d \o x
  OBVIOUS
<1>16. dx \in Seq(Nat) /\ Joined(d, x, dx)
  BY <1>8, <1>13, <1>15, Joins
<1>17. PICK dxy : dxy = dx \o y
  OBVIOUS
<1>18. dxy \in Seq(Nat) /\ Joined(dx, y, dxy)
  BY <1>10, <1>16, <1>17, Joins
<1>19. PICK b : b = dxy \o z
  OBVIOUS
<1>20. b \in Seq(Nat) /\ Joined(dxy, z, b)
  BY <1>10, <1>18, <1>19, Joins
<1>21. b = RecordBytes(rec)
  BY <1>3, <1>6, <1>7, <1>11, <1>15, <1>17, <1>19 DEF RecordBytes
<1>22. Len(dx) = 17 /\ Len(dxy) \in 22..23 /\ Len(b) \in 27..29
  <2>1. Len(dx) = Len(d) + Len(x) /\ Len(dxy) = Len(dx) + Len(y) /\ Len(b) = Len(dxy) + Len(z)
    BY <1>16, <1>18, <1>20 DEF Joined
  <2>2. 4 + 13 = 17 /\ (\A k \in 5..6 : 17 + k \in 22..23) /\ \A k \in 22..23, m \in 5..6 : k + m \in 27..29
    OBVIOUS
  <2>3. Len(dx) = 17
    BY <1>8, <1>14, <2>1, <2>2
  <2>4. Len(dxy) \in 22..23
    BY <1>10, <2>1, <2>2, <2>3
  <2> QED BY <1>10, <2>1, <2>2, <2>3, <2>4
<1>23. \A i \in 1..8 : b[i] = dx[i]
  <2> TAKE i \in 1..8
  <2>1. i \in 1..Len(dx) /\ i \in 1..Len(dxy)
    <3>1. i \in 1..17 /\ \A k \in 22..23 : i \in 1..k
      OBVIOUS
    <3> QED BY <1>22, <3>1
  <2> QED BY <1>18, <1>20, <2>1 DEF Joined
<1>24. /\ dx[1] = rec.level /\ dx[2] = 0 /\ dx[3] = 0 /\ dx[4] = 0
       /\ dx[4 + 1] = 9 /\ dx[4 + 2] = 0 /\ dx[4 + 3] = 0 /\ dx[4 + 4] = 0
  <2>1. 1 \in 1..Len(d) /\ 2 \in 1..Len(d) /\ 3 \in 1..Len(d) /\ 4 \in 1..Len(d)
    BY <1>8
  <2>2. 1 \in 1..Len(x) /\ 2 \in 1..Len(x) /\ 3 \in 1..Len(x) /\ 4 \in 1..Len(x)
    BY <1>14
  <2>3. dx[1] = d[1] /\ dx[2] = d[2] /\ dx[3] = d[3] /\ dx[4] = d[4]
    BY <1>16, <2>1 DEF Joined
  <2>4. dx[4 + 1] = x[1] /\ dx[4 + 2] = x[2] /\ dx[4 + 3] = x[3] /\ dx[4 + 4] = x[4]
    BY <1>8, <1>16, <2>2 DEF Joined
  <2> QED BY <1>8, <1>14, <2>3, <2>4
<1>25. /\ b[1] = rec.level /\ b[2] = 0 /\ b[3] = 0 /\ b[4] = 0
       /\ b[5] = 9 /\ b[6] = 0 /\ b[7] = 0 /\ b[8] = 0
  <2>1. 1 \in 1..8 /\ 2 \in 1..8 /\ 3 \in 1..8 /\ 4 \in 1..8 /\ 5 \in 1..8 /\ 6 \in 1..8 /\ 7 \in 1..8 /\ 8 \in 1..8
        /\ 4 + 1 = 5 /\ 4 + 2 = 6 /\ 4 + 3 = 7 /\ 4 + 4 = 8
    OBVIOUS
  <2> QED BY <1>23, <1>24, <2>1
<1>26. PICK l : l = SetFixed(Len(b))
  OBVIOUS
<1>27. l \in Seq(Nat) /\ Len(l) = 4 /\ l[1] = Len(b) /\ l[2] = 0 /\ l[3] = 0 /\ l[4] = 0
  <2>1. PICK len : len = Len(b)
    OBVIOUS
  <2>2. len \in 0..255 /\ l = SetFixed(len)
    <3>1. \A k \in 27..29 : k \in 0..255
      OBVIOUS
    <3>2. len \in 27..29
      BY <1>22, <2>1
    <3>3. l = SetFixed(len)
      BY <1>26, <2>1
    <3> QED BY <3>1, <3>2, <3>3
  <2>3. l \in Seq(Nat) /\ Len(l) = 4 /\ l[1] = len /\ l[2] = 0 /\ l[3] = 0 /\ l[4] = 0
    BY <2>2, ByteAsWord
  <2> QED BY <2>1, <2>3
<1>28. PICK t : t = l \o b
  OBVIOUS
<1>29. t \in Seq(Nat) /\ Joined(l, b, t)
  BY <1>20, <1>27, <1>28, Joins
<1>30. t = Text(RecordBytes(rec))
  BY <1>21, <1>26, <1>28 DEF Text
<1>31. PICK h : h = <<ope>>
  OBVIOUS
<1>32. h \in Seq(Nat) /\ Len(h) = 1 /\ h[1] = ope
  BY <1>31
<1>33. row = h \o t
  BY <1>30, <1>31 DEF RecordRow
<1>34. row \in Seq(Nat) /\ Joined(h, t, row)
  BY <1>29, <1>32, <1>33, Joins
<1>35. Len(t) \in 31..33 /\ Len(row) \in 32..34
  <2>1. Len(t) = Len(l) + Len(b) /\ Len(row) = Len(h) + Len(t)
    BY <1>29, <1>34 DEF Joined
  <2>2. (\A k \in 27..29 : 4 + k \in 31..33) /\ \A k \in 31..33 : 1 + k \in 32..34
    OBVIOUS
  <2>3. Len(t) \in 31..33
    BY <1>22, <1>27, <2>1, <2>2
  <2> QED BY <1>32, <2>1, <2>2, <2>3
<1>36. \A i \in 1..4 : t[i] = l[i]
  BY <1>27, <1>29 DEF Joined
<1>37. \A i \in 1..8 : t[4 + i] = b[i]
  <2> TAKE i \in 1..8
  <2>1. i \in 1..Len(b)
    <3>1. \A k \in 27..29 : i \in 1..k
      OBVIOUS
    <3> QED BY <1>22, <3>1
  <2> QED BY <1>27, <1>29, <2>1 DEF Joined
<1>38. \A i \in 1..12 : row[1 + i] = t[i]
  <2> TAKE i \in 1..12
  <2>1. i \in 1..Len(t)
    <3>1. \A k \in 31..33 : i \in 1..k
      OBVIOUS
    <3> QED BY <1>35, <3>1
  <2> QED BY <1>32, <1>34, <2>1 DEF Joined
<1>39. row[1] = ope
  <2>1. 1 \in 1..Len(h)
    BY <1>32
  <2> QED BY <1>32, <1>34, <2>1 DEF Joined
<1>40. \A i \in 2..5 : row[i] = l[i - 1]
  <2> TAKE i \in 2..5
  <2>1. i - 1 \in 1..12 /\ i - 1 \in 1..4 /\ 1 + (i - 1) = i
    OBVIOUS
  <2> QED BY <1>36, <1>38, <2>1
<1>41. \A i \in 6..13 : row[i] = b[i - 5]
  <2> TAKE i \in 6..13
  <2>1. i - 1 \in 1..12 /\ i - 5 \in 1..8 /\ 1 + (i - 1) = i /\ 4 + (i - 5) = i - 1
    OBVIOUS
  <2> QED BY <1>37, <1>38, <2>1
<1>42. ASSUME ope = 0, rec.level = 0
       PROVE  ListsFirst(row)
  <2>1. row[2] \in 0..255 /\ row[3] = 0 /\ row[4] = 0 /\ row[5] = 0
    <3>1. 2 \in 2..5 /\ 3 \in 2..5 /\ 4 \in 2..5 /\ 5 \in 2..5 /\ 2 - 1 = 1 /\ 3 - 1 = 2 /\ 4 - 1 = 3 /\ 5 - 1 = 4
      OBVIOUS
    <3>2. row[2] = l[1] /\ row[3] = l[2] /\ row[4] = l[3] /\ row[5] = l[4]
      BY <1>40, <3>1
    <3>3. \A k \in 27..29 : k \in 0..255
      OBVIOUS
    <3> QED BY <1>22, <1>27, <3>2, <3>3
  <2>2. row[6] = 0 /\ row[7] = 0 /\ row[8] = 0 /\ row[9] = 0
    <3>1. 6 \in 6..13 /\ 7 \in 6..13 /\ 8 \in 6..13 /\ 9 \in 6..13 /\ 6 - 5 = 1 /\ 7 - 5 = 2 /\ 8 - 5 = 3 /\ 9 - 5 = 4
      OBVIOUS
    <3>2. row[6] = b[1] /\ row[7] = b[2] /\ row[8] = b[3] /\ row[9] = b[4]
      BY <1>41, <3>1
    <3> QED BY <1>25, <1>42, <3>2
  <2>3. row[10] = 9 /\ row[11] = 0 /\ row[12] = 0 /\ row[13] = 0
    <3>1. 10 \in 6..13 /\ 11 \in 6..13 /\ 12 \in 6..13 /\ 13 \in 6..13
          /\ 10 - 5 = 5 /\ 11 - 5 = 6 /\ 12 - 5 = 7 /\ 13 - 5 = 8
      OBVIOUS
    <3>2. row[10] = b[5] /\ row[11] = b[6] /\ row[12] = b[7] /\ row[13] = b[8]
      BY <1>41, <3>1
    <3> QED BY <1>25, <3>2
  <2>4. \A i \in 3..9 : i = 3 \/ i = 4 \/ i = 5 \/ i = 6 \/ i = 7 \/ i = 8 \/ i = 9
    OBVIOUS
  <2>5. \A i \in 11..13 : i = 11 \/ i = 12 \/ i = 13
    OBVIOUS
  <2>6. \A i \in 3..9 : row[i] = 0
    BY <2>1, <2>2, <2>4
  <2>7. \A i \in 11..13 : row[i] = 0
    BY <2>3, <2>5
  <2> QED BY <1>39, <1>42, <2>1, <2>3, <2>6, <2>7 DEF ListsFirst
<1>43. Len(row) \in 13..100
  <2>1. \A k \in 32..34 : k \in 13..100
    OBVIOUS
  <2> QED BY <1>35, <2>1
<1> QED BY <1>34, <1>42, <1>43

\* What the rows appended to a log leave of its beginning.
LEMMA StaysBegun ==
  ASSUME NEW s \in Seq(Nat), NEW row \in Seq(Nat), NEW all, all = s \o row, TurnFirst(s)
  PROVE  /\ TurnFirst(all)
         /\ TableSecond(s) => TableSecond(all)
         /\ (Len(s) = 5 /\ Len(row) >= 13 /\ ListsFirst(row)) => TableSecond(all)
<1>1. PICK n : n = Len(s)
  OBVIOUS
<1>2. PICK m : m = Len(row)
  OBVIOUS
<1>3. all \in Seq(Nat) /\ Joined(s, row, all)
  BY Joins
<1>4. n \in Nat /\ m \in Nat /\ Len(all) = n + m /\ n >= 5
      /\ (\A q \in 1..n : all[q] = s[q]) /\ (\A q \in 1..m : all[n + q] = row[q])
  BY <1>1, <1>2, <1>3 DEF Joined, TurnFirst
<1>5. TurnFirst(all)
  <2>1. 1 \in 1..n /\ 2 \in 1..n /\ 3 \in 1..n /\ 4 \in 1..n /\ 5 \in 1..n /\ n + m >= 5
    BY <1>4
  <2> QED BY <1>4, <2>1 DEF TurnFirst
<1>6. ASSUME TableSecond(s)
      PROVE  TableSecond(all)
  <2>1. n >= 18
    BY <1>1, <1>6 DEF TableSecond
  <2>2. \A i \in 1..18 : i \in 1..n
    BY <1>4, <2>1
  <2>3. 6 \in 1..18 /\ 7 \in 1..18 /\ 15 \in 1..18
        /\ (\A i \in 8..14 : i \in 1..18) /\ \A i \in 16..18 : i \in 1..18
    OBVIOUS
  <2>4. n + m >= 18
    BY <1>4, <2>1
  <2>5. \A i \in 1..18 : all[i] = s[i]
    BY <1>4, <2>2
  <2>6. s[6] = 0 /\ s[7] \in 0..255 /\ s[15] = 9 /\ (\A i \in 8..14 : s[i] = 0) /\ \A i \in 16..18 : s[i] = 0
    BY <1>6 DEF TableSecond
  <2>7. all[6] = 0 /\ all[7] \in 0..255 /\ all[15] = 9
    <3>1. all[6] = s[6] /\ all[7] = s[7] /\ all[15] = s[15]
      BY <2>3, <2>5
    <3> QED BY <2>6, <3>1
  <2>8. (\A i \in 8..14 : all[i] = 0) /\ \A i \in 16..18 : all[i] = 0
    <3>1. ASSUME NEW i \in 1..18, s[i] = 0
          PROVE  all[i] = 0
      BY <2>5, <3>1
    <3>2. ASSUME NEW i \in 8..14 PROVE all[i] = 0
      BY <2>3, <2>6, <3>1
    <3>3. ASSUME NEW i \in 16..18 PROVE all[i] = 0
      BY <2>3, <2>6, <3>1
    <3> QED BY <3>2, <3>3
  <2> QED BY <1>4, <2>4, <2>7, <2>8 DEF TableSecond
<1>7. ASSUME n = 5, m >= 13, ListsFirst(row)
      PROVE  TableSecond(all)
  <2>1. \A i \in 6..18 : all[i] = row[i - 5]
    <3> TAKE i \in 6..18
    <3>1. i - 5 \in 1..m /\ n + (i - 5) = i
      <4>1. n = 5 /\ m \in Nat /\ m >= 13
        BY <1>4, <1>7
      <4> QED BY ONLY <4>1, i \in 6..18
    <3> QED BY <1>4, <3>1
  <2>2. /\ row[1] = 0 /\ row[2] \in 0..255 /\ row[10] = 9
        /\ (\A i \in 3..9 : row[i] = 0) /\ \A i \in 11..13 : row[i] = 0
    BY <1>7 DEF ListsFirst
  <2>3. 6 \in 6..18 /\ 7 \in 6..18 /\ 15 \in 6..18 /\ 6 - 5 = 1 /\ 7 - 5 = 2 /\ 15 - 5 = 10
    OBVIOUS
  <2>4. all[6] = 0 /\ all[7] \in 0..255 /\ all[15] = 9
    <3>1. all[6] = row[1] /\ all[7] = row[2] /\ all[15] = row[10]
      BY <2>1, <2>3
    <3> QED BY <2>2, <3>1
  <2>5. \A i \in 8..14 : i \in 6..18 /\ i - 5 \in 3..9
    OBVIOUS
  <2>6. \A i \in 16..18 : i \in 6..18 /\ i - 5 \in 11..13
    OBVIOUS
  <2>7. \A i \in 8..14 : all[i] = 0
    <3> TAKE i \in 8..14
    <3>1. i \in 6..18 /\ i - 5 \in 3..9
      BY <2>5
    <3>2. all[i] = row[i - 5]
      BY <2>1, <3>1
    <3> QED BY <2>2, <3>1, <3>2
  <2>8. \A i \in 16..18 : all[i] = 0
    <3> TAKE i \in 16..18
    <3>1. i \in 6..18 /\ i - 5 \in 11..13
      BY <2>6
    <3>2. all[i] = row[i - 5]
      BY <2>1, <3>1
    <3> QED BY <2>2, <3>1, <3>2
  <2>9. n + m >= 18
    BY <1>4, <1>7
  <2> QED BY <1>4, <2>4, <2>7, <2>8, <2>9 DEF TableSecond
<1> QED BY <1>1, <1>2, <1>5, <1>6, <1>7

RingBegun ==
  \/ bytes = <<>> /\ ~written.turned
  \/ TurnFirst(bytes) /\ ((Len(bytes) = 5 /\ written.turned) \/ TableSecond(bytes))

RingInv ==
  which = "ring" =>
    /\ uses \in 0..MaxRows
    /\ bytes \in Seq(Nat) /\ Len(bytes) <= 100 * uses
    /\ written \in [id : 1..5, turned : BOOLEAN]
    /\ RingBegun

LEMMA RingInit == CodeWords /\ MCInit => RingInv
<1> SUFFICES ASSUME CodeWords, MCInit, which = "ring"
             PROVE  /\ uses \in 0..MaxRows
                    /\ bytes \in Seq(Nat) /\ Len(bytes) <= 100 * uses
                    /\ written \in [id : 1..5, turned : BOOLEAN]
                    /\ RingBegun
  BY DEF RingInv
<1>1. written \in [id : 1..5, turned : {FALSE}] /\ bytes = <<>> /\ uses = 0
  BY DEF MCInit, FileInit
<1>2. MaxRows \in Nat
  BY DEF CodeWords
<1>3. uses \in 0..MaxRows /\ Len(bytes) = 0 /\ bytes \in Seq(Nat) /\ 0 <= 100 * uses
  BY <1>1, <1>2
<1>4. written \in [id : 1..5, turned : BOOLEAN] /\ ~written.turned
  BY <1>1
<1> QED BY <1>1, <1>3, <1>4 DEF RingBegun

LEMMA RingGrows ==
  ASSUME CodeWords, RingInv, which = "ring", Use("ring", MaxRows),
         NEW row \in Seq(Nat), Len(row) \in 1..100, bytes' = bytes \o row
  PROVE  /\ uses' \in 0..MaxRows
         /\ bytes' \in Seq(Nat) /\ Len(bytes') <= 100 * uses'
<1>1. uses \in 0..MaxRows /\ bytes \in Seq(Nat) /\ Len(bytes) <= 100 * uses
  BY DEF RingInv
<1>2. uses < MaxRows /\ uses' = uses + 1 /\ MaxRows \in Nat
  BY DEF Use, CodeWords
<1>3. bytes' \in Seq(Nat) /\ Joined(bytes, row, bytes')
  BY <1>1, Joins
<1>4. Len(bytes') = Len(bytes) + Len(row)
  BY <1>3 DEF Joined
<1>5. PICK n : n = Len(bytes)
  OBVIOUS
<1>6. PICK m : m = Len(row)
  OBVIOUS
<1>7. n \in Nat /\ m \in 1..100 /\ n <= 100 * uses
  <2>1. m \in 1..100
    BY <1>6
  <2>2. n \in Nat /\ n <= 100 * uses
    BY <1>1, <1>5
  <2> QED BY <2>1, <2>2
<1>8. n + m <= 100 * (uses + 1)
  BY <1>1, <1>2, <1>7
<1>9. uses + 1 \in 0..MaxRows
  BY <1>1, <1>2
<1> QED BY <1>2, <1>3, <1>4, <1>5, <1>6, <1>8, <1>9

LEMMA RingStep ==
  ASSUME CodeWords, RingInv, [MCNext]_vars
  PROVE  RingInv'
<1>1. CASE which' # "ring"
  BY <1>1 DEF RingInv
<1>2. CASE which' = "ring" /\ UNCHANGED <<which, uses, bytes, written>>
  BY <1>2 DEF RingInv, RingBegun, TurnFirst, TableSecond
<1>3. CASE which = "ring" /\ which' = "ring" /\ Use("ring", MaxRows) /\ (TurnRing \/ ListTable \/ LogCompaction)
  <2>1. bytes \in Seq(Nat) /\ written \in [id : 1..5, turned : BOOLEAN] /\ RingBegun
    BY <1>3 DEF RingInv
  <2>2. written.id \in 1..5 /\ written.turned \in BOOLEAN
    BY <2>1
  <2>3. SUFFICES /\ uses' \in 0..MaxRows /\ bytes' \in Seq(Nat) /\ Len(bytes') <= 100 * uses'
                 /\ written' \in [id : 1..5, turned : BOOLEAN] /\ RingBegun'
    BY DEF RingInv
  <2>4. ASSUME NEW row \in Seq(Nat), Len(row) \in 1..100, bytes' = bytes \o row
        PROVE  uses' \in 0..MaxRows /\ bytes' \in Seq(Nat) /\ Len(bytes') <= 100 * uses'
    BY <1>3, <2>4, RingGrows
  <2>5. CASE TurnRing
    <3>1. PICK id : id = IF written.id = 5 THEN 1 ELSE written.id + 1
      OBVIOUS
    <3>2. id \in 1..5
      BY <2>2, <3>1
    <3>3. PICK row : row = RingRow(id)
      OBVIOUS
    <3>4. ~written.turned /\ bytes' = bytes \o row /\ written' = [id |-> id, turned |-> TRUE]
      BY <2>5, <3>1, <3>3 DEF TurnRing
    <3>5. row \in Seq(Nat) /\ Len(row) = 5 /\ TurnFirst(row)
      BY <3>2, <3>3, TurnRow
    <3>6. Len(row) \in 1..100
      BY <3>5
    <3>7. written' \in [id : 1..5, turned : BOOLEAN] /\ written'.turned
      BY <3>2, <3>4
    <3>8. RingBegun'
      <4>1. CASE bytes = <<>>
        <5>1. bytes' = row
          BY <3>4, <3>5, <4>1
        <5>2. TurnFirst(bytes') /\ Len(bytes') = 5
          BY <3>5, <5>1
        <5>3. TurnFirst(bytes)'
          BY <5>2 DEF TurnFirst
        <5> QED BY <3>7, <5>2, <5>3 DEF RingBegun
      <4>2. CASE TurnFirst(bytes) /\ TableSecond(bytes)
        <5>1. PICK all : all = bytes \o row
          OBVIOUS
        <5>2. TurnFirst(all) /\ TableSecond(all)
          BY <2>1, <3>5, <4>2, <5>1, StaysBegun
        <5>3. bytes' = all
          BY <3>4, <5>1
        <5>4. TurnFirst(bytes)' /\ TableSecond(bytes)'
          BY <5>2, <5>3 DEF TurnFirst, TableSecond
        <5> QED BY <5>4 DEF RingBegun
      <4> QED BY <2>1, <3>4, <4>1, <4>2 DEF RingBegun
    <3> QED BY <2>4, <3>4, <3>5, <3>6, <3>7, <3>8
  <2>6. CASE ListTable
    <3>1. PICK rec \in Records : rec.level = 0 /\ bytes' = bytes \o RecordRow(0, rec)
      BY <2>6 DEF ListTable
    <3>2. PICK row : row = RecordRow(0, rec)
      OBVIOUS
    <3>3. PICK ope \in {0, 1} : ope = 0
      OBVIOUS
    <3>4. row = RecordRow(ope, rec)
      BY <3>2, <3>3
    <3>5. row \in Seq(Nat) /\ Len(row) \in 13..100 /\ ListsFirst(row)
      BY <3>1, <3>3, <3>4, ListRow
    <3>6. Len(row) \in 1..100 /\ Len(row) >= 13
      <4>1. \A k \in 13..100 : k \in 1..100 /\ k >= 13
        OBVIOUS
      <4> QED BY <3>5, <4>1
    <3>7. written.turned /\ written' = [written EXCEPT !.turned = FALSE]
      BY <2>6 DEF ListTable
    <3>8. written' \in [id : 1..5, turned : BOOLEAN]
      BY <2>1, <3>7
    <3>9. PICK all : all = bytes \o row
      OBVIOUS
    <3>10. TurnFirst(bytes) /\ (Len(bytes) = 5 \/ TableSecond(bytes))
      BY <2>1, <3>7 DEF RingBegun
    <3>11. TurnFirst(all) /\ TableSecond(all)
      BY <2>1, <3>5, <3>6, <3>9, <3>10, StaysBegun
    <3>12. bytes' = all
      BY <3>1, <3>2, <3>9
    <3>13. TurnFirst(bytes)' /\ TableSecond(bytes)'
      BY <3>11, <3>12 DEF TurnFirst, TableSecond
    <3>14. RingBegun'
      BY <3>13 DEF RingBegun
    <3> QED BY <2>4, <3>1, <3>2, <3>5, <3>6, <3>8, <3>14
  <2>7. CASE LogCompaction
    <3>1. PICK ope \in {0, 1}, rec \in Records : bytes' = bytes \o RecordRow(ope, rec)
      BY <2>7 DEF LogCompaction
    <3>2. PICK row : row = RecordRow(ope, rec)
      OBVIOUS
    <3>3. row \in Seq(Nat) /\ Len(row) \in 13..100
      BY <3>2, ListRow
    <3>4. Len(row) \in 1..100
      BY <3>3
    <3>5. bytes # <<>> /\ ~written.turned /\ written' = written
      BY <2>7 DEF LogCompaction
    <3>6. TurnFirst(bytes) /\ TableSecond(bytes)
      BY <2>1, <3>5 DEF RingBegun
    <3>7. PICK all : all = bytes \o row
      OBVIOUS
    <3>8. TurnFirst(all) /\ TableSecond(all)
      BY <2>1, <3>3, <3>6, <3>7, StaysBegun
    <3>9. bytes' = all
      BY <3>1, <3>2, <3>7
    <3>10. TurnFirst(bytes)' /\ TableSecond(bytes)'
      BY <3>8, <3>9 DEF TurnFirst, TableSecond
    <3>11. RingBegun'
      BY <3>10 DEF RingBegun
    <3> QED BY <2>1, <2>4, <3>1, <3>2, <3>3, <3>4, <3>5, <3>11
  <2> QED BY <1>3, <2>5, <2>6, <2>7
<1>4. ASSUME which' = "ring", MCNext
      PROVE  \/ UNCHANGED <<which, uses, bytes, written>>
             \/ which = "ring" /\ Use("ring", MaxRows) /\ (TurnRing \/ ListTable \/ LogCompaction)
  <2>1. CASE FileStep
    <3>1. CASE Use("pairs", MaxRows)
      BY <1>4, <3>1 DEF Use
    <3>2. CASE Use("ring", MaxRows) /\ (TurnRing \/ ListTable \/ LogCompaction)
      <4>1. which = "ring"
        BY <3>2 DEF Use
      <4> QED BY <3>2, <4>1
    <3> QED BY <2>1, <3>1, <3>2 DEF FileStep
  <2>2. CASE ClientStep
    BY <1>4, <2>2 DEF ClientStep, Use, files
  <2>3. CASE CacheStep \/ NameStep \/ ListStep \/ MakeTable
    BY <1>4, <2>3 DEF CacheStep, NameStep, ListStep, MakeTable, Use
  <2> QED BY <1>4, <2>1, <2>2, <2>3 DEF MCNext
<1>5. CASE UNCHANGED vars
  BY <1>1, <1>2, <1>5 DEF vars, files
<1> QED BY <1>1, <1>2, <1>3, <1>4, <1>5

LEMMA RingAborts ==
  ASSUME CodeWords, RingInv
  PROVE  RingLogAborts
<1>1. SUFFICES ASSUME which = "ring"
               PROVE  ReplayAborts(bytes) <=> bytes # <<>>
  BY DEF RingLogAborts
<1>2. CASE bytes = <<>>
  BY <1>2, EmptyReplays
<1>3. CASE TurnFirst(bytes) /\ (Len(bytes) = 5 \/ TableSecond(bytes))
  <2>1. bytes \in Seq(Nat) /\ Len(bytes) <= 100 * uses /\ uses \in 0..MaxRows
    BY <1>1 DEF RingInv
  <2>2. MaxRows \in Nat /\ 100 * MaxRows < 256 * 256 * 256
    BY DEF CodeWords
  <2>3. PICK n : n = Len(bytes)
    OBVIOUS
  <2>4. n \in Nat /\ n <= 100 * uses
    BY <2>1, <2>3
  <2>5. n < 256 * 256 * 256
    BY <2>1, <2>2, <2>4
  <2>6. Begun(bytes)
    BY <1>3, <2>3, <2>5 DEF Begun
  <2>7. ReplayAborts(bytes)
    BY <2>1, <2>6, BegunAborts
  <2>8. bytes # <<>>
    BY <2>7, EmptyReplays
  <2> QED BY <2>7, <2>8
<1>4. RingBegun
  BY <1>1 DEF RingInv
<1> QED BY <1>2, <1>3, <1>4 DEF RingBegun

\* What OpenAborts of ManiFest and OpenDBAborts of DBImpl take for granted, and no
\* promise (RingLogReopens is the promise that fails): with the words of the
\* code, of four bytes, every WAL_manifest.log that a turn of the ring has been
\* written to ends the process that opens it (wal.cpp:46), whatever else was
\* logged, and no other does.
THEOREM RingLogEndsTheReader == CodeWords => (MCSpec => []RingLogAborts)
<1> SUFFICES ASSUME CodeWords
             PROVE  MCSpec => []RingLogAborts
  OBVIOUS
<1>1. MCInit => RingInv
  BY RingInit
<1>2. RingInv /\ [MCNext]_vars => RingInv'
  BY RingStep
<1>3. RingInv => RingLogAborts
  BY RingAborts
<1> QED BY <1>1, <1>2, <1>3, PTL DEF MCSpec

=============================================================================
