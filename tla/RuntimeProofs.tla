---------------------------- MODULE RuntimeProofs ----------------------------
(***************************************************************************)
(* Theorems about MemPool, for every number and size of lists, every fit   *)
(* and every mix of sizes (each address is free or lent, once, free nodes  *)
(* are in order and merged, and a list never promises more than a node     *)
(* has), about ThreadsPool, for every number of workers and tasks, about   *)
(* SqlManager, for every set of logins and whatever MySQL and the          *)
(* connection to it do, and about MCRuntime, where they stand side by side *)
(* with the reactor.                                                       *)
(***************************************************************************)
EXTENDS MCRuntime, ReactorProofs

-----------------------------------------------------------------------------
(* The memory pool: numbers.                                               *)

\* A nonempty set of naturals has a least element.
LEMMA LeastNatural ==
  ASSUME NEW S \in SUBSET Nat, S # {}
  PROVE  Min(S) \in S /\ \A y \in S : Min(S) <= y
PROOF
  <1>1. PICK x \in S : \A y \in S : <<y, x>> \notin OpToRel(<, Nat)
    BY NatLessThanWellFounded, WFMin
  <1>2. \A y \in S : ~(y < x)
    BY <1>1 DEF OpToRel
  <1>3. \A y \in S : x <= y
    BY <1>2
  <1> QED BY <1>3 DEF Min

\* A bounded one has a greatest.
LEMMA GreatestNatural ==
  ASSUME NEW S, NEW b \in Nat, S \subseteq 0..b, S # {}
  PROVE  Max(S) \in S /\ \A y \in S : Max(S) >= y
PROOF
  <1>1. PICK D : D = {b - y : y \in S}
    OBVIOUS
  <1>2. D \in SUBSET Nat /\ D # {}
    <2>1. \A y \in S : b - y \in Nat
      OBVIOUS
    <2> QED BY <1>1, <2>1
  <1>3. PICK m \in D : \A d \in D : m <= d
    BY <1>2, LeastNatural
  <1>4. PICK x \in S : m = b - x
    BY <1>1, <1>3
  <1>5. \A y \in S : b - x <= b - y
    BY <1>1, <1>3, <1>4
  <1>6. \A y \in S : x >= y
    BY <1>5
  <1> QED BY <1>6 DEF Max

\* Where a region begins.
First(i) == i * OneSize

LEMMA Regions ==
  /\ OneSize \in Nat /\ OneSize > 0 /\ NumLists \in Nat /\ NumLists > 0
  /\ NumLists * OneSize \in Nat
  /\ \A i \in Lists : /\ i \in Nat /\ First(i) \in Nat
                      /\ Region(i) = First(i)..(First(i) + OneSize - 1)
                      /\ First(i) + OneSize <= NumLists * OneSize
  /\ \A i, j \in Lists : i < j => First(i) + OneSize <= First(j)
PROOF
  <1>1. OneSize \in Nat /\ OneSize > 0 /\ NumLists \in Nat /\ NumLists > 0
    BY PoolAssumption
  <1>2. \A i \in Lists : i \in Nat /\ i < NumLists
    BY <1>1 DEF Lists
  <1>3. \A i, j \in Nat : i * OneSize \in Nat /\ (i + 1) * OneSize = i * OneSize + OneSize
    BY <1>1
  <1>4. \A i, j \in Nat : i < j => (i + 1) * OneSize <= j * OneSize
    <2>1. SUFFICES ASSUME NEW i \in Nat, NEW j \in Nat, i < j
                   PROVE  (i + 1) * OneSize <= j * OneSize
      OBVIOUS
    <2>2. PICK d \in Nat : j = (i + 1) + d
      <3>1. j - (i + 1) \in Nat /\ j = (i + 1) + (j - (i + 1))
        BY <2>1
      <3> QED BY <3>1
    <2>3. j * OneSize = (i + 1) * OneSize + d * OneSize
      BY <1>1, <2>2
    <2>4. d * OneSize \in Nat /\ (i + 1) * OneSize \in Nat
      BY <1>1
    <2> QED BY <2>3, <2>4
  <1>5. NumLists * OneSize \in Nat
    BY <1>1
  <1>6. ASSUME NEW i \in Lists
        PROVE  /\ i \in Nat /\ First(i) \in Nat
               /\ Region(i) = First(i)..(First(i) + OneSize - 1)
               /\ First(i) + OneSize <= NumLists * OneSize
    <2>1. i \in Nat /\ i < NumLists /\ (i + 1) * OneSize = i * OneSize + OneSize
          /\ i * OneSize \in Nat
      BY <1>1, <1>2, <1>3
    <2>2. (i + 1) * OneSize <= NumLists * OneSize
      BY <1>1, <1>4, <2>1
    <2>3. Region(i) = First(i)..(First(i) + OneSize - 1)
      <3>1. Region(i) = (i * OneSize)..((i + 1) * OneSize - 1)
        BY DEF Region
      <3>2. i * OneSize = First(i) /\ (i + 1) * OneSize - 1 = First(i) + OneSize - 1
        BY <1>1, <2>1 DEF First
      <3> QED BY <3>1, <3>2
    <2> QED BY <1>1, <2>1, <2>2, <2>3 DEF First
  <1>7. \A i, j \in Lists : i < j => First(i) + OneSize <= First(j)
    BY <1>2, <1>3, <1>4 DEF First
  <1> QED BY <1>1, <1>5, <1>6, <1>7

LEMMA RegionsApart ==
  ASSUME NEW i \in Lists, NEW j \in Lists
  PROVE  i < j => First(i) + OneSize <= First(j)
PROOF
  <1>1. \A x, y \in Lists : x < y => First(x) + OneSize <= First(y)
    BY Regions, Zenon
  <1> QED BY <1>1

-----------------------------------------------------------------------------
(* The binary search.                                                      *)

\* One unfolding of the search, and the search up to a width.
Searched(a, f)    == [s \in Spans |-> IF s.l < s.r THEN f[Halved(s, a)] ELSE Settled(s, a)]
Narrow(w)         == {s \in Spans : s.r - s.l < w}
Partial(a, w, f)  == \A s \in Narrow(w) :
                       f[s] = IF s.l < s.r THEN f[Halved(s, a)] ELSE Settled(s, a)

LEMMA SpanFacts ==
  ASSUME NEW s \in Spans, NEW a
  PROVE  /\ s.l \in 0..NumLists /\ s.r \in -1..NumLists /\ s.res \in Lists
         /\ s.r - s.l < NumLists + 1
         /\ s.l < s.r => Halved(s, a) \in Spans /\ Halved(s, a).r - Halved(s, a).l < s.r - s.l
PROOF
  <1>1. s.l \in 0..NumLists /\ s.r \in -1..NumLists /\ s.res \in Lists
    BY DEF Spans
  <1>2. s.r - s.l < NumLists + 1
    BY <1>1, PoolAssumption
  <1>3. ASSUME s.l < s.r
        PROVE  Halved(s, a) \in Spans /\ Halved(s, a).r - Halved(s, a).l < s.r - s.l
    <2>1. PICK mid : mid = (s.l + s.r) \div 2
      OBVIOUS
    <2>2. mid \in Int /\ s.l <= mid /\ mid < s.r
      BY <1>1, <1>3, <2>1, PoolAssumption
    <2>3. CASE Begins(mid, a)
      <3>1. Halved(s, a) = [l |-> mid + 1, r |-> s.r, res |-> mid]
        BY <2>1, <2>3 DEF Halved
      <3>2. mid \in Lists
        BY <2>3 DEF Begins
      <3> QED BY <1>1, <2>2, <3>1, <3>2, PoolAssumption DEF Spans
    <2>4. CASE ~Begins(mid, a)
      <3>1. Halved(s, a) = [l |-> s.l, r |-> mid - 1, res |-> s.res]
        BY <2>1, <2>4 DEF Halved
      <3> QED BY <1>1, <2>2, <3>1, PoolAssumption DEF Spans
    <2> QED BY <2>3, <2>4
  <1> QED BY <1>1, <1>2, <1>3

LEMMA SearchedAt ==
  ASSUME NEW a, NEW f, NEW s \in Spans
  PROVE  Searched(a, f)[s] = IF s.l < s.r THEN f[Halved(s, a)] ELSE Settled(s, a)
PROOF BY Zenon DEF Searched

\* There is a search: one that is right up to every width.
LEMMA SearchExists ==
  ASSUME NEW a
  PROVE  \E f : f = Searched(a, f)
PROOF
  <1> DEFINE Bad == {w \in Nat : ~\E f : Partial(a, w, f)}
  <1>1. Bad = {}
    <2> SUFFICES ASSUME Bad # {} PROVE FALSE
      OBVIOUS
    <2>1. PICK w \in Nat : w \in Bad /\ \A y \in Bad : w <= y
      <3>1. Bad \in SUBSET Nat
        OBVIOUS
      <3> QED BY <3>1, LeastNatural
    <2>2. CASE w = 0
      <3>1. PICK f : f = [s \in Spans |-> Settled(s, a)]
        OBVIOUS
      <3>2. \A s \in Narrow(0) : s \in Spans /\ ~(s.l < s.r)
        BY SpanFacts, PoolAssumption DEF Narrow
      <3>3. Partial(a, 0, f)
        BY <3>1, <3>2 DEF Partial
      <3> QED BY <2>1, <2>2, <3>3
    <2>3. CASE w # 0
      <3>1. w - 1 \in Nat /\ w - 1 \notin Bad
        BY <2>1, <2>3
      <3>2. PICK f : Partial(a, w - 1, f)
        BY <3>1
      <3>3. PICK g : g = Searched(a, f)
        OBVIOUS
      <3>4. \A s \in Spans : g[s] = IF s.l < s.r THEN f[Halved(s, a)] ELSE Settled(s, a)
        BY <3>3, SearchedAt
      <3>5. \A s \in Narrow(w - 1) : s \in Spans /\ g[s] = f[s]
        BY <3>2, <3>4 DEF Partial, Narrow
      <3>6. ASSUME NEW s \in Narrow(w), s.l < s.r
            PROVE  Halved(s, a) \in Narrow(w - 1)
        BY <3>6, <3>1, SpanFacts, PoolAssumption DEF Narrow
      <3>7. ASSUME NEW s \in Narrow(w)
            PROVE  g[s] = IF s.l < s.r THEN g[Halved(s, a)] ELSE Settled(s, a)
        <4>1. s \in Spans
          BY DEF Narrow
        <4>2. CASE s.l < s.r
          BY <3>4, <3>5, <3>6, <4>1, <4>2
        <4>3. CASE ~(s.l < s.r)
          BY <3>4, <4>1, <4>3
        <4> QED BY <4>2, <4>3
      <3>8. Partial(a, w, g)
        BY <3>7 DEF Partial
      <3> QED BY <2>1, <3>8
    <2> QED BY <2>2, <2>3
  <1>2. NumLists + 1 \in Nat
    BY PoolAssumption
  <1>3. PICK f : Partial(a, NumLists + 1, f)
    BY <1>1, <1>2
  <1>4. \A s \in Spans : s \in Narrow(NumLists + 1)
    BY SpanFacts DEF Narrow
  <1>5. PICK g : g = Searched(a, f)
    OBVIOUS
  <1>6. \A s \in Spans : g[s] = IF s.l < s.r THEN f[Halved(s, a)] ELSE Settled(s, a)
    BY <1>5, SearchedAt
  <1>7. \A s \in Spans : g[s] = f[s]
    BY <1>3, <1>4, <1>6 DEF Partial
  <1>8. \A s \in Spans : s.l < s.r => g[Halved(s, a)] = f[Halved(s, a)]
    BY <1>7, SpanFacts
  <1>9. Searched(a, g) = Searched(a, f)
    BY <1>8 DEF Searched
  <1> QED BY <1>5, <1>9

\* What the loop keeps true while it looks for the last list t that begins at
\* or before the address.
Aims(s, t) == s.l <= t + 1 /\ t <= s.r /\ (s.l = t + 1 => s.res = t)

LEMMA AimKept ==
  ASSUME NEW a, NEW t \in Lists, \A i \in Int : Begins(i, a) <=> i \in 0..t,
         NEW s \in Spans, Aims(s, t)
  PROVE  /\ s.l < s.r => Aims(Halved(s, a), t)
         /\ ~(s.l < s.r) => Settled(s, a) = t
PROOF
  <1>1. /\ s.l \in Int /\ s.r \in Int /\ s.l >= 0 /\ t \in Int /\ t >= 0
        /\ s.l <= t + 1 /\ t <= s.r /\ (s.l = t + 1 => s.res = t)
    BY SpanFacts, PoolAssumption DEF Aims, Lists
  <1>2. ASSUME s.l < s.r
        PROVE  Aims(Halved(s, a), t)
    <2>1. PICK mid : mid = (s.l + s.r) \div 2
      OBVIOUS
    <2>2. mid \in Int /\ s.l <= mid /\ mid < s.r
      BY <1>1, <1>2, <2>1
    <2>3. CASE Begins(mid, a)
      <3>1. Halved(s, a) = [l |-> mid + 1, r |-> s.r, res |-> mid]
        BY <2>1, <2>3 DEF Halved
      <3>2. mid <= t
        BY <2>2, <2>3
      <3> QED BY <1>1, <2>2, <3>1, <3>2 DEF Aims
    <2>4. CASE ~Begins(mid, a)
      <3>1. Halved(s, a) = [l |-> s.l, r |-> mid - 1, res |-> s.res]
        BY <2>1, <2>4 DEF Halved
      <3>2. mid > t
        BY <1>1, <2>2, <2>4
      <3> QED BY <1>1, <2>2, <3>1, <3>2 DEF Aims
    <2> QED BY <2>3, <2>4
  <1>3. ASSUME ~(s.l < s.r)
        PROVE  Settled(s, a) = t
    <2>1. Begins(s.r, a) <=> s.r \in 0..t
      BY <1>1
    <2>2. Begins(s.l, a) <=> s.l \in 0..t
      BY <1>1
    <2> QED BY <1>1, <1>3, <2>1, <2>2 DEF Settled
  <1> QED BY <1>2, <1>3

LEMMA SearchFinds ==
  ASSUME NEW a, NEW t \in Lists, \A i \in Int : Begins(i, a) <=> i \in 0..t,
         NEW f, f = Searched(a, f), NEW s0 \in Spans, Aims(s0, t)
  PROVE  f[s0] = t
PROOF
  <1> DEFINE Wrong(w) == \E s \in Narrow(w) : Aims(s, t) /\ f[s] # t
             Bad      == {w \in Nat : Wrong(w)}
  <1>1. \A s \in Spans : f[s] = IF s.l < s.r THEN f[Halved(s, a)] ELSE Settled(s, a)
    BY SearchedAt, Zenon
  <1>2. Bad = {}
    <2> SUFFICES ASSUME Bad # {} PROVE FALSE
      OBVIOUS
    <2>1. PICK w \in Nat : w \in Bad /\ \A y \in Bad : w <= y
      <3>1. Bad \in SUBSET Nat
        OBVIOUS
      <3> QED BY <3>1, LeastNatural
    <2>2. PICK s \in Narrow(w) : Aims(s, t) /\ f[s] # t
      BY <2>1
    <2>3. s \in Spans /\ s.r - s.l < w
      BY DEF Narrow
    <2>4. s.l < s.r
      BY <1>1, <2>2, <2>3, AimKept
    <2>5. /\ Halved(s, a) \in Spans /\ Halved(s, a).r - Halved(s, a).l < s.r - s.l
          /\ Aims(Halved(s, a), t) /\ f[Halved(s, a)] # t
      BY <1>1, <2>2, <2>3, <2>4, AimKept, SpanFacts
    <2>6. s.l \in Int /\ s.r \in Int /\ Halved(s, a).r \in Int /\ Halved(s, a).l \in Int
      BY <2>3, <2>5, PoolAssumption DEF Spans
    <2>7. w - 1 \in Nat /\ Halved(s, a).r - Halved(s, a).l < w - 1
      BY <2>3, <2>4, <2>5, <2>6
    <2>8. Wrong(w - 1)
      BY <2>5, <2>7 DEF Narrow
    <2>9. w - 1 \in Bad
      BY <2>7, <2>8
    <2> QED BY <2>1, <2>9
  <1>3. s0 \in Narrow(NumLists + 1) /\ NumLists + 1 \in Nat
    BY SpanFacts, PoolAssumption DEF Narrow
  <1> QED BY <1>2, <1>3

\* The search finds the list whose region the address is in.
LEMMA OwnerFound ==
  ASSUME NEW t \in Lists, NEW a \in Region(t)
  PROVE  Owner(a) = t
PROOF
  <1>1. a \in Int /\ First(t) <= a /\ a < First(t) + OneSize /\ t \in Nat /\ First(t) \in Nat
    BY Regions
  <1>2. ASSUME NEW i \in Int
        PROVE  Begins(i, a) <=> i \in 0..t
    <2>1. i \in 0..t => i \in Lists
      BY <1>1, PoolAssumption DEF Lists
    <2>2. ASSUME i \in Lists
          PROVE  First(i) <= a <=> i <= t
      <3>1. i \in Nat /\ First(i) \in Nat /\ OneSize \in Nat
        BY <2>2, Regions
      <3>2. i < t => First(i) + OneSize <= First(t)
        BY <2>2, Regions
      <3>3. t < i => First(t) + OneSize <= First(i)
        BY <2>2, Regions
      <3> QED BY <1>1, <3>1, <3>2, <3>3
    <2>3. i \in Lists => i >= 0
      BY Regions
    <2> QED BY <1>1, <2>1, <2>2, <2>3 DEF Begins, First
  <1>3. PICK f : f = (CHOOSE g : g = Searched(a, g))
    OBVIOUS
  <1>4. f = Searched(a, f)
    BY <1>3, SearchExists, Zenon
  <1>5. PICK s : s = [l |-> 0, r |-> NumLists - 1, res |-> 0]
    OBVIOUS
  <1>6. s \in Spans /\ Aims(s, t)
    BY <1>1, <1>5, PoolAssumption DEF Spans, Aims, Lists
  <1>7. Owner(a) = f[s]
    BY <1>3, <1>5 DEF Owner, Searched
  <1> QED BY <1>2, <1>4, <1>6, <1>7, SearchFinds

-----------------------------------------------------------------------------
(* Free lists.                                                             *)

LEMMA Joined ==
  ASSUME NEW S, NEW x \in Seq(S), NEW y \in Seq(S)
  PROVE  /\ x \o y \in Seq(S) /\ Len(x \o y) = Len(x) + Len(y)
         /\ \A q \in 1..(Len(x) + Len(y)) : (x \o y)[q] = IF q <= Len(x) THEN x[q] ELSE y[q - Len(x)]
PROOF OBVIOUS

\* A part of a list, of n nodes from the m-th on.
LEMMA PartOf ==
  ASSUME NEW S, NEW s \in Seq(S), NEW m \in 1..(Len(s) + 1), NEW n \in (m - 1)..Len(s)
  PROVE  /\ SubSeq(s, m, n) \in Seq(S) /\ Len(SubSeq(s, m, n)) = n - m + 1
         /\ \A q \in 1..(n - m + 1) : SubSeq(s, m, n)[q] = s[m + q - 1]
PROOF OBVIOUS

\* A list without the node at p, where its nodes come from, and a list with g in the place of the nodes between u and v.
Dropping(s, p)       == SubSeq(s, 1, p - 1) \o SubSeq(s, p + 1, Len(s))
Came(p, q)           == IF q < p THEN q ELSE q + 1
NewLength(s, u, v)   == u + 2 + Len(s) - v
Splicing(s, u, g, v) == SubSeq(s, 1, u) \o <<g>> \o SubSeq(s, v, Len(s))

LEMMA WithoutNode ==
  ASSUME NEW S, NEW s \in Seq(S), NEW p \in 1..Len(s), NEW t, t = Dropping(s, p)
  PROVE  /\ t \in Seq(S) /\ Len(t) = Len(s) - 1
         /\ \A q \in 1..Len(t) : t[q] = s[Came(p, q)]
PROOF
  <1>1. PICK len \in Nat : len = Len(s)
    OBVIOUS
  <1>2. PICK x, y : x = SubSeq(s, 1, p - 1) /\ y = SubSeq(s, p + 1, len)
    OBVIOUS
  <1>3. x \in Seq(S) /\ Len(x) = p - 1 /\ \A q \in 1..(p - 1) : x[q] = s[q]
    BY <1>1, <1>2, PartOf
  <1>4. y \in Seq(S) /\ Len(y) = len - p /\ \A q \in 1..(len - p) : y[q] = s[p + q]
    BY <1>1, <1>2, PartOf
  <1>5. t = x \o y
    BY <1>1, <1>2 DEF Dropping
  <1>6. /\ t \in Seq(S) /\ Len(t) = Len(x) + Len(y)
        /\ \A q \in 1..(Len(x) + Len(y)) : t[q] = IF q <= Len(x) THEN x[q] ELSE y[q - Len(x)]
    <2>1. x \in Seq(S) /\ y \in Seq(S)
      BY <1>3, <1>4
    <2> QED BY <1>5, <2>1, Joined, Zenon
  <1>7. /\ t \in Seq(S) /\ Len(t) = len - 1 /\ p \in 1..len
        /\ \A q \in 1..(len - 1) : t[q] = IF q <= p - 1 THEN x[q] ELSE y[q - (p - 1)]
    BY <1>1, <1>3, <1>4, <1>6
  <1>8. ASSUME NEW q \in 1..(len - 1)
        PROVE  t[q] = s[IF q < p THEN q ELSE q + 1]
    <2>1. CASE q < p
      BY <1>3, <1>7, <2>1
    <2>2. CASE ~(q < p)
      <3>1. q - (p - 1) \in 1..(len - p) /\ p + (q - (p - 1)) = q + 1
        BY <1>7, <2>2
      <3>2. t[q] = y[q - (p - 1)]
        BY <1>7, <2>2
      <3> QED BY <1>4, <2>2, <3>1, <3>2
    <2> QED BY <2>1, <2>2
  <1> QED BY <1>1, <1>7, <1>8 DEF Came

LEMMA WithNode ==
  ASSUME NEW S, NEW s \in Seq(S), NEW g \in S, NEW u \in 0..Len(s), NEW v \in (u + 1)..(Len(s) + 1),
         NEW t, t = Splicing(s, u, g, v)
  PROVE  /\ t \in Seq(S) /\ Len(t) = NewLength(s, u, v)
         /\ t[u + 1] = g
         /\ \A q \in 1..u : t[q] = s[q]
         /\ \A q \in 1..Len(t) : q > u + 1 => q + v - (u + 2) \in v..Len(s) /\ t[q] = s[q + v - (u + 2)]
PROOF
  <1>1. PICK len \in Nat : len = Len(s)
    OBVIOUS
  <1>2. PICK x, y, z : x = SubSeq(s, 1, u) /\ y = SubSeq(s, v, len) /\ z = x \o <<g>>
    OBVIOUS
  <1>3. u \in 0..len /\ v \in (u + 1)..(len + 1)
    BY <1>1
  <1>4. x \in Seq(S) /\ Len(x) = u /\ \A q \in 1..u : x[q] = s[q]
    BY <1>1, <1>2, <1>3, PartOf
  <1>5. y \in Seq(S) /\ Len(y) = len - v + 1 /\ \A q \in 1..(len - v + 1) : y[q] = s[v + q - 1]
    BY <1>1, <1>2, <1>3, PartOf
  <1>6. z \in Seq(S) /\ Len(z) = u + 1 /\ z[u + 1] = g /\ \A q \in 1..u : z[q] = s[q]
    <2>1. u \in Nat
      BY <1>3
    <2>2. PICK d : d = <<g>>
      OBVIOUS
    <2>3. d \in Seq(S) /\ Len(d) = 1 /\ d[1] = g
      BY <2>2
    <2>4. z = x \o d
      BY <1>2, <2>2
    <2>5. /\ z \in Seq(S) /\ Len(z) = Len(x) + Len(d)
          /\ \A q \in 1..(Len(x) + Len(d)) : z[q] = IF q <= Len(x) THEN x[q] ELSE d[q - Len(x)]
      BY <1>4, <2>3, <2>4, Joined, Zenon
    <2>6. Len(z) = u + 1 /\ \A q \in 1..(u + 1) : z[q] = IF q <= u THEN x[q] ELSE d[q - u]
      BY <1>4, <2>3, <2>5
    <2>7. u + 1 \in 1..(u + 1) /\ ~(u + 1 <= u) /\ (u + 1) - u = 1
          /\ \A q \in 1..u : q \in 1..(u + 1) /\ q <= u
      BY <2>1
    <2> QED BY <1>4, <2>3, <2>5, <2>6, <2>7
  <1>7. t = z \o y
    BY <1>1, <1>2 DEF Splicing
  <1>8. /\ t \in Seq(S) /\ Len(t) = Len(z) + Len(y)
        /\ \A q \in 1..(Len(z) + Len(y)) : t[q] = IF q <= Len(z) THEN z[q] ELSE y[q - Len(z)]
    <2>1. z \in Seq(S) /\ y \in Seq(S)
      BY <1>5, <1>6
    <2> QED BY <1>7, <2>1, Joined, Zenon
  <1>9. /\ Len(t) = u + 2 + len - v
        /\ \A q \in 1..(u + 2 + len - v) : t[q] = IF q <= u + 1 THEN z[q] ELSE y[q - (u + 1)]
    BY <1>3, <1>5, <1>6, <1>8
  <1>10. t[u + 1] = g /\ \A q \in 1..u : t[q] = s[q]
    <2>1. u + 1 \in 1..(u + 2 + len - v) /\ u + 1 <= u + 1
          /\ \A q \in 1..u : q \in 1..(u + 2 + len - v) /\ q <= u + 1
      BY <1>3
    <2>2. t[u + 1] = z[u + 1] /\ \A q \in 1..u : t[q] = z[q]
      BY <1>9, <2>1
    <2> QED BY <1>6, <2>2
  <1>11. ASSUME NEW q \in 1..(u + 2 + len - v), q > u + 1
         PROVE  q + v - (u + 2) \in v..len /\ t[q] = s[q + v - (u + 2)]
    <2>1. q - (u + 1) \in 1..(len - v + 1) /\ v + (q - (u + 1)) - 1 = q + v - (u + 2)
          /\ q + v - (u + 2) \in v..len
      BY <1>3, <1>11
    <2>2. t[q] = y[q - (u + 1)]
      BY <1>3, <1>9, <1>11
    <2> QED BY <1>5, <2>1, <2>2
  <1> QED BY <1>1, <1>8, <1>9, <1>10, <1>11 DEF NewLength

\* A block lies in a region; the nodes of a list are in order, with a gap
\* between any two; two blocks do not overlap; an address is in a free node.
Lies(n, i)   == First(i) <= n.addr /\ n.addr + n.size <= First(i) + OneSize
Ordered(s)   == \A p, q \in DOMAIN s : p < q => s[p].addr + s[p].size < s[q].addr
Apart(b, c)  == b.addr + b.size <= c.addr \/ c.addr + c.size <= b.addr
FreeAt(s, a) == \E p \in DOMAIN s : a \in Cells(s[p])
HeldAt(a)    == \E b \in live : a \in Cells(b)

\* A list of a region that is as it should be.
Sound(s, i) == s \in Seq(Ranges) /\ Ordered(s) /\ \A p \in DOMAIN s : Lies(s[p], i)

LEMMA RangeFacts ==
  ASSUME NEW n \in Ranges
  PROVE  /\ n.addr \in Nat /\ n.size \in Nat /\ n.size >= 1 /\ n.size <= OneSize
         /\ \A a : a \in Cells(n) <=> a \in Int /\ n.addr <= a /\ a < n.addr + n.size
PROOF
  <1>1. n.addr \in Nat /\ n.size \in Nat /\ n.size >= 1 /\ n.size <= OneSize
    BY Regions DEF Ranges
  <1> QED BY <1>1 DEF Cells

LEMMA RangeIntro ==
  ASSUME NEW i \in Lists, NEW a \in Int, NEW m \in Int, m >= 1,
         First(i) <= a, a + m <= First(i) + OneSize
  PROVE  [addr |-> a, size |-> m] \in Ranges
PROOF
  <1>1. First(i) \in Nat /\ First(i) + OneSize <= NumLists * OneSize /\ OneSize \in Nat
        /\ NumLists * OneSize \in Nat
    BY Regions
  <1>2. a \in 0..(NumLists * OneSize - 1) /\ m \in 1..OneSize
    BY <1>1
  <1> QED BY <1>2 DEF Ranges

\* Blocks that share no address are apart.
LEMMA ApartBlocks ==
  ASSUME NEW b \in Ranges, NEW c \in Ranges, \A a \in Cells(b) : a \notin Cells(c)
  PROVE  Apart(b, c)
PROOF
  <1>1. CASE b.addr <= c.addr
    <2>1. c.addr \in Cells(c) /\ c.addr \notin Cells(b)
      BY RangeFacts
    <2> QED BY <1>1, <2>1, RangeFacts DEF Apart
  <1>2. CASE c.addr <= b.addr
    <2>1. b.addr \in Cells(b)
      BY RangeFacts
    <2> QED BY <1>2, <2>1, RangeFacts DEF Apart
  <1> QED BY <1>1, <1>2, RangeFacts

\* The largest size of a list.
LEMMA LargestFacts ==
  ASSUME NEW s \in Seq(Ranges)
  PROVE  /\ Largest(s) \in 0..OneSize
         /\ \A p \in DOMAIN s : s[p].size <= Largest(s)
         /\ Largest(s) = 0 \/ \E p \in DOMAIN s : s[p].size = Largest(s)
PROOF
  <1>1. PICK S : S = {0} \cup {s[p].size : p \in DOMAIN s}
    OBVIOUS
  <1>2. \A p \in DOMAIN s : s[p] \in Ranges
    OBVIOUS
  <1>3. \A p \in DOMAIN s : s[p].size \in 0..OneSize
    BY <1>2, RangeFacts, Regions
  <1>4. S \subseteq 0..OneSize /\ S # {}
    BY <1>1, <1>3, Regions
  <1>5. Max(S) \in S /\ \A y \in S : Max(S) >= y
    BY <1>4, GreatestNatural, Regions
  <1>6. Largest(s) = Max(S)
    BY <1>1 DEF Largest
  <1>7. PICK m : m = Max(S)
    OBVIOUS
  <1>8. m \in 0..OneSize
    BY <1>4, <1>5, <1>7
  <1>9. \A p \in DOMAIN s : s[p].size <= m
    BY <1>1, <1>3, <1>5, <1>7, <1>8, Regions
  <1>10. m = 0 \/ \E p \in DOMAIN s : s[p].size = m
    BY <1>1, <1>5, <1>7
  <1> QED BY <1>6, <1>7, <1>8, <1>9, <1>10

LEMMA NodesApart ==
  ASSUME NEW i \in Lists, NEW s, Sound(s, i), NEW p \in DOMAIN s, NEW q \in DOMAIN s, p # q
  PROVE  \A a : ~(a \in Cells(s[p]) /\ a \in Cells(s[q]))
PROOF
  <1>1. s[p] \in Ranges /\ s[q] \in Ranges /\ p \in Int /\ q \in Int
    BY DEF Sound
  <1>2. s[p].addr + s[p].size < s[q].addr \/ s[q].addr + s[q].size < s[p].addr
    BY <1>1 DEF Sound, Ordered
  <1> QED BY <1>1, <1>2, RangeFacts

-----------------------------------------------------------------------------
(* allocate().                                                             *)

\* A node gives its front: the list stays as it should be, and what is not
\* free any more is the block.
LEMMA CutKeeps ==
  ASSUME NEW i \in Lists, NEW s, Sound(s, i), NEW p \in DOMAIN s, NEW n \in Nat, n >= 1,
         n <= s[p].size, NEW b, b = [addr |-> s[p].addr, size |-> n],
         NEW t, t = Cut(s, p, n)
  PROVE  /\ b \in Ranges /\ Lies(b, i) /\ Sound(t, i)
         /\ \A a : FreeAt(t, a) <=> FreeAt(s, a) /\ a \notin Cells(b)
         /\ \A a \in Cells(b) : FreeAt(s, a)
PROOF
  <1>1. /\ s \in Seq(Ranges) /\ DOMAIN s = 1..Len(s) /\ Len(s) \in Nat
        /\ \A q \in DOMAIN s : s[q] \in Ranges /\ Lies(s[q], i)
        /\ Ordered(s)
    BY DEF Sound
  <1>2. PICK m : m = s[p]
    OBVIOUS
  <1>3. /\ m \in Ranges /\ m.addr \in Nat /\ m.size \in Nat /\ n <= m.size
        /\ First(i) <= m.addr /\ m.addr + m.size <= First(i) + OneSize
        /\ First(i) \in Nat /\ OneSize \in Nat
    BY <1>1, <1>2, RangeFacts, Regions DEF Lies
  <1>4. b \in Ranges
    BY <1>2, <1>3, RangeIntro
  <1>5. b.addr = m.addr /\ b.size = n
    BY <1>2
  <1>6. Lies(b, i)
    BY <1>3, <1>5 DEF Lies
  <1>7. \A a \in Cells(b) : a \in Cells(m)
    BY <1>3, <1>4, <1>5, RangeFacts
  <1>8. \A a \in Cells(b) : FreeAt(s, a)
    BY <1>2, <1>7 DEF FreeAt
  <1>9. \A q \in DOMAIN s : q # p => \A a : a \in Cells(s[q]) => a \notin Cells(b)
    BY <1>2, <1>7, NodesApart
  <1>10. CASE m.size = n
    <2>1. t = Dropping(s, p)
      BY <1>2, <1>10 DEF Cut, Dropping
    <2>2. /\ t \in Seq(Ranges) /\ Len(t) = Len(s) - 1
          /\ \A q \in 1..Len(t) : t[q] = s[Came(p, q)]
      <3>1. p \in 1..Len(s)
        BY <1>1
      <3>2. s \in Seq(Ranges)
        BY <1>1
      <3>3. PICK u : u = Dropping(s, p)
        OBVIOUS
      <3>4. u \in Seq(Ranges)
        BY <3>1, <3>2, <3>3, WithoutNode
      <3>5. Len(u) = Len(s) - 1
        BY <3>1, <3>2, <3>3, WithoutNode
      <3>6. \A q \in 1..Len(u) : u[q] = s[Came(p, q)]
        BY <3>1, <3>2, <3>3, WithoutNode
      <3> QED BY <2>1, <3>3, <3>4, <3>5, <3>6, Zenon
    <2>3. DOMAIN t = 1..Len(t) /\ p \in 1..Len(s)
      BY <1>1, <2>2
    <2>4. ASSUME NEW q \in DOMAIN t
          PROVE  \E r \in DOMAIN s : r # p /\ t[q] = s[r]
      <3>1. PICK x : x = Came(p, q)
        OBVIOUS
      <3>2. x \in DOMAIN s /\ x # p
        BY <1>1, <2>2, <2>3, <2>4, <3>1 DEF Came
      <3>3. t[q] = s[x]
        BY <2>2, <2>3, <2>4, <3>1
      <3> QED BY <3>2, <3>3
    <2>5. ASSUME NEW r \in DOMAIN s, r # p
          PROVE  \E q \in DOMAIN t : t[q] = s[r]
      <3>1. CASE r < p
        <4>1. r \in DOMAIN t
          BY <1>1, <2>2, <2>3, <3>1
        <4> QED BY <2>2, <2>3, <3>1, <4>1 DEF Came
      <3>2. CASE p < r
        <4>1. r - 1 \in DOMAIN t /\ ~(r - 1 < p) /\ (r - 1) + 1 = r
          BY <1>1, <2>2, <2>3, <3>2
        <4>2. t[r - 1] = s[(r - 1) + 1]
          BY <2>2, <2>3, <4>1 DEF Came
        <4> QED BY <4>1, <4>2
      <3> QED BY <1>1, <2>5, <3>1, <3>2
    <2>6. Ordered(t)
      <3>1. SUFFICES ASSUME NEW q \in DOMAIN t, NEW r \in DOMAIN t, q < r
                     PROVE  t[q].addr + t[q].size < t[r].addr
        BY DEF Ordered
      <3>2. PICK x, y : x = Came(p, q) /\ y = Came(p, r)
        OBVIOUS
      <3>3. x \in DOMAIN s /\ y \in DOMAIN s /\ x < y
        BY <1>1, <2>2, <2>3, <3>1, <3>2 DEF Came
      <3>4. t[q] = s[x] /\ t[r] = s[y]
        BY <2>2, <2>3, <3>2
      <3> QED BY <1>1, <3>3, <3>4 DEF Ordered
    <2>7. Sound(t, i)
      BY <1>1, <2>2, <2>4, <2>6 DEF Sound
    <2>8. \A a : a \in Cells(m) <=> a \in Cells(b)
      BY <1>3, <1>4, <1>5, <1>10, RangeFacts
    <2>9. \A a : FreeAt(t, a) <=> FreeAt(s, a) /\ a \notin Cells(b)
      BY <1>2, <1>9, <2>4, <2>5, <2>8 DEF FreeAt
    <2> QED BY <1>4, <1>6, <1>8, <2>7, <2>9
  <1>11. CASE m.size # n
    <2>1. PICK c : c = [addr |-> m.addr + n, size |-> m.size - n]
      OBVIOUS
    <2>2. t = [s EXCEPT ![p] = c]
      BY <1>2, <1>11, <2>1 DEF Cut
    <2>3. c.addr = m.addr + n /\ c.size = m.size - n
      BY <2>1
    <2>4. c \in Ranges
      <3>1. /\ m.addr + n \in Int /\ m.size - n \in Int /\ m.size - n >= 1
            /\ First(i) <= m.addr + n /\ (m.addr + n) + (m.size - n) <= First(i) + OneSize
        BY <1>3, <1>11
      <3> QED BY <2>1, <3>1, RangeIntro
    <2>5. Lies(c, i)
      BY <1>3, <2>3 DEF Lies
    <2>6. /\ t \in Seq(Ranges) /\ DOMAIN t = DOMAIN s /\ t[p] = c
          /\ \A q \in DOMAIN s : q # p => t[q] = s[q]
      BY <1>1, <2>2, <2>4
    <2>7. Ordered(t)
      <3>1. SUFFICES ASSUME NEW q \in DOMAIN s, NEW r \in DOMAIN s, q < r
                     PROVE  t[q].addr + t[q].size < t[r].addr
        BY <2>6 DEF Ordered
      <3>2. s[q].addr + s[q].size < s[r].addr /\ q # r
        BY <1>1, <3>1 DEF Ordered
      <3>3. s[q] \in Ranges /\ s[r] \in Ranges
        BY <1>1
      <3>4. CASE q = p
        BY <1>2, <1>3, <2>3, <2>6, <3>2, <3>3, <3>4, RangeFacts
      <3>5. CASE r = p
        <4>1. t[r] = c /\ t[q] = s[q] /\ s[r] = m
          BY <1>2, <2>6, <3>2, <3>5
        <4>2. s[q].addr + s[q].size < m.addr /\ s[q].addr \in Int /\ s[q].size \in Int
          BY <3>2, <3>3, <4>1, RangeFacts
        <4>3. s[q].addr + s[q].size < c.addr
          BY <1>3, <2>3, <4>2
        <4> QED BY <4>1, <4>3
      <3> QED BY <2>6, <3>2, <3>4, <3>5
    <2>8. Sound(t, i)
      BY <1>1, <2>5, <2>6, <2>7 DEF Sound
    <2>9. \A a : a \in Cells(c) <=> a \in Cells(m) /\ a \notin Cells(b)
      BY <1>3, <1>4, <1>5, <2>3, <2>4, RangeFacts
    <2>10. \A a : FreeAt(t, a) <=> FreeAt(s, a) /\ a \notin Cells(b)
      BY <1>2, <1>9, <2>6, <2>9 DEF FreeAt
    <2> QED BY <1>4, <1>6, <1>8, <2>8, <2>10
  <1> QED BY <1>10, <1>11

-----------------------------------------------------------------------------
(* deallocate().                                                           *)

\* The nodes before a block are the first ones of the list.
LEMMA BeforeFacts ==
  ASSUME NEW i \in Lists, NEW s, Sound(s, i), NEW b \in Ranges
  PROVE  /\ Before(s, b) \in 0..Len(s)
         /\ \A p \in DOMAIN s : s[p].addr <= b.addr <=> p <= Before(s, b)
PROOF
  <1>1. PICK len \in Nat : len = Len(s) /\ DOMAIN s = 1..len
    BY DEF Sound
  <1>2. \A p \in 1..len : s[p] \in Ranges
    BY <1>1 DEF Sound
  <1>3. PICK S : S = {p \in DOMAIN s : s[p].addr <= b.addr}
    OBVIOUS
  <1>4. Before(s, b) = Cardinality(S)
    BY <1>3 DEF Before
  <1>5. CASE S = {}
    <2>1. Cardinality(S) = 0
      BY <1>5, FS_EmptySet
    <2>2. Before(s, b) = 0
      BY <1>4, <2>1
    <2>3. \A p \in DOMAIN s : ~(s[p].addr <= b.addr)
      BY <1>3, <1>5
    <2>4. 0 \in 0..len /\ \A p \in DOMAIN s : s[p].addr <= b.addr <=> p <= 0
      BY <1>1, <2>3
    <2> QED BY <1>1, <2>2, <2>4
  <1>6. CASE S # {}
    <2>1. S \subseteq 0..len
      BY <1>1, <1>3
    <2>2. PICK m \in S : \A y \in S : m >= y
      BY <1>6, <2>1, GreatestNatural
    <2>3. m \in 1..len /\ s[m].addr <= b.addr
      BY <1>1, <1>3, <2>2
    <2>4. ASSUME NEW p \in 1..len
          PROVE  s[p].addr <= b.addr <=> p <= m
      <3>1. CASE p > m
        BY <1>1, <1>3, <2>2, <2>3, <3>1
      <3>2. CASE p = m
        BY <2>3, <3>2
      <3>3. CASE p < m
        <4>1. s[p].addr + s[p].size < s[m].addr
          BY <1>1, <2>3, <3>3 DEF Sound, Ordered
        <4>2. s[p] \in Ranges /\ s[m] \in Ranges
          BY <1>2, <2>3
        <4> QED BY <2>3, <3>3, <4>1, <4>2, RangeFacts
      <3> QED BY <2>3, <3>1, <3>2, <3>3
    <2>5. S = 1..m
      BY <1>1, <1>3, <2>3, <2>4
    <2>6. Cardinality(S) = m
      BY <2>3, <2>5, FS_Interval
    <2> QED BY <1>1, <1>4, <2>3, <2>4, <2>6
  <1> QED BY <1>5, <1>6

\* A node takes the place of those between u and v.
LEMMA SpliceKeeps ==
  ASSUME NEW i \in Lists, NEW s, Sound(s, i), NEW g \in Ranges, Lies(g, i),
         NEW u \in 0..Len(s), NEW v \in (u + 1)..(Len(s) + 1),
         \A p \in DOMAIN s : p <= u => s[p].addr + s[p].size < g.addr,
         \A p \in DOMAIN s : p >= v => g.addr + g.size < s[p].addr,
         NEW t, t = Splicing(s, u, g, v)
  PROVE  /\ Sound(t, i)
         /\ \E q \in DOMAIN t : t[q] = g
         /\ \A p \in DOMAIN s : p <= u \/ p >= v => \E q \in DOMAIN t : t[q] = s[p]
         /\ \A q \in DOMAIN t : t[q] = g \/ \E p \in DOMAIN s : (p <= u \/ p >= v) /\ t[q] = s[p]
PROOF
  <1>1. PICK len \in Nat : len = Len(s) /\ DOMAIN s = 1..len
    BY DEF Sound
  <1>2. s \in Seq(Ranges) /\ u \in 0..len /\ v \in (u + 1)..(len + 1)
    BY <1>1 DEF Sound
  <1>3. t \in Seq(Ranges) /\ Len(t) = u + 2 + len - v
    <2>1. t \in Seq(Ranges)
      BY <1>2, WithNode
    <2>2. Len(t) = u + 2 + Len(s) - v
      <3>1. s \in Seq(Ranges)
        BY <1>2
      <3>2. Len(t) = NewLength(s, u, v)
        BY <3>1, WithNode
      <3> QED BY <3>2 DEF NewLength
    <2> QED BY <1>1, <2>1, <2>2
  <1>4. t[u + 1] = g
    BY <1>2, WithNode
  <1>5. \A q \in 1..u : t[q] = s[q]
    BY <1>2, WithNode
  <1>6. \A q \in 1..Len(t) : q > u + 1 => q + v - (u + 2) \in v..len /\ t[q] = s[q + v - (u + 2)]
    BY <1>1, <1>2, WithNode
  <1>7. DOMAIN t = 1..(u + 2 + len - v)
    BY <1>3
  <1>8. ASSUME NEW p \in 1..len, p <= u \/ p >= v
        PROVE  \E q \in DOMAIN t : t[q] = s[p]
    <2>1. CASE p <= u
      <3>1. p \in DOMAIN t /\ p \in 1..u
        BY <1>2, <1>7, <2>1
      <3> QED BY <1>5, <3>1
    <2>2. CASE p >= v
      <3>1. PICK q \in Int : q = p - v + u + 2
        BY <1>2
      <3>2. q \in 1..(u + 2 + len - v) /\ q > u + 1 /\ q + v - (u + 2) = p
        BY <1>2, <2>2, <3>1
      <3> QED BY <1>3, <1>6, <1>7, <3>2
    <2> QED BY <1>8, <2>1, <2>2
  <1>9. ASSUME NEW q \in DOMAIN t
        PROVE  \/ q <= u /\ q \in 1..len /\ t[q] = s[q]
               \/ q = u + 1 /\ t[q] = g
               \/ q > u + 1 /\ q + v - (u + 2) \in 1..len /\ q + v - (u + 2) >= v
                  /\ t[q] = s[q + v - (u + 2)]
    <2>1. q \in 1..Len(t) /\ q \in Int
      BY <1>2, <1>3
    <2>2. CASE q <= u
      BY <1>2, <1>5, <2>1, <2>2
    <2>3. CASE q = u + 1
      BY <1>4, <2>3
    <2>4. CASE q > u + 1
      BY <1>2, <1>6, <2>1, <2>4
    <2> QED BY <1>2, <2>1, <2>2, <2>3, <2>4
  <1>10. \A q \in DOMAIN t : t[q] = g \/ \E p \in DOMAIN s : (p <= u \/ p >= v) /\ t[q] = s[p]
    BY <1>1, <1>9
  <1>11. \E q \in DOMAIN t : t[q] = g
    <2>1. u + 1 \in DOMAIN t
      BY <1>2, <1>7
    <2> QED BY <1>4, <2>1
  <1>12. ASSUME NEW q \in DOMAIN t, NEW r \in DOMAIN t, q < r
         PROVE  t[q].addr + t[q].size < t[r].addr
    <2>1. q \in Int /\ r \in Int
      BY <1>7
    <2>2. \A x, y \in 1..len : x < y => s[x].addr + s[x].size < s[y].addr
      BY <1>1 DEF Sound, Ordered
    <2>3. \A x \in 1..len : /\ x <= u => s[x].addr + s[x].size < g.addr
                            /\ x >= v => g.addr + g.size < s[x].addr
      BY <1>1
    <2>4. CASE q <= u
      <3>1. q \in 1..len /\ t[q] = s[q]
        BY <1>9, <2>1, <2>4, <1>2
      <3>2. CASE r <= u
        BY <1>9, <1>12, <2>1, <2>2, <3>1, <3>2, <1>2
      <3>3. CASE r = u + 1
        BY <1>4, <2>3, <2>4, <3>1, <3>3
      <3>4. CASE r > u + 1
        BY <1>2, <1>9, <2>1, <2>2, <2>4, <3>1, <3>4
      <3> QED BY <1>2, <2>1, <3>2, <3>3, <3>4
    <2>5. CASE q = u + 1
      BY <1>2, <1>4, <1>9, <1>12, <2>1, <2>3, <2>5
    <2>6. CASE q > u + 1
      BY <1>2, <1>9, <1>12, <2>1, <2>2, <2>6
    <2> QED BY <1>2, <2>1, <2>4, <2>5, <2>6
  <1>13. \A q \in DOMAIN t : Lies(t[q], i)
    BY <1>10 DEF Sound
  <1>14. Sound(t, i)
    BY <1>3, <1>12, <1>13 DEF Sound, Ordered
  <1> QED BY <1>1, <1>8, <1>10, <1>11, <1>14

\* A block that is given back meets no node: those before it end before it
\* begins, the others begin after it ends.
LEMMA NeighboursApart ==
  ASSUME NEW i \in Lists, NEW s, Sound(s, i), NEW b \in Ranges,
         \A a \in Cells(b) : ~FreeAt(s, a), NEW q, q = Before(s, b)
  PROVE  /\ q \in 0..Len(s)
         /\ \A p \in DOMAIN s : p <= q => s[p].addr + s[p].size <= b.addr
         /\ \A p \in DOMAIN s : p > q => b.addr + b.size <= s[p].addr
PROOF
  <1>1. q \in 0..Len(s) /\ \A p \in DOMAIN s : s[p].addr <= b.addr <=> p <= q
    BY BeforeFacts
  <1>2. ASSUME NEW p \in DOMAIN s
        PROVE  /\ p <= q => s[p].addr + s[p].size <= b.addr
               /\ p > q => b.addr + b.size <= s[p].addr
    <2>1. s[p] \in Ranges /\ p \in Int /\ q \in Int
      BY <1>1 DEF Sound
    <2>2. \A a \in Cells(b) : a \notin Cells(s[p])
      BY DEF FreeAt
    <2>3. Apart(b, s[p])
      BY <2>1, <2>2, ApartBlocks
    <2>4. PICK n : n = s[p]
      OBVIOUS
    <2>5. /\ n.addr \in Nat /\ n.size \in Nat /\ n.size >= 1
          /\ b.addr \in Nat /\ b.size \in Nat /\ b.size >= 1
      BY <2>1, <2>4, RangeFacts
    <2>6. n.addr <= b.addr <=> p <= q
      BY <1>1, <2>4
    <2>7. b.addr + b.size <= n.addr \/ n.addr + n.size <= b.addr
      BY <2>3, <2>4 DEF Apart
    <2>8. /\ p <= q => n.addr + n.size <= b.addr
          /\ p > q => b.addr + b.size <= n.addr
      BY <2>1, <2>5, <2>6, <2>7
    <2> QED BY <2>4, <2>8
  <1> QED BY <1>1, <1>2

\* What the block becomes, on its left and on its right.
LEMMA GrownFacts ==
  ASSUME NEW i \in Lists, NEW s, Sound(s, i), NEW b \in Ranges,
         \A a \in Cells(b) : ~FreeAt(s, a), NEW q, q = Before(s, b), NEW g, g = Grown(s, b),
         NEW e, e = g.addr + g.size
  PROVE  /\ g.addr \in Int /\ g.size \in Int /\ e \in Int
         /\ TouchesPrev(s, b) => /\ q \in DOMAIN s /\ g.addr = s[q].addr
                                 /\ s[q].addr + s[q].size = b.addr
         /\ ~TouchesPrev(s, b) => /\ g.addr = b.addr
                                  /\ q \in DOMAIN s => s[q].addr + s[q].size # b.addr
         /\ TouchesNext(s, b) => /\ q + 1 \in DOMAIN s /\ e = s[q + 1].addr + s[q + 1].size
                                 /\ b.addr + b.size = s[q + 1].addr
         /\ ~TouchesNext(s, b) => /\ e = b.addr + b.size
                                  /\ q + 1 \in DOMAIN s => b.addr + b.size # s[q + 1].addr
PROOF
  <1>1. PICK len \in Nat : len = Len(s) /\ DOMAIN s = 1..len
    BY DEF Sound
  <1>2. q \in 0..len
    BY <1>1, NeighboursApart
  <1>3. \A p \in 1..len : s[p].addr \in Int /\ s[p].size \in Int
    <2>1. \A p \in 1..len : s[p] \in Ranges
      BY <1>1 DEF Sound
    <2> QED BY <2>1, RangeFacts
  <1>4. b.addr \in Int /\ b.size \in Int
    BY RangeFacts
  <1>5. TouchesPrev(s, b) <=> q > 0 /\ s[q].addr + s[q].size = b.addr
    BY DEF TouchesPrev
  <1>6. TouchesNext(s, b) <=> q < len /\ b.addr + b.size = s[q + 1].addr
    BY <1>1 DEF TouchesNext
  <1>7. PICK x, y : /\ x = (IF TouchesPrev(s, b) THEN s[q].size ELSE 0)
                    /\ y = (IF TouchesNext(s, b) THEN s[q + 1].size ELSE 0)
    OBVIOUS
  <1>8. g.addr = (IF TouchesPrev(s, b) THEN s[q].addr ELSE b.addr) /\ g.size = b.size + x + y
    BY <1>7 DEF Grown
  <1>9. TouchesPrev(s, b) => q \in 1..len /\ g.addr = s[q].addr /\ s[q].addr + s[q].size = b.addr /\ x = s[q].size
    BY <1>2, <1>5, <1>7, <1>8
  <1>10. ~TouchesPrev(s, b) => g.addr = b.addr /\ x = 0 /\ (q \in 1..len => s[q].addr + s[q].size # b.addr)
    BY <1>2, <1>5, <1>7, <1>8
  <1>11. TouchesNext(s, b) => q + 1 \in 1..len /\ b.addr + b.size = s[q + 1].addr /\ y = s[q + 1].size
    BY <1>2, <1>6, <1>7
  <1>12. ~TouchesNext(s, b) => y = 0 /\ (q + 1 \in 1..len => b.addr + b.size # s[q + 1].addr)
    BY <1>2, <1>6, <1>7
  <1>13. x \in Int /\ y \in Int /\ g.addr \in Int
    BY <1>3, <1>4, <1>9, <1>10, <1>11, <1>12
  <1>14. g.addr + x = b.addr
    <2>1. CASE TouchesPrev(s, b)
      BY <1>3, <1>9, <2>1
    <2>2. CASE ~TouchesPrev(s, b)
      BY <1>4, <1>10, <2>2
    <2> QED BY <2>1, <2>2
  <1>15. g.size \in Int /\ e \in Int /\ e = b.addr + b.size + y
    BY <1>4, <1>8, <1>13, <1>14
  <1>16. TouchesNext(s, b) => e = s[q + 1].addr + s[q + 1].size
    BY <1>11, <1>15
  <1>17. ~TouchesNext(s, b) => e = b.addr + b.size
    BY <1>4, <1>12, <1>15
  <1> QED BY <1>1, <1>9, <1>10, <1>11, <1>12, <1>13, <1>15, <1>16, <1>17

\* Every node of s has one of t that is as large.
NoneShrank(s, t) == \A p \in DOMAIN s : \E x \in DOMAIN t : t[x].size >= s[p].size

\* A block comes back: the list stays as it should be, what is free is what
\* was and the block, and no size is lost.
LEMMA FilledKeeps ==
  ASSUME NEW i \in Lists, NEW s, Sound(s, i), NEW b \in Ranges, Lies(b, i),
         \A a \in Cells(b) : ~FreeAt(s, a), NEW t, t = Filled(s, b)
  PROVE  /\ Sound(t, i)
         /\ \A a : FreeAt(t, a) <=> FreeAt(s, a) \/ a \in Cells(b)
         /\ Grown(s, b) \in Ranges /\ \E x \in DOMAIN t : t[x] = Grown(s, b)
         /\ NoneShrank(s, t)
PROOF
  <1>1. PICK len \in Nat : len = Len(s) /\ DOMAIN s = 1..len
    BY DEF Sound
  <1>2. /\ s \in Seq(Ranges)
        /\ \A p \in 1..len : s[p] \in Ranges /\ Lies(s[p], i)
        /\ \A p, x \in 1..len : p < x => s[p].addr + s[p].size < s[x].addr
    BY <1>1 DEF Sound, Ordered
  <1>3. \A p \in 1..len : s[p].addr \in Nat /\ s[p].size \in Nat /\ s[p].size >= 1
    BY <1>2, RangeFacts
  <1>4. PICK q, g, e : q = Before(s, b) /\ g = Grown(s, b) /\ e = g.addr + g.size
    OBVIOUS
  <1>5. /\ q \in 0..len
        /\ \A p \in 1..len : p <= q => s[p].addr + s[p].size <= b.addr
        /\ \A p \in 1..len : p > q => b.addr + b.size <= s[p].addr
    BY <1>1, <1>4, NeighboursApart
  <1>6. /\ b.addr \in Nat /\ b.size \in Nat /\ b.size >= 1
        /\ First(i) \in Nat /\ OneSize \in Nat
        /\ First(i) <= b.addr /\ b.addr + b.size <= First(i) + OneSize
    BY RangeFacts, Regions DEF Lies
  <1>7. PICK u, v : /\ u = (IF TouchesPrev(s, b) THEN q - 1 ELSE q)
                    /\ v = (IF TouchesNext(s, b) THEN q + 2 ELSE q + 1)
    OBVIOUS
  <1>8. g.addr \in Int /\ g.size \in Int /\ e \in Int
    BY <1>4, GrownFacts
  <1>9. \/ /\ u = q - 1 /\ q \in 1..len /\ g.addr = s[q].addr /\ s[q].addr + s[q].size = b.addr
        \/ /\ u = q /\ g.addr = b.addr
           /\ q \in 1..len => s[q].addr + s[q].size # b.addr
    BY <1>1, <1>4, <1>7, GrownFacts
  <1>10. \/ /\ v = q + 2 /\ q + 1 \in 1..len /\ e = s[q + 1].addr + s[q + 1].size
            /\ b.addr + b.size = s[q + 1].addr
         \/ /\ v = q + 1 /\ e = b.addr + b.size
            /\ q + 1 \in 1..len => b.addr + b.size # s[q + 1].addr
    BY <1>1, <1>4, <1>7, GrownFacts
  <1>11. u \in 0..len /\ v \in (u + 1)..(len + 1) /\ u <= q /\ q < v /\ u \in Int /\ v \in Int
    BY <1>5, <1>9, <1>10
  <1>12. ASSUME NEW p \in 1..len, p <= u
         PROVE  s[p].addr + s[p].size < g.addr
    <2>1. CASE u = q - 1 /\ q \in 1..len /\ g.addr = s[q].addr
      BY <1>2, <1>5, <1>12, <2>1
    <2>2. CASE u = q /\ g.addr = b.addr /\ (q \in 1..len => s[q].addr + s[q].size # b.addr)
      <3>1. q \in 1..len /\ s[p].addr + s[p].size <= b.addr
        BY <1>5, <1>12, <2>2
      <3>2. CASE p = q
        BY <1>3, <1>6, <2>2, <3>1, <3>2
      <3>3. CASE p < q
        <4>1. s[p].addr + s[p].size < s[q].addr /\ s[q].addr <= b.addr
          <5>1. s[p].addr + s[p].size < s[q].addr
            BY <1>2, <3>1, <3>3
          <5>2. s[q].addr + s[q].size <= b.addr
            BY <1>5, <3>1
          <5>3. s[q].addr \in Nat /\ s[q].size \in Nat
            BY <1>3, <3>1
          <5> QED BY <1>6, <5>1, <5>2, <5>3
        <4> QED BY <1>3, <1>6, <2>2, <3>1, <4>1
      <3> QED BY <1>5, <1>12, <2>2, <3>2, <3>3
    <2> QED BY <1>9, <2>1, <2>2
  <1>13. ASSUME NEW p \in 1..len, p >= v
         PROVE  e < s[p].addr
    <2>1. CASE v = q + 2 /\ q + 1 \in 1..len /\ e = s[q + 1].addr + s[q + 1].size
      BY <1>2, <1>5, <1>13, <2>1
    <2>2. CASE v = q + 1 /\ e = b.addr + b.size /\ (q + 1 \in 1..len => b.addr + b.size # s[q + 1].addr)
      <3>1. q + 1 \in 1..len /\ b.addr + b.size <= s[p].addr
        BY <1>5, <1>13, <2>2
      <3>2. CASE p = q + 1
        BY <1>3, <1>6, <2>2, <3>1, <3>2
      <3>3. CASE p > q + 1
        <4>1. s[q + 1].addr + s[q + 1].size < s[p].addr /\ b.addr + b.size <= s[q + 1].addr
          BY <1>2, <1>5, <3>1, <3>3
        <4> QED BY <1>3, <1>6, <2>2, <3>1, <4>1
      <3> QED BY <1>5, <1>13, <2>2, <3>2, <3>3
    <2> QED BY <1>10, <2>1, <2>2
  <1>14. First(i) <= g.addr /\ g.addr <= b.addr
    BY <1>2, <1>3, <1>6, <1>9 DEF Lies
  <1>15. e <= First(i) + OneSize /\ b.addr + b.size <= e
    BY <1>2, <1>3, <1>6, <1>10 DEF Lies
  <1>16. g = [addr |-> g.addr, size |-> g.size]
    BY <1>4 DEF Grown
  <1>17. g \in Ranges
    <2>1. g.size >= 1
      BY <1>4, <1>6, <1>8, <1>14, <1>15
    <2> QED BY <1>4, <1>8, <1>14, <1>15, <1>16, <2>1, RangeIntro
  <1>18. Lies(g, i)
    BY <1>4, <1>14, <1>15 DEF Lies
  <1>19. t = Splicing(s, u, g, v)
    BY <1>4, <1>7 DEF Filled, Splicing
  <1>20. /\ Sound(t, i)
         /\ \E x \in DOMAIN t : t[x] = g
         /\ \A p \in DOMAIN s : p <= u \/ p >= v => \E x \in DOMAIN t : t[x] = s[p]
         /\ \A x \in DOMAIN t : t[x] = g \/ \E p \in DOMAIN s : (p <= u \/ p >= v) /\ t[x] = s[p]
    <2>1. u \in 0..Len(s) /\ v \in (u + 1)..(Len(s) + 1)
      BY <1>1, <1>11
    <2>2. \A p \in DOMAIN s : p <= u => s[p].addr + s[p].size < g.addr
      BY <1>1, <1>12
    <2>3. \A p \in DOMAIN s : p >= v => g.addr + g.size < s[p].addr
      BY <1>1, <1>4, <1>13
    <2>4. Sound(t, i)
      BY <1>17, <1>18, <1>19, <2>1, <2>2, <2>3, SpliceKeeps
    <2>5. \E x \in DOMAIN t : t[x] = g
      BY <1>17, <1>18, <1>19, <2>1, <2>2, <2>3, SpliceKeeps
    <2>6. \A p \in DOMAIN s : p <= u \/ p >= v => \E x \in DOMAIN t : t[x] = s[p]
      BY <1>17, <1>18, <1>19, <2>1, <2>2, <2>3, SpliceKeeps
    <2>7. \A x \in DOMAIN t : t[x] = g \/ \E p \in DOMAIN s : (p <= u \/ p >= v) /\ t[x] = s[p]
      BY <1>17, <1>18, <1>19, <2>1, <2>2, <2>3, SpliceKeeps
    <2> QED BY <2>4, <2>5, <2>6, <2>7
  <1>21. ASSUME NEW p \in 1..len, ~(p <= u), ~(p >= v)
         PROVE  g.addr <= s[p].addr /\ s[p].addr + s[p].size <= e
    <2>1. p = q \/ p = q + 1
      BY <1>5, <1>9, <1>10, <1>11, <1>21
    <2>2. CASE p = q
      BY <1>3, <1>5, <1>6, <1>9, <1>15, <1>21, <2>2, <1>8
    <2>3. CASE p = q + 1
      BY <1>3, <1>5, <1>6, <1>10, <1>14, <1>21, <2>3, <1>8
    <2> QED BY <2>1, <2>2, <2>3
  <1>22. \A a : a \in Cells(g) <=> a \in Int /\ g.addr <= a /\ a < e
    BY <1>4, <1>17, RangeFacts
  <1>23. \A a : a \in Cells(b) <=> a \in Int /\ b.addr <= a /\ a < b.addr + b.size
    BY RangeFacts
  <1>24. \A p \in 1..len : \A a : a \in Cells(s[p]) <=> a \in Int /\ s[p].addr <= a /\ a < s[p].addr + s[p].size
    BY <1>2, RangeFacts
  <1>25. \A a : a \in Cells(b) => a \in Cells(g)
    BY <1>6, <1>8, <1>14, <1>15, <1>22, <1>23
  <1>26. ASSUME NEW p \in 1..len, ~(p <= u), ~(p >= v)
         PROVE  s[p].size <= g.size /\ \A a : a \in Cells(s[p]) => a \in Cells(g)
    <2>1. g.addr <= s[p].addr /\ s[p].addr + s[p].size <= e
      BY <1>21, <1>26
    <2> QED BY <1>3, <1>4, <1>8, <1>22, <1>24, <2>1
  <1>27. ASSUME NEW a \in Cells(g)
         PROVE  FreeAt(s, a) \/ a \in Cells(b)
    <2>1. a \in Int /\ g.addr <= a /\ a < e
      BY <1>22
    <2>2. CASE a < b.addr
      <3>1. q \in 1..len /\ g.addr = s[q].addr /\ s[q].addr + s[q].size = b.addr
        BY <1>6, <1>8, <1>9, <2>1, <2>2
      <3>2. a \in Cells(s[q])
        BY <1>24, <2>1, <2>2, <3>1
      <3> QED BY <1>1, <3>1, <3>2 DEF FreeAt
    <2>3. CASE a >= b.addr + b.size
      <3>1. q + 1 \in 1..len /\ e = s[q + 1].addr + s[q + 1].size /\ b.addr + b.size = s[q + 1].addr
        BY <1>6, <1>8, <1>10, <2>1, <2>3
      <3>2. a \in Cells(s[q + 1])
        BY <1>24, <2>1, <2>3, <3>1
      <3> QED BY <1>1, <3>1, <3>2 DEF FreeAt
    <2> QED BY <1>6, <1>23, <2>1, <2>2, <2>3
  <1>28. ASSUME NEW a
         PROVE  FreeAt(t, a) <=> FreeAt(s, a) \/ a \in Cells(b)
    <2>1. ASSUME FreeAt(t, a)
          PROVE  FreeAt(s, a) \/ a \in Cells(b)
      BY <1>20, <1>27, <2>1 DEF FreeAt
    <2>2. ASSUME a \in Cells(g)
          PROVE  FreeAt(t, a)
      BY <1>20, <2>2 DEF FreeAt
    <2>3. ASSUME NEW p \in 1..len, a \in Cells(s[p])
          PROVE  FreeAt(t, a)
      <3>1. CASE p <= u \/ p >= v
        BY <1>1, <1>20, <2>3, <3>1 DEF FreeAt
      <3>2. CASE ~(p <= u) /\ ~(p >= v)
        BY <1>26, <2>2, <2>3, <3>2
      <3> QED BY <3>1, <3>2
    <2> QED BY <1>1, <1>25, <2>1, <2>2, <2>3 DEF FreeAt
  <1>29. ASSUME NEW p \in 1..len
         PROVE  \E x \in DOMAIN t : t[x].size >= s[p].size
    <2>1. CASE p <= u \/ p >= v
      BY <1>1, <1>3, <1>20, <2>1
    <2>2. CASE ~(p <= u) /\ ~(p >= v)
      BY <1>3, <1>8, <1>20, <1>26, <2>2
    <2> QED BY <2>1, <2>2
  <1>30. NoneShrank(s, t)
    BY <1>1, <1>29 DEF NoneShrank
  <1> QED BY <1>4, <1>17, <1>20, <1>28, <1>30

-----------------------------------------------------------------------------
(* The pool.                                                               *)

\* The addresses of a block are those of its region, and of no other.
LEMMA CellsInRegion ==
  ASSUME NEW i \in Lists, NEW b \in Ranges, Lies(b, i)
  PROVE  /\ \A a \in Cells(b) : a \in Region(i)
         /\ \A j \in Lists : j # i => \A a \in Region(j) : a \notin Cells(b)
         /\ b.addr \in Cells(b)
PROOF
  <1>1. /\ b.addr \in Nat /\ b.size \in Nat /\ b.size >= 1
        /\ \A a : a \in Cells(b) <=> a \in Int /\ b.addr <= a /\ a < b.addr + b.size
    BY RangeFacts
  <1>2. First(i) <= b.addr /\ b.addr + b.size <= First(i) + OneSize
    BY DEF Lies
  <1>3. OneSize \in Nat /\ \A j \in Lists : /\ j \in Nat /\ First(j) \in Nat
                                            /\ Region(j) = First(j)..(First(j) + OneSize - 1)
    BY Regions
  <1>4. \A a \in Cells(b) : a \in Region(i)
    BY <1>1, <1>2, <1>3
  <1>5. ASSUME NEW j \in Lists, j # i, NEW a \in Region(j)
        PROVE  a \notin Cells(b)
    <2>1. First(i) + OneSize <= First(j) \/ First(j) + OneSize <= First(i)
      <3>1. i < j \/ j < i
        BY <1>3, <1>5
      <3> QED BY <3>1, Regions
    <2> QED BY <1>1, <1>2, <1>3, <2>1
  <1>6. b.addr \in Cells(b)
    BY <1>1
  <1> QED BY <1>4, <1>5, <1>6

\* Each fit takes a node that is large enough, when there is one.
LEMMA ChosenIsLarge ==
  ASSUME fit \in Fits, NEW s \in Seq(Ranges), NEW n \in Nat, n >= 1, n <= Largest(s)
  PROVE  Chosen(s, n) \in DOMAIN s /\ n <= s[Chosen(s, n)].size
PROOF
  <1>1. \A p \in DOMAIN s : p \in Nat /\ s[p] \in Ranges
    OBVIOUS
  <1>2. \A p \in DOMAIN s : s[p].size \in 0..OneSize
    BY <1>1, RangeFacts, Regions
  <1>3. PICK L : L = Large(s, n)
    OBVIOUS
  <1>4. \A p \in L : p \in DOMAIN s /\ n <= s[p].size
    BY <1>2, <1>3, Regions DEF Large
  <1>5. L \in SUBSET Nat /\ L # {}
    <2>1. PICK p \in DOMAIN s : s[p].size = Largest(s)
      BY LargestFacts
    <2>2. p \in L
      BY <1>2, <1>3, <2>1, Regions DEF Large
    <2> QED BY <1>1, <1>4, <2>2
  <1>6. PICK O : O = Offers(s, n)
    OBVIOUS
  <1>7. O = {s[p].size : p \in L}
    BY <1>3, <1>6 DEF Offers
  <1>8. O \in SUBSET Nat /\ O # {} /\ O \subseteq 0..OneSize
    <2>1. O # {}
      BY <1>5, <1>7
    <2>2. O \subseteq 0..OneSize
      BY <1>2, <1>4, <1>7
    <2>3. O \subseteq Nat
      BY <2>2, Regions
    <2> QED BY <2>1, <2>2, <2>3
  <1>9. ASSUME NEW m \in O, NEW c, c = Min({p \in L : s[p].size = m})
        PROVE  c \in L
    <2>1. {p \in L : s[p].size = m} \in SUBSET Nat /\ {p \in L : s[p].size = m} # {}
      BY <1>5, <1>7
    <2> QED BY <1>9, <2>1, LeastNatural
  <1>10. FirstFit(s, n) \in L
    BY <1>3, <1>5, LeastNatural DEF FirstFit
  <1>11. BestFit(s, n) \in L
    <2>1. Min(O) \in O
      BY <1>8, LeastNatural
    <2> QED BY <1>3, <1>6, <1>9, <2>1 DEF BestFit
  <1>12. WorstFit(s, n) \in L
    <2>1. Max(O) \in O
      BY <1>8, GreatestNatural, Regions
    <2> QED BY <1>3, <1>6, <1>9, <2>1 DEF WorstFit
  <1>13. Chosen(s, n) \in L
    BY <1>10, <1>11, <1>12 DEF Chosen, Fits
  <1> QED BY <1>4, <1>13

\* What every step keeps.
Placed      == \A b \in live : \E i \in Lists : Lies(b, i)
LentApart   == \A b, c \in live : b # c => Apart(b, c)
FreeOrLent  == \A i \in Lists : \A a \in Region(i) : FreeAt(lists[i], a) <=> ~HeldAt(a)
AllSound    == \A i \in Lists : Sound(lists[i], i)
PoolInv     == PoolTypeOK /\ MaxSizeKept /\ AllSound /\ Placed /\ LentApart /\ FreeOrLent

LEMMA PoolInitInv == PoolInit => PoolInv
PROOF
  <1> SUFFICES ASSUME PoolInit PROVE PoolInv
    OBVIOUS
  <1>1. fit \in Fits /\ live = {} /\ maxSize = [i \in Lists |-> OneSize]
    BY DEF PoolInit
  <1>2. ASSUME NEW i \in Lists
        PROVE  /\ Sound(lists[i], i) /\ Largest(lists[i]) >= OneSize
               /\ \A a \in Region(i) : FreeAt(lists[i], a)
    <2>1. PICK n : n = [addr |-> First(i), size |-> OneSize]
      OBVIOUS
    <2>2. n.addr = First(i) /\ n.size = OneSize
      BY <2>1
    <2>3. lists[i] = <<n>>
      BY <2>1 DEF PoolInit, First
    <2>4. First(i) \in Int /\ OneSize \in Int /\ OneSize >= 1
      BY Regions
    <2>5. n \in Ranges
      BY <2>1, <2>4, RangeIntro
    <2>6. PICK s : s = <<n>>
      OBVIOUS
    <2>7. s \in Seq(Ranges) /\ DOMAIN s = {1} /\ s[1] = n
      BY <2>5, <2>6
    <2>8. Lies(n, i)
      BY <2>2, <2>4 DEF Lies
    <2>9. Sound(s, i)
      BY <2>7, <2>8 DEF Sound, Ordered
    <2>10. Largest(s) >= OneSize
      BY <2>2, <2>7, LargestFacts
    <2>11. \A a \in Region(i) : a \in Cells(n)
      BY <2>2, <2>5, <2>4, RangeFacts, Regions
    <2> QED BY <2>3, <2>6, <2>7, <2>9, <2>10, <2>11 DEF FreeAt
  <1>3. lists \in [Lists -> Seq(Ranges)]
    <2>1. \A i \in Lists : lists[i] \in Seq(Ranges)
      BY <1>2 DEF Sound
    <2>2. lists = [i \in Lists |-> lists[i]]
      BY DEF PoolInit
    <2> QED BY <2>1, <2>2
  <1>4. PoolTypeOK
    BY <1>1, <1>3, Regions DEF PoolTypeOK
  <1>5. MaxSizeKept
    BY <1>1, <1>2, Regions DEF MaxSizeKept
  <1>6. AllSound /\ Placed /\ LentApart
    BY <1>1, <1>2 DEF AllSound, Placed, LentApart
  <1>7. FreeOrLent
    BY <1>1, <1>2 DEF FreeOrLent, HeldAt
  <1> QED BY <1>4, <1>5, <1>6, <1>7 DEF PoolInv

LEMMA AllocateKeeps ==
  ASSUME PoolInv, NEW n \in Sizes, Allocate(n)
  PROVE  PoolInv'
PROOF
  <1>1. /\ fit \in Fits /\ lists \in [Lists -> Seq(Ranges)]
        /\ maxSize \in [Lists -> 0..OneSize] /\ live \subseteq Ranges
    BY DEF PoolInv, PoolTypeOK
  <1>2. PICK i \in Lists :
          /\ Roomy(i, n)
          /\ lists' = [lists EXCEPT ![i] = Cut(lists[i], Chosen(lists[i], n), n)]
          /\ maxSize' = [maxSize EXCEPT ![i] = Largest(Cut(lists[i], Chosen(lists[i], n), n))]
          /\ live' = live \cup {[addr |-> lists[i][Chosen(lists[i], n)].addr, size |-> n]}
          /\ fit' = fit
    BY DEF Allocate
  <1>3. PICK s, p : s = lists[i] /\ p = Chosen(s, n)
    OBVIOUS
  <1>4. PICK t, b : t = Cut(s, p, n) /\ b = [addr |-> s[p].addr, size |-> n]
    OBVIOUS
  <1>5. /\ lists' = [lists EXCEPT ![i] = t] /\ maxSize' = [maxSize EXCEPT ![i] = Largest(t)]
        /\ live' = live \cup {b} /\ fit' = fit
    BY <1>2, <1>3, <1>4
  <1>6. n \in Nat /\ n >= 1
    BY PoolAssumption
  <1>7. Sound(s, i) /\ s \in Seq(Ranges)
    BY <1>3 DEF PoolInv, AllSound, Sound
  <1>8. n <= Largest(s)
    <2>1. n <= maxSize[i]
      BY <1>2 DEF Roomy
    <2>2. maxSize[i] <= Largest(s)
      BY <1>3 DEF PoolInv, MaxSizeKept
    <2>3. maxSize[i] \in Int /\ Largest(s) \in Int
      BY <1>1, <1>7, LargestFacts
    <2> QED BY <1>6, <2>1, <2>2, <2>3
  <1>9. p \in DOMAIN s /\ n <= s[p].size
    BY <1>1, <1>3, <1>6, <1>7, <1>8, ChosenIsLarge
  <1>10. b \in Ranges /\ Lies(b, i) /\ Sound(t, i)
    BY <1>4, <1>6, <1>7, <1>9, CutKeeps
  <1>11. \A a : FreeAt(t, a) <=> FreeAt(s, a) /\ a \notin Cells(b)
    BY <1>4, <1>6, <1>7, <1>9, CutKeeps
  <1>12. \A a \in Cells(b) : FreeAt(s, a)
    BY <1>4, <1>6, <1>7, <1>9, CutKeeps
  <1>13. t \in Seq(Ranges) /\ Largest(t) \in 0..OneSize
    BY <1>10, LargestFacts DEF Sound
  <1>14. lists'[i] = t /\ \A j \in Lists : j # i => lists'[j] = lists[j]
    BY <1>1, <1>5
  <1>15. \A a : HeldAt(a)' <=> HeldAt(a) \/ a \in Cells(b)
    BY <1>5 DEF HeldAt
  <1>16. \A a \in Cells(b) : ~HeldAt(a)
    <2>1. \A a \in Cells(b) : a \in Region(i)
      BY <1>10, CellsInRegion
    <2>2. \A a \in Region(i) : FreeAt(s, a) <=> ~HeldAt(a)
      BY <1>3 DEF PoolInv, FreeOrLent
    <2> QED BY <1>12, <2>1, <2>2
  <1>17. PoolTypeOK'
    BY <1>1, <1>5, <1>10, <1>13 DEF PoolTypeOK
  <1>18. MaxSizeKept'
    <2>1. ASSUME NEW j \in Lists
          PROVE  maxSize'[j] <= Largest(lists'[j])
      <3>1. CASE j = i
        BY <1>1, <1>5, <1>13, <1>14, <3>1
      <3>2. CASE j # i
        <4>1. maxSize'[j] = maxSize[j] /\ lists'[j] = lists[j]
          BY <1>1, <1>5, <1>14, <3>2
        <4> QED BY <4>1 DEF PoolInv, MaxSizeKept
      <3> QED BY <3>1, <3>2
    <2> QED BY <2>1 DEF MaxSizeKept, Largest
  <1>19. AllSound'
    <2>1. \A j \in Lists : Sound(lists'[j], j)
      BY <1>10, <1>14 DEF PoolInv, AllSound
    <2> QED BY <2>1 DEF AllSound
  <1>20. Placed'
    BY <1>5, <1>10 DEF PoolInv, Placed
  <1>21. LentApart'
    <2>1. ASSUME NEW c \in live
          PROVE  Apart(b, c) /\ Apart(c, b)
      <3>1. \A a \in Cells(b) : a \notin Cells(c)
        BY <1>16 DEF HeldAt
      <3> QED BY <1>1, <1>10, <3>1, ApartBlocks
    <2>2. \A c, d \in live : c # d => Apart(c, d)
      BY DEF PoolInv, LentApart
    <2> QED BY <1>5, <2>1, <2>2 DEF LentApart
  <1>22. FreeOrLent'
    <2>1. ASSUME NEW j \in Lists, NEW a \in Region(j)
          PROVE  FreeAt(lists'[j], a) <=> ~HeldAt(a)'
      <3>1. FreeAt(lists[j], a) <=> ~HeldAt(a)
        BY DEF PoolInv, FreeOrLent
      <3>2. CASE j = i
        BY <1>3, <1>11, <1>14, <1>15, <3>1, <3>2
      <3>3. CASE j # i
        <4>1. a \notin Cells(b)
          BY <1>10, <3>3, CellsInRegion
        <4> QED BY <1>14, <1>15, <3>1, <3>3, <4>1
      <3> QED BY <3>2, <3>3
    <2> QED BY <2>1 DEF FreeOrLent
  <1> QED BY <1>17, <1>18, <1>19, <1>20, <1>21, <1>22 DEF PoolInv

LEMMA DeallocateKeeps ==
  ASSUME PoolInv, NEW b \in live, Deallocate(b)
  PROVE  PoolInv'
PROOF
  <1>1. /\ fit \in Fits /\ lists \in [Lists -> Seq(Ranges)]
        /\ maxSize \in [Lists -> 0..OneSize] /\ live \subseteq Ranges
        /\ b \in Ranges
    BY DEF PoolInv, PoolTypeOK
  <1>2. PICK i \in Lists : Lies(b, i)
    BY DEF PoolInv, Placed
  <1>3. Owner(b.addr) = i
    BY <1>1, <1>2, CellsInRegion, OwnerFound
  <1>4. PICK s, t, g : s = lists[i] /\ t = Filled(s, b) /\ g = Grown(s, b)
    OBVIOUS
  <1>5. /\ lists' = [lists EXCEPT ![i] = t]
        /\ \/ maxSize' = maxSize /\ s # <<>>
           \/ maxSize' = [maxSize EXCEPT ![i] = Max({maxSize[i], g.size})]
        /\ live' = live \ {b} /\ fit' = fit
    BY <1>3, <1>4 DEF Deallocate
  <1>6. Sound(s, i) /\ s \in Seq(Ranges)
    BY <1>4 DEF PoolInv, AllSound, Sound
  <1>7. \A a \in Region(i) : FreeAt(s, a) <=> ~HeldAt(a)
    BY <1>4 DEF PoolInv, FreeOrLent
  <1>8. \A a \in Cells(b) : ~FreeAt(s, a)
    BY <1>1, <1>2, <1>7, CellsInRegion DEF HeldAt
  <1>9. Sound(t, i)
    BY <1>1, <1>2, <1>4, <1>6, <1>8, FilledKeeps
  <1>10. \A a : FreeAt(t, a) <=> FreeAt(s, a) \/ a \in Cells(b)
    BY <1>1, <1>2, <1>4, <1>6, <1>8, FilledKeeps
  <1>11. g \in Ranges /\ \E x \in DOMAIN t : t[x] = g
    BY <1>1, <1>2, <1>4, <1>6, <1>8, FilledKeeps
  <1>12. \A p \in DOMAIN s : \E x \in DOMAIN t : t[x].size >= s[p].size
    <2>1. NoneShrank(s, t)
      BY <1>1, <1>2, <1>4, <1>6, <1>8, FilledKeeps
    <2> QED BY <2>1 DEF NoneShrank
  <1>13. t \in Seq(Ranges) /\ \A x \in DOMAIN t : t[x] \in Ranges
    BY <1>9 DEF Sound
  <1>14. g.size \in 0..OneSize /\ g.size <= Largest(t)
    BY <1>11, <1>13, RangeFacts, LargestFacts, Regions
  <1>15. Largest(s) <= Largest(t)
    <2>1. PICK k, m : k = Largest(s) /\ m = Largest(t)
      OBVIOUS
    <2>2. k \in 0..OneSize /\ m \in 0..OneSize /\ OneSize \in Nat
      BY <1>6, <1>13, <2>1, LargestFacts, Regions
    <2>3. \A x \in DOMAIN t : t[x].size \in Int /\ t[x].size <= m
      BY <1>13, <2>1, LargestFacts, RangeFacts
    <2>4. k = 0 \/ \E p \in DOMAIN s : s[p].size = k
      BY <1>6, <2>1, LargestFacts
    <2>5. k # 0 => \E x \in DOMAIN t : t[x].size >= k
      BY <1>12, <2>4
    <2> QED BY <2>1, <2>2, <2>3, <2>5
  <1>16. PICK z : z = Max({maxSize[i], g.size})
    OBVIOUS
  <1>17. z \in 0..OneSize /\ (z = maxSize[i] \/ z = g.size)
    <2>1. {maxSize[i], g.size} \subseteq 0..OneSize /\ {maxSize[i], g.size} # {}
      BY <1>1, <1>14
    <2>2. Max({maxSize[i], g.size}) \in {maxSize[i], g.size}
      BY <2>1, GreatestNatural, Regions
    <2> QED BY <1>16, <2>1, <2>2
  <1>18. lists'[i] = t /\ \A j \in Lists : j # i => lists'[j] = lists[j]
    BY <1>1, <1>5
  <1>19. \A a : HeldAt(a)' <=> HeldAt(a) /\ a \notin Cells(b)
    <2>1. \A c \in live : c # b => \A a : ~(a \in Cells(c) /\ a \in Cells(b))
      <3>1. SUFFICES ASSUME NEW c \in live, c # b, NEW a, a \in Cells(c), a \in Cells(b)
                     PROVE  FALSE
        OBVIOUS
      <3>2. Apart(b, c)
        BY <3>1 DEF PoolInv, LentApart
      <3> QED BY <1>1, <3>1, <3>2, RangeFacts DEF Apart
    <2> QED BY <1>5, <2>1 DEF HeldAt
  <1>20. PoolTypeOK'
    <2>1. maxSize' \in [Lists -> 0..OneSize]
      BY <1>1, <1>5, <1>16, <1>17
    <2>2. lists' \in [Lists -> Seq(Ranges)]
      BY <1>1, <1>5, <1>13
    <2> QED BY <1>1, <1>5, <2>1, <2>2 DEF PoolTypeOK
  <1>21. MaxSizeKept'
    <2>1. maxSize[i] <= Largest(s)
      BY <1>4 DEF PoolInv, MaxSizeKept
    <2>2. /\ maxSize[i] \in Int /\ g.size \in Int
          /\ Largest(s) \in Int /\ Largest(t) \in Int
      BY <1>1, <1>6, <1>13, <1>14, LargestFacts
    <2>3. maxSize[i] <= Largest(t)
      BY <1>15, <2>1, <2>2
    <2>4. maxSize'[i] = maxSize[i] \/ maxSize'[i] = g.size
      BY <1>1, <1>5, <1>16, <1>17
    <2>5. maxSize'[i] <= Largest(t)
      BY <1>14, <2>3, <2>4
    <2>6. ASSUME NEW j \in Lists
          PROVE  maxSize'[j] <= Largest(lists'[j])
      <3>1. CASE j = i
        BY <1>18, <2>5, <3>1
      <3>2. CASE j # i
        <4>1. maxSize'[j] = maxSize[j] /\ lists'[j] = lists[j]
          BY <1>1, <1>5, <1>18, <3>2
        <4> QED BY <4>1 DEF PoolInv, MaxSizeKept
      <3> QED BY <3>1, <3>2
    <2> QED BY <2>6 DEF MaxSizeKept, Largest
  <1>22. AllSound'
    <2>1. \A j \in Lists : Sound(lists'[j], j)
      BY <1>9, <1>18 DEF PoolInv, AllSound
    <2> QED BY <2>1 DEF AllSound
  <1>23. Placed' /\ LentApart'
    BY <1>5 DEF PoolInv, Placed, LentApart
  <1>24. FreeOrLent'
    <2>1. ASSUME NEW j \in Lists, NEW a \in Region(j)
          PROVE  FreeAt(lists'[j], a) <=> ~HeldAt(a)'
      <3>1. FreeAt(lists[j], a) <=> ~HeldAt(a)
        BY DEF PoolInv, FreeOrLent
      <3>2. CASE j = i
        BY <1>4, <1>10, <1>18, <1>19, <3>1, <3>2
      <3>3. CASE j # i
        <4>1. a \notin Cells(b)
          BY <1>1, <1>2, <3>3, CellsInRegion
        <4> QED BY <1>18, <1>19, <3>1, <3>3, <4>1
      <3> QED BY <3>2, <3>3
    <2> QED BY <2>1 DEF FreeOrLent
  <1> QED BY <1>20, <1>21, <1>22, <1>23, <1>24 DEF PoolInv

LEMMA PoolStep == PoolInv /\ [PoolNext]_poolvars => PoolInv'
PROOF
  <1> SUFFICES ASSUME PoolInv, [PoolNext]_poolvars PROVE PoolInv'
    OBVIOUS
  <1>1. CASE \E n \in Sizes : Allocate(n)
    BY <1>1, AllocateKeeps
  <1>2. CASE \E b \in live : Deallocate(b)
    BY <1>2, DeallocateKeeps
  <1>3. CASE UNCHANGED poolvars
    BY <1>3 DEF poolvars, PoolInv, PoolTypeOK, MaxSizeKept, AllSound, Placed, LentApart, FreeOrLent, HeldAt
  <1> QED BY <1>1, <1>2, <1>3 DEF PoolNext

LEMMA PoolIsSound == PoolSpec => []PoolInv
PROOF BY PoolInitInv, PoolStep, PTL DEF PoolSpec

-----------------------------------------------------------------------------
(* Results.                                                                *)

\* Every variable of the pool keeps its type: a node or a block is never
\* larger than a region or outside the pool.
THEOREM PoolIsTyped == PoolSpec => []PoolTypeOK
PROOF BY PoolIsSound, PTL DEF PoolInv

\* allocate() finds the node its list promised: what a list has recorded is
\* never more than its largest node.
THEOREM PromisesAreKept == PoolSpec => []MaxSizeKept
PROOF BY PoolIsSound, PTL DEF PoolInv

LEMMA PartitionFollows == PoolInv => Partition
PROOF
  <1> SUFFICES ASSUME PoolInv, NEW i \in Lists
               PROVE  /\ \A p \in DOMAIN lists[i] : Cells(lists[i][p]) \subseteq Region(i)
                      /\ \A a \in Region(i) :
                           Cardinality({p \in DOMAIN lists[i] : a \in Cells(lists[i][p])})
                             + Cardinality({b \in live : a \in Cells(b)}) = 1
                      /\ \A p \in 1..(Len(lists[i]) - 1) :
                           lists[i][p].addr + lists[i][p].size < lists[i][p + 1].addr
    BY DEF Partition
  <1>1. PICK s : s = lists[i]
    OBVIOUS
  <1>2. Sound(s, i) /\ s \in Seq(Ranges)
    BY <1>1 DEF PoolInv, AllSound, Sound
  <1>3. \A p \in DOMAIN s : s[p] \in Ranges /\ Lies(s[p], i)
    BY <1>2 DEF Sound
  <1>4. \A p \in DOMAIN s : Cells(s[p]) \subseteq Region(i)
    BY <1>3, CellsInRegion
  <1>5. ASSUME NEW a \in Region(i)
        PROVE  Cardinality({p \in DOMAIN s : a \in Cells(s[p])})
                 + Cardinality({b \in live : a \in Cells(b)}) = 1
    <2>1. PICK P, B : P = {p \in DOMAIN s : a \in Cells(s[p])} /\ B = {b \in live : a \in Cells(b)}
      OBVIOUS
    <2>2. P # {} <=> B = {}
      BY <1>1, <2>1 DEF PoolInv, FreeOrLent, FreeAt, HeldAt
    <2>3. \A p, q \in P : p = q
      BY <1>2, <2>1, NodesApart
    <2>4. \A b, c \in B : b = c
      <3>1. \A b, c \in live : b # c => Apart(b, c)
        BY DEF PoolInv, LentApart
      <3>2. live \subseteq Ranges
        BY DEF PoolInv, PoolTypeOK
      <3> QED BY <2>1, <3>1, <3>2, RangeFacts DEF Apart
    <2>5. CASE B = {}
      <3>1. PICK x : P = {x}
        BY <2>2, <2>3, <2>5
      <3>2. Cardinality(P) = 1 /\ Cardinality(B) = 0
        BY <2>5, <3>1, FS_Singleton, FS_EmptySet
      <3> QED BY <2>1, <3>2
    <2>6. CASE B # {}
      <3>1. PICK x : B = {x}
        BY <2>4, <2>6
      <3>2. P = {}
        BY <2>2, <2>6
      <3>3. Cardinality(B) = 1 /\ Cardinality(P) = 0
        BY <3>1, <3>2, FS_Singleton, FS_EmptySet
      <3> QED BY <2>1, <3>3
    <2> QED BY <2>5, <2>6
  <1>6. \A p \in 1..(Len(s) - 1) : s[p].addr + s[p].size < s[p + 1].addr
    <2>1. SUFFICES ASSUME NEW p \in 1..(Len(s) - 1)
                   PROVE  s[p].addr + s[p].size < s[p + 1].addr
      OBVIOUS
    <2>2. p \in DOMAIN s /\ p + 1 \in DOMAIN s /\ p < p + 1
      BY <1>2
    <2> QED BY <1>2, <2>2 DEF Sound, Ordered
  <1> QED BY <1>1, <1>4, <1>5, <1>6

\* Every address of the pool is in one free node or in one lent block, the
\* nodes of a list are in order, and no two of them touch: whatever the fit
\* and in whatever order blocks are taken and given back, the binary search
\* and the four ways to merge lose no address and lend none twice.
THEOREM EveryAddressOnce == PoolSpec => []Partition
PROOF BY PoolIsSound, PartitionFollows, PTL

-----------------------------------------------------------------------------
(* The thread pool.                                                        *)

\* While the pool runs, the semaphore and the workers that took a token from
\* it and no task yet account for the queue.  Once the flag has fallen, the
\* destructor's posts break the account, but nobody passes the flag any more.
\* The parts of ThreadsTypeOK the account needs come with it.
TokensInv ==
  /\ queue \in Seq(Tasks) /\ sem \in Nat
  /\ worker \in [Workers -> {"waiting", "woken", "taking", "running", "out"}]
  /\ running = (owner = "serving")
  /\ running => sem + Cardinality(At("woken")) + Cardinality(At("taking")) = Len(queue)
  /\ PopFindsTask

\* The places of the workers are finite sets, so they can be counted.
LEMMA PlacesFinite ==
  ASSUME NEW place
  PROVE  IsFiniteSet(At(place)) /\ Cardinality(At(place)) \in Nat
<1>1. At(place) \subseteq Workers
  BY DEF At
<1> QED BY <1>1, WorkersAssumption, FS_Subset, FS_CardinalityType

\* When a worker goes from one place to another, one count falls by one, one
\* grows by one and the others stay.
LEMMA MoveCounts ==
  ASSUME NEW w \in Workers, NEW from, NEW to, from # to,
         worker \in [Workers -> {"waiting", "woken", "taking", "running", "out"}],
         worker[w] = from, Goes(w, to)
  PROVE  /\ Cardinality(At(from)) >= 1
         /\ Cardinality(At(from))' = Cardinality(At(from)) - 1
         /\ Cardinality(At(to))' = Cardinality(At(to)) + 1
         /\ \A p : p \notin {from, to} => At(p)' = At(p)
<1>1. At(from)' = At(from) \ {w} /\ w \in At(from)
  BY DEF At, Goes
<1>2. At(to)' = At(to) \cup {w} /\ w \notin At(to)
  BY DEF At, Goes
<1>3. \A p : p \notin {from, to} => At(p)' = At(p)
  BY DEF At, Goes
<1>4. Cardinality(At(from))' = Cardinality(At(from)) - 1
  BY <1>1, PlacesFinite, FS_RemoveElement
<1>5. Cardinality(At(to))' = Cardinality(At(to)) + 1
  BY <1>2, PlacesFinite, FS_AddElement
<1>6. At(from) # {}
  BY <1>1
<1>7. Cardinality(At(from)) >= 1
  BY <1>6, PlacesFinite, FS_EmptySet
<1> QED BY <1>3, <1>4, <1>5, <1>7

LEMMA TokensInit == ThreadsInit => TokensInv
<1> SUFFICES ASSUME ThreadsInit PROVE TokensInv
  OBVIOUS
<1>1. At("woken") = {} /\ At("taking") = {}
  BY DEF At, ThreadsInit
<1>2. Cardinality(At("woken")) = 0 /\ Cardinality(At("taking")) = 0
  BY <1>1, FS_EmptySet
<1>3. queue = <<>> /\ Len(queue) = 0 /\ queue \in Seq(Tasks)
  BY DEF ThreadsInit
<1>4. sem \in Nat /\ sem + 0 + 0 = Len(queue) /\ 0 <= Len(queue)
  BY <1>3 DEF ThreadsInit
<1>5. worker \in [Workers -> {"waiting", "woken", "taking", "running", "out"}]
  BY DEF ThreadsInit
<1>6. running = (owner = "serving")
  BY DEF ThreadsInit
<1> QED BY <1>2, <1>3, <1>4, <1>5, <1>6 DEF TokensInv, PopFindsTask

\* The owner: a task and its token come together; the flag falls before the
\* destructor posts.
LEMMA TokensOwner ==
  ASSUME TokensInv, (\E t \in Tasks : Commit(t)) \/ Destructor
  PROVE  TokensInv'
<1>1. worker' = worker
  BY DEF Destructor, Commit, Stop, Post, Join
<1>2. \A p : At(p)' = At(p)
  BY <1>1 DEF At
<1>3. Cardinality(At("woken"))' = Cardinality(At("woken")) /\ Cardinality(At("taking"))' = Cardinality(At("taking"))
  BY <1>2
<1>4. Cardinality(At("woken")) \in Nat /\ Cardinality(At("taking")) \in Nat
  BY PlacesFinite
<1>5. ASSUME NEW t \in Tasks, Commit(t) PROVE TokensInv'
  <2>1. queue' \in Seq(Tasks) /\ Len(queue') = Len(queue) + 1 /\ Len(queue) \in Nat
    BY <1>5 DEF TokensInv, Commit
  <2>2. running /\ running' = running /\ owner' = owner /\ sem' = sem + 1
    BY <1>5 DEF Commit
  <2>3. running' = (owner' = "serving")
    BY <2>2 DEF TokensInv
  <2>4. sem' \in Nat
    BY <2>2 DEF TokensInv
  <2>5. sem' + Cardinality(At("woken"))' + Cardinality(At("taking"))' = Len(queue')
    BY <1>3, <1>4, <2>1, <2>2 DEF TokensInv
  <2>6. Cardinality(At("taking"))' <= Len(queue')
    BY <1>3, <1>4, <2>1 DEF TokensInv, PopFindsTask
  <2> QED BY <1>1, <2>1, <2>3, <2>4, <2>5, <2>6 DEF TokensInv, PopFindsTask
<1>6. ASSUME Destructor PROVE TokensInv'
  <2>1. running' = FALSE /\ owner' # "serving" /\ queue' = queue
    BY <1>6 DEF TokensInv, Destructor, Stop, Post, Join
  <2>2. sem' \in Nat
    BY <1>6 DEF TokensInv, Destructor, Stop, Post, Join
  <2> QED BY <1>1, <1>3, <2>1, <2>2 DEF TokensInv, PopFindsTask
<1> QED BY <1>5, <1>6

\* A worker, step by step.
LEMMA TokensWorker ==
  ASSUME TokensInv, NEW w \in Workers, WorkerStep(w)
  PROVE  TokensInv'
<1> DEFINE woken == Cardinality(At("woken"))
           taking == Cardinality(At("taking"))
<1>1. woken \in Nat /\ taking \in Nat /\ Len(queue) \in Nat
  BY PlacesFinite DEF TokensInv
<1>2. worker' \in [Workers -> {"waiting", "woken", "taking", "running", "out"}]
  BY DEF TokensInv, WorkerStep, Wait, Look, Take, Return, Goes
<1>3. CASE Wait(w)
  <2>1. woken' = woken + 1 /\ At("taking")' = At("taking")
    BY <1>3, MoveCounts, "waiting" # "woken" DEF TokensInv, Wait
  <2>2. taking' = taking
    BY <2>1
  <2> QED BY <1>1, <1>2, <1>3, <2>1, <2>2 DEF TokensInv, Wait, PopFindsTask
<1>4. CASE Look(w)
  <2>1. CASE running
    <3>1. woken >= 1 /\ woken' = woken - 1 /\ taking' = taking + 1
      BY <1>4, <2>1, MoveCounts, "woken" # "taking" DEF TokensInv, Look, Stays
    <3> QED BY <1>1, <1>2, <1>4, <2>1, <3>1 DEF TokensInv, Look, PopFindsTask
  <2>2. CASE ~running
    <3>1. At("taking")' = At("taking")
      BY <1>4, <2>2, MoveCounts, "woken" # "out" DEF TokensInv, Look, Stays
    <3>2. taking' = taking
      BY <3>1
    <3> QED BY <1>1, <1>2, <1>4, <2>2, <3>2 DEF TokensInv, Look, PopFindsTask
  <2> QED BY <2>1, <2>2
<1>5. CASE Take(w)
  <2>1. taking >= 1 /\ taking' = taking - 1 /\ At("woken")' = At("woken")
    BY <1>5, MoveCounts, "taking" # "running" DEF TokensInv, Take
  <2>2. woken' = woken
    BY <2>1
  <2>3. queue' \in Seq(Tasks) /\ Len(queue') = Len(queue) - 1
    BY <1>5 DEF TokensInv, Take
  <2> QED BY <1>1, <1>2, <1>5, <2>1, <2>2, <2>3 DEF TokensInv, Take, PopFindsTask
<1>6. CASE Return(w)
  <2>1. At("woken")' = At("woken") /\ At("taking")' = At("taking")
    BY <1>6, MoveCounts, "running" # "waiting" DEF TokensInv, Return
  <2>2. woken' = woken /\ taking' = taking
    BY <2>1
  <2> QED BY <1>1, <1>2, <1>6, <2>2 DEF TokensInv, Return, PopFindsTask
<1> QED BY <1>3, <1>4, <1>5, <1>6 DEF WorkerStep

LEMMA TokensStep == TokensInv /\ [ThreadsNext]_poolstate => TokensInv'
<1> SUFFICES ASSUME TokensInv, [ThreadsNext]_poolstate PROVE TokensInv'
  OBVIOUS
<1>1. CASE ThreadsNext
  BY <1>1, TokensOwner, TokensWorker DEF ThreadsNext
<1>2. CASE UNCHANGED poolstate
  BY <1>2 DEF TokensInv, PopFindsTask, At, poolstate
<1> QED BY <1>1, <1>2

\* No worker meets an empty queue at front() and pop() (threadpool.cpp:24),
\* with any number of workers and whenever the destructor runs.
THEOREM PopNeverEmpty == ThreadsSpec => []PopFindsTask
<1>1. TokensInv => PopFindsTask
  BY DEF TokensInv
<1> QED BY <1>1, TokensInit, TokensStep, PTL DEF ThreadsSpec

\* What the types of the pool need: what waits in the queue was committed.
TypedInv == ThreadsTypeOK /\ queue \in Seq(committed)

LEMMA TypedInit == ThreadsInit => TypedInv
<1> SUFFICES ASSUME ThreadsInit PROVE TypedInv
  OBVIOUS
<1>1. Posts \in Nat
  BY WorkersAssumption, FS_CardinalityType DEF Posts
<1>2. queue \in Seq(committed) /\ queue \in Seq(Tasks)
  BY DEF ThreadsInit
<1> QED BY <1>1, <1>2 DEF ThreadsInit, TypedInv, ThreadsTypeOK

LEMMA TypedStep == TypedInv /\ [ThreadsNext]_poolstate => TypedInv'
<1> SUFFICES ASSUME TypedInv, [ThreadsNext]_poolstate PROVE TypedInv'
  OBVIOUS
<1>1. Posts \in Nat /\ Posts' = Posts
  BY WorkersAssumption, FS_CardinalityType DEF Posts
<1>2. ASSUME NEW t \in Tasks, Commit(t) PROVE TypedInv'
  <2>1. committed' = committed \cup {t} /\ queue' = Append(queue, t)
    BY <1>2 DEF Commit
  <2>2. queue' \in Seq(committed') /\ queue' \in Seq(Tasks)
    BY <2>1 DEF TypedInv, ThreadsTypeOK
  <2> QED BY <1>1, <1>2, <2>1, <2>2 DEF Commit, TypedInv, ThreadsTypeOK
<1>3. CASE Stop
  BY <1>1, <1>3 DEF Stop, TypedInv, ThreadsTypeOK
<1>4. CASE Post
  BY <1>1, <1>4 DEF Post, TypedInv, ThreadsTypeOK
<1>5. CASE Join
  BY <1>1, <1>5 DEF Join, TypedInv, ThreadsTypeOK
<1>6. ASSUME NEW w \in Workers, Wait(w) PROVE TypedInv'
  BY <1>1, <1>6 DEF Wait, Goes, TypedInv, ThreadsTypeOK
<1>7. ASSUME NEW w \in Workers, Look(w) PROVE TypedInv'
  BY <1>1, <1>7 DEF Look, Goes, TypedInv, ThreadsTypeOK
<1>8. ASSUME NEW w \in Workers, Take(w) PROVE TypedInv'
  <2>1. queue' = Tail(queue) /\ queue # <<>> /\ committed' = committed
    BY <1>8 DEF Take
  <2>2. Head(queue) \in committed /\ Tail(queue) \in Seq(committed) /\ Tail(queue) \in Seq(Tasks)
    BY <2>1 DEF TypedInv, ThreadsTypeOK
  <2>3. Head(queue) \in Tasks
    BY <2>2 DEF TypedInv, ThreadsTypeOK
  <2> QED BY <1>1, <1>8, <2>1, <2>2, <2>3 DEF Take, Goes, TypedInv, ThreadsTypeOK
<1>9. ASSUME NEW w \in Workers, Return(w) PROVE TypedInv'
  BY <1>1, <1>9 DEF Return, Goes, TypedInv, ThreadsTypeOK
<1>10. CASE UNCHANGED poolstate
  BY <1>1, <1>10 DEF poolstate, TypedInv, ThreadsTypeOK
<1> QED BY <1>2, <1>3, <1>4, <1>5, <1>6, <1>7, <1>8, <1>9, <1>10 DEF ThreadsNext, Destructor, WorkerStep

\* Every variable of the thread pool keeps its type: the destructor posts no
\* more than once for each worker, and only what was committed is started.
THEOREM ThreadsAreTyped == ThreadsSpec => []ThreadsTypeOK
<1>1. TypedInv => ThreadsTypeOK
  BY DEF TypedInv
<1> QED BY <1>1, TypedInit, TypedStep, PTL DEF ThreadsSpec

\* Of every committed task: it waits in the queue once, or one worker took it.
EachTaskOnce ==
  /\ committed = started \cup Range(queue) /\ started \cap Range(queue) = {}
  /\ IsInjective(queue)
  /\ \A v, w \in Workers : v # w => held[v] \cap held[w] = {}

OnceInv == TypedInv /\ EachTaskOnce /\ \A w \in Workers : held[w] \subseteq started

LEMMA OnceInit == ThreadsInit => OnceInv
<1> SUFFICES ASSUME ThreadsInit PROVE OnceInv
  OBVIOUS
<1>1. TypedInv
  BY TypedInit
<1>2. Range(queue) = {} /\ IsInjective(queue)
  BY DEF ThreadsInit, Range, IsInjective
<1> QED BY <1>1, <1>2 DEF ThreadsInit, OnceInv, EachTaskOnce

LEMMA OnceStep == OnceInv /\ [ThreadsNext]_poolstate => OnceInv'
<1> SUFFICES ASSUME OnceInv, [ThreadsNext]_poolstate PROVE OnceInv'
  OBVIOUS
<1>1. TypedInv'
  BY TypedStep DEF OnceInv
<1>2. queue \in Seq(Tasks) /\ held \in [Workers -> SUBSET Tasks]
  BY DEF OnceInv, TypedInv, ThreadsTypeOK
<1>3. ASSUME NEW t \in Tasks, Commit(t) PROVE OnceInv'
  <2>1. t \notin committed /\ committed' = committed \cup {t} /\ queue' = Append(queue, t)
        /\ started' = started /\ held' = held
    BY <1>3 DEF Commit
  <2>2. Range(queue') = Range(queue) \cup {t}
    BY <1>2, <2>1, AppendProperties DEF Range
  <2>3. IsInjective(queue')
    BY <1>2, <2>1 DEF IsInjective, OnceInv, EachTaskOnce, Range
  <2> QED BY <1>1, <2>1, <2>2, <2>3 DEF OnceInv, EachTaskOnce
<1>4. CASE Stop
  BY <1>1, <1>4 DEF Stop, OnceInv, EachTaskOnce
<1>5. CASE Post
  BY <1>1, <1>5 DEF Post, OnceInv, EachTaskOnce
<1>6. CASE Join
  BY <1>1, <1>6 DEF Join, OnceInv, EachTaskOnce
<1>7. ASSUME NEW w \in Workers, Wait(w) PROVE OnceInv'
  BY <1>1, <1>7 DEF Wait, OnceInv, EachTaskOnce
<1>8. ASSUME NEW w \in Workers, Look(w) PROVE OnceInv'
  BY <1>1, <1>8 DEF Look, OnceInv, EachTaskOnce
<1>9. ASSUME NEW w \in Workers, Take(w) PROVE OnceInv'
  <2> DEFINE t == Head(queue)
  <2>1. queue # <<>> /\ queue' = Tail(queue) /\ started' = started \cup {t}
        /\ held' = [held EXCEPT ![w] = {t}] /\ committed' = committed
    BY <1>9 DEF Take
  <2>2. Len(queue) > 0 /\ t = queue[1] /\ Len(queue') = Len(queue) - 1
        /\ \A i \in 1..Len(queue') : queue'[i] = queue[i + 1]
    BY <1>2, <2>1
  <2>3. queue' \in Seq(Tasks)
    BY <1>2, <2>1
  <2>4. Range(queue) = Range(queue') \cup {t} /\ t \notin Range(queue')
    <3>1. \A i \in 1..Len(queue) : i = 1 \/ (i - 1 \in 1..Len(queue') /\ queue'[i - 1] = queue[i])
      BY <1>2, <2>2
    <3>2. \A i \in 1..Len(queue') : i + 1 \in 1..Len(queue) /\ i + 1 # 1
      BY <1>2, <2>2
    <3>3. Range(queue) = {queue[i] : i \in 1..Len(queue)} /\ Range(queue') = {queue'[i] : i \in 1..Len(queue')}
      BY <1>2, <2>3 DEF Range
    <3>4. \A i, j \in 1..Len(queue) : queue[i] = queue[j] => i = j
      BY <1>2 DEF IsInjective, OnceInv, EachTaskOnce
    <3>5. 1 \in 1..Len(queue)
      BY <1>2, <2>2
    <3> HIDE DEF t
    <3>6. t \notin Range(queue')
      BY <2>2, <3>2, <3>3, <3>4, <3>5
    <3>7. Range(queue) \subseteq Range(queue') \cup {t}
      BY <2>2, <3>1, <3>3
    <3>8. Range(queue') \cup {t} \subseteq Range(queue)
      BY <2>2, <3>2, <3>3, <3>5
    <3> QED BY <3>6, <3>7, <3>8
  <2>5. IsInjective(queue')
    <3> SUFFICES ASSUME NEW i \in 1..Len(queue'), NEW j \in 1..Len(queue'), queue'[i] = queue'[j]
                 PROVE  i = j
      BY <2>3 DEF IsInjective
    <3>1. i + 1 \in 1..Len(queue) /\ j + 1 \in 1..Len(queue) /\ queue[i + 1] = queue[j + 1]
      BY <1>2, <2>2
    <3>2. i + 1 = j + 1
      BY <1>2, <3>1 DEF IsInjective, OnceInv, EachTaskOnce
    <3> QED BY <3>2
  <2>6. t \notin started
    BY <2>4 DEF OnceInv, EachTaskOnce
  <2>7. \A v \in Workers : held'[v] = IF v = w THEN {t} ELSE held[v]
    BY <1>2, <2>1
  <2>8. (\A v \in Workers : held'[v] \subseteq started')
        /\ \A v, x \in Workers : v # x => held'[v] \cap held'[x] = {}
    BY <2>1, <2>6, <2>7 DEF OnceInv, EachTaskOnce
  <2>9. committed' = started' \cup Range(queue') /\ started' \cap Range(queue') = {}
    BY <2>1, <2>4 DEF OnceInv, EachTaskOnce
  <2> QED BY <1>1, <2>5, <2>8, <2>9 DEF OnceInv, EachTaskOnce
<1>10. ASSUME NEW w \in Workers, Return(w) PROVE OnceInv'
  <2>1. \A v \in Workers : held'[v] \subseteq held[v]
    BY <1>2, <1>10 DEF Return
  <2> QED BY <1>1, <1>10, <2>1 DEF Return, OnceInv, EachTaskOnce
<1>11. CASE UNCHANGED poolstate
  BY <1>1, <1>11 DEF poolstate, OnceInv, EachTaskOnce
<1> QED BY <1>3, <1>4, <1>5, <1>6, <1>7, <1>8, <1>9, <1>10, <1>11 DEF ThreadsNext, Destructor, WorkerStep

\* No task that was committed is lost by commit() and the workers' loop
\* (threadpool.cpp:18-28), none is taken twice and none is in the hands of two
\* workers, whenever the destructor runs.
THEOREM EachTaskGoesToOneWorker == ThreadsSpec => []EachTaskOnce
<1>1. OnceInv => EachTaskOnce
  BY DEF OnceInv
<1> QED BY <1>1, OnceInit, OnceStep, PTL DEF ThreadsSpec

-----------------------------------------------------------------------------
(* The user table.                                                         *)

\* Before the first query no set is held.  From then on m_result is null or
\* the one set that is left, and while its rows are being fetched they say
\* whether the pair was in the table when the query was made: the table may
\* have changed since.
ResultsInv ==
  /\ sets \in Nat
  /\ manager \in {"made", "connected", "ready", "fetching", "deleted", "crashed"}
  /\ manager \in {"made", "connected"} => DOMAIN results = {} /\ login.found = login.known
  /\ manager \in {"ready", "fetching", "deleted"} =>
       /\ m_result \in Nat \cup {Null}
       /\ DOMAIN results = {m_result} \ {Null}
  /\ manager \in {"ready", "deleted"} => login.found = login.known
  /\ manager = "fetching" /\ m_result # Null =>
       (results[m_result] # {}) = login.known
  /\ DOMAIN login = {"known", "found"} /\ login = [x \in DOMAIN login |-> login[x]]

LEMMA ResultsInit == SqlInit => ResultsInv
BY DEF SqlInit, ResultsInv

\* freeResult() leaves nothing, whatever was held.
LEMMA RestEmpty ==
  ASSUME ResultsInv, manager \in {"connected", "ready"}
  PROVE  DOMAIN Rest = {}
BY DEF ResultsInv, Rest

\* A query frees what was held and holds what it got.
LEMMA QueryHoldsOne ==
  ASSUME ResultsInv, manager \in {"connected", "ready"}, NEW answers, Query(answers)
  PROVE  /\ sets' \in Nat /\ m_result' \in Nat \cup {Null}
         /\ DOMAIN results' = {m_result'} \ {Null}
         /\ m_result' # Null => results'[m_result'] \in answers
<1>1. DOMAIN Rest = {}
  BY RestEmpty
<1>2. ASSUME NEW rows \in answers, Holds(rows)
      PROVE  /\ sets' \in Nat /\ m_result' \in Nat /\ m_result' # Null
             /\ DOMAIN results' = {m_result'} /\ results'[m_result'] = rows
  <2>1. m_result' = sets /\ sets' = sets + 1 /\ sets \in Nat /\ sets # Null
    BY <1>2, SqlAssumption DEF Holds, ResultsInv
  <2>2. results' = [r \in {sets} |-> IF r = sets THEN rows ELSE Rest[r]]
    BY <1>1, <1>2 DEF Holds
  <2> QED BY <2>1, <2>2
<1>3. ASSUME m_result' = Null, results' = Rest, UNCHANGED sets
      PROVE  /\ sets' \in Nat /\ m_result' \in Nat \cup {Null}
             /\ DOMAIN results' = {m_result'} \ {Null}
             /\ m_result' # Null => results'[m_result'] \in answers
  BY <1>1, <1>3 DEF ResultsInv
<1> QED BY <1>2, <1>3 DEF Query

LEMMA ResultsStep == ResultsInv /\ [SqlNext]_sqlvars => ResultsInv'
<1> SUFFICES ASSUME ResultsInv, [SqlNext]_sqlvars
             PROVE  ResultsInv'
  OBVIOUS
<1>1. CASE Connects
  BY <1>1 DEF Connects, ResultsInv
<1>2. CASE SelectDB
  <2>1. DOMAIN results' = {m_result'} \ {Null} /\ m_result' \in Nat \cup {Null} /\ sets' \in Nat
    BY <1>2, QueryHoldsOne DEF SelectDB
  <2> QED BY <1>2, <2>1 DEF SelectDB, ResultsInv
<1>3. CASE FreesGarbage
  BY <1>3 DEF FreesGarbage, ResultsInv
<1>4. ASSUME NEW pair \in Logins, QueryGetRes(pair)
      PROVE  ResultsInv'
  <2>1. /\ DOMAIN results' = {m_result'} \ {Null} /\ m_result' \in Nat \cup {Null} /\ sets' \in Nat
        /\ m_result' # Null => results'[m_result'] \in {infos \cap {pair}}
    BY <1>4, QueryHoldsOne DEF QueryGetRes
  <2>2. manager' = "fetching" /\ login' = [known |-> pair \in infos, found |-> FALSE]
    BY <1>4 DEF QueryGetRes
  <2>3. m_result' # Null => (results'[m_result'] # {}) = login'.known
    BY <2>1, <2>2
  <2>4. DOMAIN login' = {"known", "found"} /\ login' = [x \in DOMAIN login' |-> login'[x]]
    BY <2>2
  <2> QED BY <2>1, <2>2, <2>3, <2>4 DEF ResultsInv
<1>5. CASE GetRes
  <2>1. CASE m_result = Null
    BY <1>5, <2>1 DEF GetRes, ResultsInv
  <2>2. CASE m_result # Null
    <3>1. /\ manager = "fetching" /\ manager' = "ready"
          /\ login' = [login EXCEPT !.found = results[m_result] # {}]
          /\ results' = [results EXCEPT ![m_result] = {}]
          /\ UNCHANGED <<m_result, sets>>
      BY <1>5, <2>2 DEF GetRes
    <3>2. login'.found = (results[m_result] # {}) /\ login'.known = login.known
          /\ DOMAIN login' = {"known", "found"} /\ login' = [x \in DOMAIN login' |-> login'[x]]
      BY <3>1 DEF ResultsInv
    <3>3. login'.found = login'.known
      BY <2>2, <3>1, <3>2 DEF ResultsInv
    <3> QED BY <3>1, <3>2, <3>3 DEF ResultsInv
  <2> QED BY <2>1, <2>2
<1>6. CASE Deletes
  <2>1. DOMAIN Rest = {}
    BY <1>6, RestEmpty DEF Deletes
  <2> QED BY <1>6, <2>1 DEF Deletes, ResultsInv
<1>7. CASE MySQL
  BY <1>7 DEF MySQL, Loses, Changes, ResultsInv
<1>8. CASE UNCHANGED sqlvars
  BY <1>8 DEF sqlvars, ResultsInv
<1> QED BY <1>1, <1>2, <1>3, <1>4, <1>5, <1>6, <1>7, <1>8 DEF SqlNext, SqlStep

\* A login is let in, or sent away, by the rows of the query made for it, and
\* no result set but the one that is held is left (server.cpp:91,
\* sqlmanager.cpp:31).
THEOREM EveryLoginByOwnRows == SqlSpec => []LoginByOwnRows
<1>1. ResultsInv => LoginByOwnRows
  BY DEF ResultsInv, LoginByOwnRows
<1> QED BY <1>1, ResultsInit, ResultsStep, PTL DEF SqlSpec

-----------------------------------------------------------------------------
(* Side by side.                                                           *)

\* A step of MCRuntime is a step of one component and none of the others.
LEMMA StepOfOne ==
  ASSUME [MCNext]_rtvars
  PROVE  /\ [PoolNext]_poolvars
         /\ [ThreadsNext]_poolstate
         /\ [ReactorNext]_revars
         /\ [SqlNext]_sqlvars
<1>1. CASE Memory
  BY <1>1 DEF Memory
<1>2. CASE Unowned
  BY <1>2 DEF Unowned, ThreadsNext, Destructor
<1>3. CASE Ending
  BY <1>3 DEF Ending, ThreadsNext, Destructor
<1>4. ASSUME NEW w \in Workers, Working(w)
      PROVE  [PoolNext]_poolvars /\ [ThreadsNext]_poolstate /\ [ReactorNext]_revars /\ [SqlNext]_sqlvars
  BY <1>4 DEF Working, ThreadsNext
<1>5. CASE Asking
  BY <1>5 DEF Asking, Events, ReactorNext, ClientStep
<1>6. CASE Leaving
  BY <1>6 DEF Leaving, Events, ReactorNext, ClientStep
<1>7. CASE Going
  BY <1>7 DEF Going, Events, ReactorNext, ClientStep
<1>8. ASSUME NEW l \in EventLoops, Looping(l)
      PROVE  [PoolNext]_poolvars /\ [ThreadsNext]_poolstate /\ [ReactorNext]_revars /\ [SqlNext]_sqlvars
  BY <1>8 DEF Looping, Events, ReactorNext
<1>9. CASE Login
  BY <1>9 DEF Login, Users, SqlNext
<1>10. CASE Manager
  BY <1>10 DEF Manager, Users, SqlNext
<1>11. CASE UNCHANGED rtvars
  BY <1>11 DEF rtvars
<1> QED BY <1>1, <1>2, <1>3, <1>4, <1>5, <1>6, <1>7, <1>8, <1>9, <1>10, <1>11 DEF MCNext

\* What holds of each on its own.
RuntimeInv == PoolInv /\ TypedInv /\ ReactorInv

\* The types of the components hold where they stand side by side, for every
\* size of them.
THEOREM RuntimeIsTyped == MCSpec => []RuntimeTypeOK
<1>1. MCInit => RuntimeInv
  BY PoolInitInv, TypedInit, InitHolds DEF MCInit, RuntimeInv
<1>2. RuntimeInv /\ [MCNext]_rtvars => RuntimeInv'
  BY StepOfOne, PoolStep, TypedStep, NextKeeps DEF RuntimeInv
<1>3. RuntimeInv => RuntimeTypeOK
  BY DEF RuntimeInv, RuntimeTypeOK, PoolInv, TypedInv, ReactorInv
<1> QED BY <1>1, <1>2, <1>3, PTL DEF MCSpec

=============================================================================
