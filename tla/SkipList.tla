------------------------------- MODULE SkipList -------------------------------
(***************************************************************************)
(* class SkipList (include/containers/skiplist.h) and the memtable's       *)
(* KV_SkipList (include/utils/utils.h).  A list l is a sequence of levels, *)
(* the bottom first, and the counter size_.  A level is a function from    *)
(* the keys on it to nodes; a node carries a copy of the value and the     *)
(* level of the node below it, 0 at the bottom.  The head of a level is    *)
(* above the head of the one before.                                       *)
(***************************************************************************)
EXTENDS Strings

CONSTANTS
  Start,     \* the position before the first node of a level
  Missing    \* T(): what get() returns for a key that is not there

EmptyList == [levels |-> <<[k \in {} |-> [value |-> k, down |-> 0]]>>, size |-> 0]

Top(l)     == Len(l.levels)
On(l, i)   == DOMAIN l.levels[i]
Listed(l)  == On(l, 1)
AllKeys(l)  == UNION {On(l, i) : i \in 1..Top(l)}
Below(l, k) == {x \in AllKeys(l) : Less(x, k)}
UpTo(l, k)  == {x \in AllKeys(l) : LessEq(x, k)}
After(p, k)  == p = Start \/ Less(p, k)
Under(l, i, p) == IF p = Start THEN i - 1 ELSE l.levels[i][p].down

\* The nodes a walk from p on level i comes to rest at, top first: on every
\* level it passes the keys in passed, then it goes down.
Trail(l, i, p, passed) ==
  LET walk[j \in 1..Top(l)] ==
        [q \in On(l, j) \cup {Start} |->
           LET ahead == {x \in On(l, j) \cap passed : After(q, x)}
               at    == IF ahead = {} THEN q ELSE Greatest(ahead)
               below == Under(l, j, at)
           IN  <<[level |-> j, at |-> at]>> \o (IF below = 0 THEN <<>> ELSE walk[below][at])]
  IN  walk[i][p]

\* lower(): the last node below k, at the bottom.
Lower(l, k) == Last(Trail(l, Top(l), Start, Below(l, k))).at

\* lower_equal(): the last node up to k.
LowerEqual(l, k) == Last(Trail(l, Top(l), Start, UpTo(l, k))).at

\* The key to the right of p at the bottom, or Start if p is the last.
RightOf(l, p) ==
  LET ahead == {x \in Listed(l) : After(p, x)} IN IF ahead = {} THEN Start ELSE Least(ahead)

\* insert(value, begin), begin being p on level i: a tower of height tall by
\* the coins thrown, as high as the walk came from; higher, and a head is put
\* on top of the old one.
Inserted(l, i, p, k, v, tall) ==
  LET wall == Reverse(Trail(l, i, p, UpTo(l, k)))
      node(j) == [value |-> v, down |-> IF j = 1 THEN 0 ELSE wall[j - 1].level]
      on(m)   == {j \in 1..Len(wall) : j <= tall /\ wall[j].level = m}
      put(m)  == IF on(m) = {} THEN l.levels[m]
                 ELSE [x \in On(l, m) \cup {k} |->
                         IF x = k THEN node(CHOOSE j \in on(m) : TRUE) ELSE l.levels[m][x]]
      levels  == [m \in 1..Top(l) |-> put(m)]
  IN  IF wall[1].at = k THEN [l EXCEPT !.size = @ + 1]
      ELSE [levels |-> IF tall <= Len(wall) THEN levels
                       ELSE Append(levels, [x \in {k} |-> node(Len(wall) + 1)]),
            size   |-> l.size + 1]

InsertedFromHead(l, k, v, tall) == Inserted(l, Top(l), Start, k, v, tall)

\* Mutant: only the topmost node of the key goes.
UnlinkedOnce(l, k) ==
  LET wall == Trail(l, Top(l), Start, Below(l, k))
      hit  == {j \in 1..Len(wall) : k \in On(l, wall[j].level)}
      m    == wall[CHOOSE j \in hit : \A h \in hit : j <= h].level
  IN  [levels |-> IF hit = {} THEN l.levels
                  ELSE [l.levels EXCEPT ![m] = [x \in On(l, m) \ {k} |-> @[x]]],
       size   |-> l.size - 1]

\* erase(): the walk unlinks the key on every level it comes through.
Unlinked(l, k) ==
  LET wall == Trail(l, Top(l), Start, Below(l, k))
      seen == {wall[j].level : j \in 1..Len(wall)}
  IN  [levels |-> [m \in 1..Top(l) |->
                     IF m \in seen THEN [x \in On(l, m) \ {k} |-> l.levels[m][x]] ELSE l.levels[m]],
       size   |-> l.size - 1]

\* Mutant: the value is written where a walk meets the key first.
KVPutTop(l, k, v, tall) ==
  LET m == CHOOSE i \in 1..Top(l) : k \in On(l, i) /\ \A j \in (i + 1)..Top(l) : k \notin On(l, j)
  IN  IF k \in Listed(l) THEN [l EXCEPT !.levels[m][k].value = v]
      ELSE Inserted(l, 1, Lower(l, k), k, v, tall)

\* KV_SkipList::put(): a key that is there gets the value at the bottom only;
\* a new one is inserted from the bottom node before it.
KVPut(l, k, v, tall) ==
  IF RightOf(l, Lower(l, k)) = k THEN [l EXCEPT !.levels[1][k].value = v]
  ELSE Inserted(l, 1, Lower(l, k), k, v, tall)

KVCount(l, k) == RightOf(l, Lower(l, k)) = k
KVGet(l, k)   == IF KVCount(l, k) THEN l.levels[1][k].value ELSE Missing

\* getKV(): the bottom level.
KVAll(l) == [k \in Listed(l) |-> l.levels[1][k].value]

\* SkipList::count(): the walk stops at the key on the highest level it is on.
HasElement(l, k) ==
  LET wall == Trail(l, Top(l), Start, UpTo(l, k)) IN \E j \in DOMAIN wall : wall[j].at = k

=============================================================================
