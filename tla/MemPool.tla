------------------------------- MODULE MemPool -------------------------------
(***************************************************************************)
(* The memory pool: class MemPool (src/memtools/mempool.cpp) over its free *)
(* lists, class MemList and the three fits derived from it.  The pool is   *)
(* one range of addresses cut into NumLists regions of OneSize; a free     *)
(* list is the sequence of its nodes.  Every call holds the pool's mutex.  *)
(***************************************************************************)
EXTENDS Integers, Sequences, FiniteSets, FiniteSetsExt

CONSTANTS
  NumLists,   \* MEM_NUM_LISTS
  OneSize,    \* MEM_SIZE_LIST
  Header,     \* sizeof(MemListNode), what allocate() keeps back
  Sizes       \* what callers ask for

ASSUME PoolAssumption ==
  /\ NumLists \in Nat \ {0} /\ OneSize \in Nat \ {0} /\ Header \in Nat \ {0}
  /\ Sizes \subseteq Nat \ {0}

VARIABLES
  fit,        \* the class of the lists: MEM_POOL_ALGO
  lists,      \* list -> its nodes
  maxSize,    \* list -> the size allocate() goes by
  live        \* history: what was allocated and not given back

poolvars == <<fit, lists, maxSize, live>>

Fits   == {"FIRST_FIT", "BEST_FIT", "WORST_FIT"}
Lists  == 0..(NumLists - 1)
Region(i) == (i * OneSize)..((i + 1) * OneSize - 1)
Cells(n)  == n.addr..(n.addr + n.size - 1)
Ranges == [addr : 0..(NumLists * OneSize - 1), size : 1..OneSize]

Largest(s) == Max({0} \cup {s[p].size : p \in DOMAIN s})

-----------------------------------------------------------------------------
(* allocate().                                                             *)

\* The list has room, by what it has recorded.
Roomy(i, n) == n <= maxSize[i] /\ maxSize[i] - n >= Header

\* The node each fit takes: the first, the smallest or the largest that is
\* large enough, the first of them in the list.
Large(s, n) == {p \in DOMAIN s : s[p].size >= n}
Offers(s, n) == {s[p].size : p \in Large(s, n)}

FirstFit(s, n) == Min(Large(s, n))
BestFit(s, n)  == Min({p \in Large(s, n) : s[p].size = Min(Offers(s, n))})
WorstFit(s, n) == Min({p \in Large(s, n) : s[p].size = Max(Offers(s, n))})

\* The node that is cut, by the fit of the list.
Chosen(s, n) == CASE fit = "FIRST_FIT" -> FirstFit(s, n)
                  [] fit = "BEST_FIT"  -> BestFit(s, n)
                  [] fit = "WORST_FIT" -> WorstFit(s, n)

\* A node gives its front, or all of itself.
Cut(s, p, n) ==
  IF s[p].size = n
  THEN SubSeq(s, 1, p - 1) \o SubSeq(s, p + 1, Len(s))
  ELSE [s EXCEPT ![p] = [addr |-> @.addr + n, size |-> @.size - n]]

\* Mutant: the recorded size is not brought down.
AllocateKeepsMax(n) ==
  \E i \in Lists :
    /\ Roomy(i, n) /\ \A j \in Lists : j < i => ~Roomy(j, n)
    /\ LET p == Chosen(lists[i], n)
       IN  /\ lists' = [lists EXCEPT ![i] = Cut(@, p, n)]
           /\ live' = live \cup {[addr |-> lists[i][p].addr, size |-> n]}
    /\ UNCHANGED <<fit, maxSize>>

\* The first list with room serves the call.
Allocate(n) ==
  \E i \in Lists :
    /\ Roomy(i, n) /\ \A j \in Lists : j < i => ~Roomy(j, n)
    /\ LET p == Chosen(lists[i], n)
           s == Cut(lists[i], p, n)
       IN  /\ lists' = [lists EXCEPT ![i] = s]
           /\ maxSize' = [maxSize EXCEPT ![i] = Largest(s)]
           /\ live' = live \cup {[addr |-> lists[i][p].addr, size |-> n]}
    /\ UNCHANGED fit

-----------------------------------------------------------------------------
(* deallocate().                                                           *)

\* The list an address belongs to: the binary search of lines 66-80.
Spans        == [l : 0..NumLists, r : -1..NumLists, res : Lists]
Begins(i, a) == i \in Lists /\ i * OneSize <= a

\* One round of its loop.
Halved(s, a) ==
  LET mid == (s.l + s.r) \div 2
  IN  IF Begins(mid, a) THEN [l |-> mid + 1, r |-> s.r, res |-> mid]
      ELSE [l |-> s.l, r |-> mid - 1, res |-> s.res]

\* Mutant: the search ends on its left bound.
SettledLeft(s, a) == s.l

\* What the two tests behind the loop make of where it ended.
Settled(s, a) == IF Begins(s.r, a) THEN s.r ELSE IF Begins(s.l, a) THEN s.l ELSE s.res

Owner(a) ==
  LET search[s \in Spans] == IF s.l < s.r THEN search[Halved(s, a)] ELSE Settled(s, a)
  IN  search[[l |-> 0, r |-> NumLists - 1, res |-> 0]]

\* How many nodes of s lie before b, and whether b touches its neighbours.
Before(s, b)      == Cardinality({p \in DOMAIN s : s[p].addr <= b.addr})
TouchesPrev(s, b) == LET q == Before(s, b) IN q > 0 /\ s[q].addr + s[q].size = b.addr

TouchesNext(s, b) == LET q == Before(s, b) IN q < Len(s) /\ b.addr + b.size = s[q + 1].addr

\* The node b becomes, merged with what it touches.
Grown(s, b) ==
  LET q == Before(s, b)
  IN  [addr |-> IF TouchesPrev(s, b) THEN s[q].addr ELSE b.addr,
       size |-> b.size + (IF TouchesPrev(s, b) THEN s[q].size ELSE 0)
                       + (IF TouchesNext(s, b) THEN s[q + 1].size ELSE 0)]

Filled(s, b) ==
  LET q == Before(s, b)
  IN  SubSeq(s, 1, IF TouchesPrev(s, b) THEN q - 1 ELSE q)
        \o <<Grown(s, b)>>
        \o SubSeq(s, IF TouchesNext(s, b) THEN q + 2 ELSE q + 1, Len(s))

\* A block that comes before the head leaves the recorded size as it is,
\* lines 82-91.
Deallocate(b) ==
  /\ b \in live
  /\ LET i == Owner(b.addr)
         s == lists[i]
     IN  /\ lists' = [lists EXCEPT ![i] = Filled(s, b)]
         /\ maxSize' = IF s # <<>> /\ Before(s, b) = 0 THEN maxSize
                       ELSE [maxSize EXCEPT ![i] = Max({@, Grown(s, b).size})]
  /\ live' = live \ {b}
  /\ UNCHANGED fit

-----------------------------------------------------------------------------
PoolInit ==
  /\ fit \in Fits
  /\ lists = [i \in Lists |-> <<[addr |-> i * OneSize, size |-> OneSize]>>]
  /\ maxSize = [i \in Lists |-> OneSize]
  /\ live = {}

PoolNext ==
  \/ \E n \in Sizes : Allocate(n)
  \/ \E b \in live : Deallocate(b)

PoolSpec == PoolInit /\ [][PoolNext]_poolvars

-----------------------------------------------------------------------------
(* Properties.                                                             *)

\* Every variable keeps its type.
PoolTypeOK ==
  /\ fit \in Fits
  /\ lists \in [Lists -> Seq(Ranges)]
  /\ maxSize \in [Lists -> 0..OneSize]
  /\ live \subseteq Ranges

\* Every address is in one free node of its own region's list or in one
\* block a caller holds: no block overlaps another or a free node, and
\* nothing leaks (test/mempool.cpp:28 counts the sizes after five calls).  The
\* nodes are in the order of their addresses and no two of them touch: what is
\* given back is merged with both neighbours, in whatever order it comes.
Partition ==
  \A i \in Lists :
    /\ \A p \in DOMAIN lists[i] : Cells(lists[i][p]) \subseteq Region(i)
    /\ \A a \in Region(i) :
         Cardinality({p \in DOMAIN lists[i] : a \in Cells(lists[i][p])})
           + Cardinality({b \in live : a \in Cells(b)}) = 1
    /\ \A p \in 1..(Len(lists[i]) - 1) :
         lists[i][p].addr + lists[i][p].size < lists[i][p + 1].addr

\* The recorded size never promises more than some node has: a call that
\* chose a list is served by it, and allocate() on the list does not return
\* nullptr behind the pool's back.
MaxSizeKept == \A i \in Lists : maxSize[i] <= Largest(lists[i])

\* memlist.h:42: maxSize is the largest node there is.  So a pool that got
\* everything back serves what it would have served at first.
FreePoolServes ==
  live = {} => \A n \in Sizes : n + Header <= OneSize => \E i \in Lists : Roomy(i, n)

=============================================================================
