----------------------------- MODULE DBImplProofs -----------------------------
(***************************************************************************)
(* One user's database, for every value of the constants: it uses the      *)
(* table store as ManiFest allows, its log replays to its memtable, no     *)
(* block of the pool is lost, get() answers what was stored last, and the  *)
(* whole of it implements the map of KVStore.                              *)
(***************************************************************************)
EXTENDS DBImpl, ManiFestProofs

Lru == INSTANCE LRUCacheProofs WITH Values <- Blocks

-----------------------------------------------------------------------------
(* The inductive invariant: what each point of the thread owes the others. *)

\* Where the thread stands in an operation says where it stands in the store.
PhaseInv ==
  /\ pc \in {"idle", "flush", "store"} => stage = "idle"
  /\ pc = "storing" => stage \in {"idle", "write", "level", "hung", "threw"}
  /\ pc = "seal" => stage \in {"log", "idle"}
  /\ pc \in {"closed", "down"} => stage \in {"down", "aborted"}

\* One evicted pair waits, and only while a flush makes room for it.
WaitingInv ==
  /\ \A x, y \in DOMAIN pending : x = y
  /\ pc \in {"idle", "seal"} => pending = NoTable

\* The log is a memtable, the one in memory but for the span of a flush.
WalInv ==
  /\ Cardinality(DOMAIN wal_memtable) <= SstSize
  /\ ~wal_open \/ pc \in {"store", "storing"} => wal_memtable = NoTable
  /\ wal_open /\ pc \in {"idle", "flush", "seal"} => wal_memtable = mem_table

LogOK ==
  /\ Cardinality(DOMAIN mem_table) <= SstSize
  /\ mem_table \in Table /\ wal_memtable \in Table /\ pending \in Table
  /\ pc \in {"idle", "flush", "store", "storing", "seal", "closed", "down"}
  /\ PhaseInv /\ WaitingInv /\ WalInv

\* List and trie agree, and every node's block has its contents.
CacheOK ==
  /\ LruTypeOK /\ ListMatchesTrie
  /\ DOMAIN heap \subseteq Blocks /\ \A b \in DOMAIN heap : heap[b] \in Entry
  /\ free \in [Blocks -> Nat]
  /\ \A k \in DOMAIN trie : trie[k].value \in DOMAIN heap

\* What erase() found stays cached until it is marked.
EraseInv ==
  /\ has_closed => erasing = {}
  /\ pc \notin {"closed", "down"} => \A r \in erasing : r[2] # Absent => Cached(r[1])

UserOK ==
  /\ has_closed \in BOOLEAN
  /\ erasing \subseteq Keys \X (Entry \cup {Absent})
  /\ reply = <<>> \/ reply \in Keys \X (Entry \cup {Absent, Threw})
  /\ latest \in [Keys -> Values \cup {Absent}]
  /\ erased \in BOOLEAN

DBOK == LogOK /\ CacheOK /\ UserOK /\ EraseInv

BaseInv == TypeInv /\ DBOK

\* A block is free once, or the block of one node.
Spare(b) == free[b] = 1 /\ \A k \in DOMAIN trie : trie[k].value # b
Lent(b)  == free[b] = 0 /\ \E k \in DOMAIN trie : \A x \in DOMAIN trie : trie[x].value = b <=> x = k
BlockInv == ~erased => \A b \in Blocks : Spare(b) \/ Lent(b)

\* When the memtable goes to the store nothing is left to lose in it, and the
\* database closes empty.
SentInv ==
  /\ pc = "storing" =>
       \A k \in DOMAIN mem_table : k \in DOMAIN newest /\ newest[k] = mem_table[k]
  /\ pc = "seal" => DOMAIN trie = {} /\ mem_table = NoTable

\* What the user sees of an entry, the entry under the cache, and the entry of
\* the first layer that has one.
User(e)    == IF e = Deleted THEN Absent ELSE e
Cell(k)    == heap[trie[k].value]
Stable(k)  == IF k \in DOMAIN newest THEN newest[k] ELSE Absent
Beneath(k) == IF k \in DOMAIN pending THEN pending[k]
              ELSE IF InMem(k) THEN mem_table[k] ELSE Stable(k)
Top(k)     == IF Cached(k) THEN Cell(k) ELSE Beneath(k)

\* A clean copy in the cache says what is beneath it.
CleanInv == \A k \in DOMAIN trie : ~trie[k].has_modified => User(Cell(k)) = User(Beneath(k))

\* The first layer that has a key has what the user stored last; a database
\* that is not open left it all in its files.
LayerInv ==
  intact /\ ~erased =>
    IF pc \in {"closed", "down"}
    THEN \A k \in Keys : latest[k] = Survivor(k)
    ELSE CleanInv /\ \A k \in Keys : User(Top(k)) = latest[k]

-----------------------------------------------------------------------------
(* The database takes the store's steps only.                              *)

LEMMA Constants == ConstantsOK
PROOF BY KeysAssumption, EntriesAssumption, SizesAssumption, PowersAssumption, RingAssumption
      DEF ConstantsOK

\* Whatever the database does, the store sees one of its own steps, or none;
\* what it is given is never more than a table.
LEMMA StepOfStore ==
  ASSUME mem_table \in Table, Cardinality(DOMAIN mem_table) <= SstSize, [Next]_vars
  PROVE  [ManiFestNext]_mvars
PROOF
  <1>1. CASE \E k \in Keys, v \in Values : Put(k, v)
    BY <1>1 DEF Put
  <1>2. CASE \E k \in Keys : Get(k) \/ Erase(k)
    BY <1>2 DEF Get, Erase
  <1>3. CASE EraseDies \/ CrashDB
    <2>1. Crash
      BY <1>3 DEF EraseDies, CrashDB, Die
    <2> QED BY <2>1 DEF ManiFestNext, ManiFestStep
  <1>4. CASE EraseMark \/ FlushMem \/ FlushDone \/ Close \/ CloseNode \/ CloseFlush
    BY <1>4 DEF EraseMark, FlushMem, FlushDone, Close, CloseNode, CloseFlush
  <1>5. CASE StoreTable
    <2>1. PutTable(mem_table) /\ mem_table \in Flushed
      BY <1>5 DEF StoreTable, Flushed
    <2> QED BY <2>1 DEF ManiFestNext
  <1>6. CASE CloseManifest \/ CloseDone
    <2>1. FlushClear \/ Crash
      BY <1>6 DEF CloseManifest, CloseDone
    <2> QED BY <2>1 DEF ManiFestNext, ManiFestStep
  <1>7. CASE OpenDB \/ OpenDBAborts
    <2>1. Open \/ OpenAborts
      BY <1>7 DEF OpenDB, OpenDBAborts
    <2> QED BY <2>1 DEF ManiFestNext, ManiFestStep
  <1>8. CASE ManiFestRuns
    BY <1>8 DEF ManiFestRuns, ManiFestNext, ManiFestStep
  <1>9. CASE UNCHANGED vars
    BY <1>9 DEF vars
  <1> QED BY <1>1, <1>2, <1>3, <1>4, <1>5, <1>6, <1>7, <1>8, <1>9 DEF Next, Step

-----------------------------------------------------------------------------
(* Memtable and log.                                                       *)

\* A map and one pair more.
LEMMA OverwriteOne ==
  ASSUME NEW f \in Table, NEW g \in Table, \A x, y \in DOMAIN g : x = y
  PROVE  /\ Overwrite(f, g) \in Table
         /\ DOMAIN g \subseteq DOMAIN f => Cardinality(DOMAIN Overwrite(f, g)) = Cardinality(DOMAIN f)
         /\ Cardinality(DOMAIN Overwrite(f, g)) <= Cardinality(DOMAIN f) + 1
         /\ Cardinality(DOMAIN f) \in Nat
PROOF
  <1>1. /\ Overwrite(f, g) \in Table
        /\ DOMAIN Overwrite(f, g) = DOMAIN f \cup DOMAIN g
    BY OverwriteTable DEF Overwrite
  <1>2. IsFiniteSet(DOMAIN f) /\ Cardinality(DOMAIN f) \in Nat
    BY KeysAssumption, TableFacts, FS_Subset, FS_CardinalityType
  <1>3. DOMAIN g \subseteq DOMAIN f => DOMAIN Overwrite(f, g) = DOMAIN f
    BY <1>1
  <1>4. CASE DOMAIN g \subseteq DOMAIN f
    BY <1>1, <1>2, <1>3, <1>4
  <1>5. CASE ~(DOMAIN g \subseteq DOMAIN f)
    <2>1. PICK x \in DOMAIN g : x \notin DOMAIN f
      BY <1>5
    <2>2. DOMAIN Overwrite(f, g) = DOMAIN f \cup {x}
      BY <2>1, <1>1
    <2>3. Cardinality(DOMAIN f \cup {x}) = Cardinality(DOMAIN f) + 1
      BY <2>1, <1>2, FS_AddElement
    <2> QED BY <1>1, <1>2, <1>5, <2>2, <2>3
  <1> QED BY <1>4, <1>5

LEMMA OverwriteNothing ==
  ASSUME NEW f \in Table
  PROVE  Overwrite(NoTable, f) = f
PROOF
  <1>1. f = [k \in DOMAIN f |-> f[k]]
    BY TableFacts
  <1> QED BY <1>1 DEF Overwrite, NoTable

LEMMA NoTableSize == DOMAIN NoTable = {} /\ Cardinality(DOMAIN NoTable) = 0
PROOF BY FS_EmptySet DEF NoTable

\* A pair that leaves the cache goes to memtable and log, or waits.
LEMMA SpillKeeps ==
  ASSUME LogOK, pc = "idle", UNCHANGED <<stage, wal_open>>,
         NEW ev \in Table, \A x, y \in DOMAIN ev : x = y, Spill(ev)
  PROVE  LogOK' /\ pc' \in {"idle", "flush"}
PROOF
  <1>1. SstSize \in Nat /\ SstSize > 0
    BY SizesAssumption
  <1>2. /\ Cardinality(DOMAIN mem_table) <= SstSize /\ Cardinality(DOMAIN wal_memtable) <= SstSize
        /\ mem_table \in Table /\ wal_memtable \in Table /\ pending = NoTable
        /\ ~wal_open => wal_memtable = NoTable
        /\ wal_open => wal_memtable = mem_table
        /\ stage = "idle"
    BY DEF LogOK, PhaseInv, WaitingInv, WalInv
  <1>3. CASE MemFull(ev)
    <2>1. pc' = "flush" /\ pending' = ev /\ UNCHANGED <<mem_table, wal_memtable>>
      BY <1>3 DEF Spill
    <2> QED BY <1>2, <2>1 DEF LogOK, PhaseInv, WaitingInv, WalInv
  <1>4. CASE ~MemFull(ev)
    <2>1. /\ mem_table' = Overwrite(mem_table, ev) /\ UNCHANGED <<pc, pending>>
          /\ wal_memtable' = IF wal_open THEN Overwrite(wal_memtable, ev) ELSE wal_memtable
      BY <1>4 DEF Spill, Logged
    <2>2. mem_table' \in Table /\ Cardinality(DOMAIN mem_table') <= SstSize
      <3>1. PICK m : m = mem_table'
        OBVIOUS
      <3>2. /\ m \in Table /\ Cardinality(DOMAIN mem_table) \in Nat
            /\ DOMAIN ev \subseteq DOMAIN mem_table
                 => Cardinality(DOMAIN m) = Cardinality(DOMAIN mem_table)
            /\ Cardinality(DOMAIN m) <= Cardinality(DOMAIN mem_table) + 1
        BY <1>2, <2>1, <3>1, OverwriteOne
      <3>3. Cardinality(DOMAIN m) \in Nat
        BY <3>2, KeysAssumption, TableFacts, FS_Subset, FS_CardinalityType
      <3>4. DOMAIN ev \subseteq DOMAIN mem_table \/ Cardinality(DOMAIN mem_table) # SstSize
        BY <1>4 DEF MemFull
      <3>5. Cardinality(DOMAIN m) <= SstSize
        BY <1>1, <1>2, <3>2, <3>3, <3>4
      <3> QED BY <3>1, <3>2, <3>5
    <2>3. /\ wal_open => wal_memtable' = mem_table'
          /\ ~wal_open => wal_memtable' = NoTable
      BY <1>2, <2>1
    <2>4. wal_memtable' \in Table /\ Cardinality(DOMAIN wal_memtable') <= SstSize
      BY <1>1, <1>2, <2>2, <2>3, NoTableFacts, NoTableSize
    <2> QED BY <1>2, <2>1, <2>2, <2>3, <2>4 DEF LogOK, PhaseInv, WaitingInv, WalInv
  <1> QED BY <1>3, <1>4

-----------------------------------------------------------------------------
(* The cache.                                                              *)

LEMMA CacheConstants == CacheSize \in Nat \ {0} /\ Lru!CapacityAssumption
PROOF BY BlocksAssumption DEF Lru!CapacityAssumption

\* LRUCache's definitions, under its own name and under the database's.
LEMMA SameCache ==
  /\ Lru!LruInv <=> LruTypeOK /\ ListMatchesTrie
  /\ \A k : Lru!Cached(k) <=> Cached(k)
  /\ Lru!Full <=> Full
PROOF BY DEF Lru!LruInv, Lru!LruTypeOK, LruTypeOK, Lru!ListMatchesTrie, ListMatchesTrie,
             Lru!Node, Node, Lru!Cached, Cached, Lru!Full, Full

LEMMA TouchTypes ==
  ASSUME LruTypeOK, ListMatchesTrie, NEW k, Cached(k), Touch(k)
  PROVE  LruTypeOK' /\ ListMatchesTrie' /\ trie' = trie
PROOF
  <1>1. Lru!LruInv /\ Lru!Cached(k)
    BY SameCache
  <1>2. Lru!Touch(k)
    BY DEF Touch, Lru!Touch, MovedFront, Lru!MovedFront, Position, Lru!Position
  <1>3. Lru!LruInv'
    BY <1>1, <1>2, CacheConstants, Lru!TouchKeeps
  <1>4. LruTypeOK' /\ ListMatchesTrie'
    BY <1>3 DEF Lru!LruInv, Lru!LruTypeOK, LruTypeOK, Lru!ListMatchesTrie, ListMatchesTrie,
                Lru!Node, Node
  <1> QED BY <1>4 DEF Touch

\* The node at the back is a cached one.
LEMMA BackIsCached ==
  ASSUME LruTypeOK, ListMatchesTrie, NEW k
  PROVE  /\ Dropped(k) \subseteq DOMAIN trie /\ k \notin Dropped(k)
         /\ \A x, y \in Dropped(k) : x = y
         /\ Full => Back \in DOMAIN trie
PROOF
  <1>1. Full => Len(lrulist) \in 1..Len(lrulist)
    BY CacheConstants DEF Full
  <1>2. Full => Back \in DOMAIN trie
    BY <1>1 DEF ListMatchesTrie, Back
  <1> QED BY <1>2 DEF Dropped, Cached

\* put() of the cache: the key has the value, the dropped key is gone, the
\* others are as they were.
Placed(k, v, new_kv) ==
  /\ LruTypeOK' /\ ListMatchesTrie'
  /\ DOMAIN trie' = (DOMAIN trie \ Dropped(k)) \cup {k}
  /\ trie'[k].value = v /\ trie'[k].has_modified = new_kv
  /\ \A x \in DOMAIN trie' : x # k => x \in DOMAIN trie /\ trie'[x] = trie[x]

LEMMA LruPutFacts ==
  ASSUME LruTypeOK, ListMatchesTrie, NEW k \in Keys, NEW v \in Blocks, NEW new_kv \in BOOLEAN,
         LruPut(k, v, new_kv)
  PROVE  Placed(k, v, new_kv)
PROOF
  <1>1. Lru!LruInv
    BY SameCache
  <1>2. Lru!LruInv'
    <2>1. CASE Replace(k, v, new_kv)
      <3>1. Lru!Replace(k, v, new_kv)
        BY <2>1 DEF Replace, Lru!Replace, Cached, Lru!Cached, MovedFront, Lru!MovedFront,
                    Position, Lru!Position
      <3> QED BY <3>1, <1>1, CacheConstants, Lru!ReplaceKeeps
    <2>2. CASE Insert(k, v, new_kv)
      <3>1. Lru!Insert(k, v, new_kv)
        BY <2>2 DEF Insert, Lru!Insert, Cached, Lru!Cached, Full, Lru!Full, Back, Lru!Back
      <3> QED BY <3>1, <1>1, CacheConstants, Lru!InsertKeeps
    <2> QED BY <2>1, <2>2 DEF LruPut
  <1>3. LruTypeOK' /\ ListMatchesTrie'
    BY <1>2 DEF Lru!LruInv, Lru!LruTypeOK, LruTypeOK, Lru!ListMatchesTrie, ListMatchesTrie,
                Lru!Node, Node
  <1>4. CASE Replace(k, v, new_kv)
    <2>1. /\ Cached(k)
          /\ trie' = [trie EXCEPT ![k] = [value |-> v, has_modified |-> new_kv]]
      BY <1>4 DEF Replace
    <2>2. Dropped(k) = {} /\ k \in DOMAIN trie
      BY <2>1 DEF Dropped, Cached
    <2>3. trie = [x \in DOMAIN trie |-> trie[x]]
      BY DEF LruTypeOK
    <2>4. /\ DOMAIN trie' = DOMAIN trie
          /\ trie'[k] = [value |-> v, has_modified |-> new_kv]
          /\ \A x \in DOMAIN trie : x # k => trie'[x] = trie[x]
      BY <2>1, <2>2, <2>3
    <2> QED BY <1>3, <2>2, <2>4 DEF Placed
  <1>5. CASE Insert(k, v, new_kv)
    <2>1. PICK rest : /\ rest = IF Full THEN DOMAIN trie \ {Back} ELSE DOMAIN trie
                      /\ trie' = [x \in rest \cup {k} |->
                                    IF x = k THEN [value |-> v, has_modified |-> new_kv]
                                    ELSE trie[x]]
      BY <1>5 DEF Insert
    <2>2. rest = DOMAIN trie \ Dropped(k)
      BY <1>5, <2>1 DEF Insert, Dropped
    <2>3. /\ DOMAIN trie' = rest \cup {k}
          /\ trie'[k] = [value |-> v, has_modified |-> new_kv]
          /\ \A x \in rest : x # k => trie'[x] = trie[x]
      BY <2>1
    <2> QED BY <1>3, <2>2, <2>3 DEF Placed
  <1> QED BY <1>4, <1>5 DEF LruPut

\* What put() writes into the blocks when it was given b.
Written(b, entry) == Overwrite(heap, [x \in {b} |-> entry])

\* put() with the block it was given.
Caches(k, entry, new_kv, list, b) ==
  /\ LruPut(k, b, new_kv)
  /\ free' = Freed(Taken(list, b), LetGo(k))
  /\ heap' = [x \in {trie'[y].value : y \in DOMAIN trie'} |-> Written(b, entry)[x]]
  /\ Spill([x \in Evicted(k) |-> Written(b, entry)[trie[x].value]])

LEMMA CachePutPicks ==
  ASSUME NEW k, NEW entry, NEW new_kv, NEW list, CachePut(k, entry, new_kv, list)
  PROVE  \E b \in Blocks : list[b] > 0 /\ Caches(k, entry, new_kv, list, b)
PROOF BY DEF CachePut, Caches, Written

LEMMA WrittenFacts ==
  ASSUME CacheOK, NEW b \in Blocks, NEW entry \in Entry
  PROVE  /\ DOMAIN Written(b, entry) = DOMAIN heap \cup {b}
         /\ Written(b, entry)[b] = entry
         /\ \A x \in DOMAIN heap : x # b => Written(b, entry)[x] = heap[x]
         /\ \A x \in DOMAIN Written(b, entry) : Written(b, entry)[x] \in Entry
PROOF BY DEF Written, Overwrite, CacheOK

\* The pair that leaves: one at most, with the contents of its block.
LEMMA EvictedPair ==
  ASSUME CacheOK, NEW k \in Keys, NEW b \in Blocks, NEW entry \in Entry,
         NEW ev, ev = [x \in Evicted(k) |-> Written(b, entry)[trie[x].value]]
  PROVE  /\ ev \in Table /\ DOMAIN ev = Evicted(k) /\ \A x, y \in DOMAIN ev : x = y
         /\ \A x \in DOMAIN ev : ev[x] = Written(b, entry)[trie[x].value]
PROOF
  <1>1. Dropped(k) \subseteq DOMAIN trie /\ \A x, y \in Dropped(k) : x = y
    BY BackIsCached DEF CacheOK
  <1>2. Evicted(k) \subseteq DOMAIN trie /\ \A x, y \in Evicted(k) : x = y
    BY <1>1 DEF Evicted
  <1>3. DOMAIN trie \subseteq Keys
    BY DEF CacheOK, LruTypeOK
  <1>4. \A x \in Evicted(k) : Written(b, entry)[trie[x].value] \in Entry
    <2>1. \A x \in Evicted(k) : trie[x].value \in DOMAIN heap
      BY <1>2 DEF CacheOK
    <2> QED BY <2>1, WrittenFacts
  <1>5. /\ DOMAIN ev = Evicted(k) /\ ev = [x \in DOMAIN ev |-> ev[x]]
        /\ \A x \in DOMAIN ev : ev[x] = Written(b, entry)[trie[x].value]
    OBVIOUS
  <1>6. ev \in Table
    BY <1>2, <1>3, <1>4, <1>5, TableIntro
  <1> QED BY <1>2, <1>5, <1>6

LEMMA CachePutKeeps ==
  ASSUME CacheOK, LogOK, pc = "idle", UNCHANGED <<stage, wal_open>>,
         NEW k \in Keys, NEW entry \in Entry, NEW new_kv \in BOOLEAN,
         NEW list \in [Blocks -> Nat], CachePut(k, entry, new_kv, list)
  PROVE  CacheOK' /\ LogOK' /\ pc' \in {"idle", "flush"} /\ k \in DOMAIN trie'
PROOF
  <1>1. PICK b \in Blocks : list[b] > 0 /\ Caches(k, entry, new_kv, list, b)
    BY CachePutPicks
  <1>2. LruTypeOK /\ ListMatchesTrie
    BY DEF CacheOK
  <1>3. /\ LruTypeOK' /\ ListMatchesTrie' /\ k \in DOMAIN trie' /\ trie'[k].value = b
        /\ \A x \in DOMAIN trie' : x # k => x \in DOMAIN trie /\ trie'[x] = trie[x]
    <2>1. LruPut(k, b, new_kv)
      BY <1>1 DEF Caches
    <2>2. Placed(k, b, new_kv)
      BY <1>2, <2>1, LruPutFacts
    <2> QED BY <2>2 DEF Placed
  <1>4. free' \in [Blocks -> Nat]
    <2>1. Taken(list, b) \in [Blocks -> Nat]
      BY <1>1 DEF Taken
    <2> QED BY <1>1, <2>1 DEF Caches, Freed
  <1>5. PICK w : w = Written(b, entry)
    OBVIOUS
  <1>6. DOMAIN w = DOMAIN heap \cup {b} /\ \A x \in DOMAIN w : w[x] \in Entry
    BY <1>5, WrittenFacts
  <1>7. heap' = [x \in {trie'[y].value : y \in DOMAIN trie'} |-> w[x]]
    BY <1>1, <1>5 DEF Caches
  <1>8. \A y \in DOMAIN trie' : trie'[y].value \in DOMAIN w /\ trie'[y].value \in DOMAIN heap'
    BY <1>3, <1>6, <1>7 DEF CacheOK
  <1>9. DOMAIN heap' \subseteq DOMAIN w /\ \A x \in DOMAIN heap' : heap'[x] = w[x]
    BY <1>7, <1>8
  <1>10. CacheOK'
    BY <1>3, <1>4, <1>6, <1>8, <1>9 DEF CacheOK
  <1>11. PICK ev : ev = [x \in Evicted(k) |-> Written(b, entry)[trie[x].value]]
    OBVIOUS
  <1>12. ev \in Table /\ \A x, y \in DOMAIN ev : x = y
    BY <1>11, EvictedPair
  <1>13. Spill(ev)
    BY <1>1, <1>11 DEF Caches
  <1>14. LogOK' /\ pc' \in {"idle", "flush"}
    BY <1>12, <1>13, SpillKeeps
  <1> QED BY <1>3, <1>10, <1>14

-----------------------------------------------------------------------------
(* Type correctness, and what the thread owes between its steps.           *)

\* What a read of the store returns.
LEMMA LookupType ==
  ASSUME ManiFestTypeOK, NEW k \in Keys
  PROVE  Lookup(k) \in Entry \cup {Absent}
PROOF
  <1>1. Levels \subseteq Nat /\ 0 \in Levels
    BY SizesAssumption DEF Levels
  <1>2. \A l \in Levels : \A i \in DOMAIN disk[l] : \A x \in DOMAIN disk[l][i] : disk[l][i][x] \in Entry
    <2>1. \A l \in Levels : \A i \in DOMAIN disk[l] : disk[l][i] \in Table
      BY DEF ManiFestTypeOK, IsFiles
    <2> QED BY <2>1, TableFacts
  <1>3. ASSUME NEW l \in Levels, Holds(l, k)
        PROVE  ValueAt(l, k) \in Entry
    <2>1. CASE l = 0
      <3>1. Level0Hits(k) # {} /\ Level0Hits(k) \in SUBSET Nat
        BY <1>3, <2>1, RingAssumption DEF Holds, Level0Hits, Ages
      <3>2. PICK a : a = Min(Level0Hits(k))
        OBVIOUS
      <3>3. a \in Level0Hits(k)
        BY <3>1, <3>2, MinOf
      <3>4. Slot(a) \in DOMAIN disk[0] /\ k \in DOMAIN disk[0][Slot(a)]
        BY <3>3 DEF Level0Hits
      <3>5. ValueAt(0, k) = disk[0][Slot(a)][k]
        BY <3>2 DEF ValueAt
      <3> QED BY <1>1, <1>2, <2>1, <3>4, <3>5
    <2>2. CASE l # 0
      BY <1>2, <1>3, <2>2 DEF Holds, ValueAt, Stored
    <2> QED BY <2>1, <2>2
  <1>4. CASE Holding(k) = {}
    BY <1>4 DEF Lookup
  <1>5. CASE Holding(k) # {}
    <2>1. Holding(k) \in SUBSET Nat
      BY <1>1 DEF Holding
    <2>2. PICK l : l = Min(Holding(k))
      OBVIOUS
    <2>3. l \in Holding(k)
      BY <1>5, <2>1, <2>2, MinOf
    <2>4. Lookup(k) = ValueAt(l, k) /\ l \in Levels /\ Holds(l, k)
      BY <1>5, <2>2, <2>3 DEF Lookup, Holding
    <2> QED BY <2>4, <1>3
  <1> QED BY <1>4, <1>5

LEMMA AnswerType ==
  ASSUME BaseInv, NEW k \in Keys
  PROVE  /\ Answer(k) \in Entry \cup {Absent, Threw}
         /\ Below(k) \in Entry \cup {Absent}
         /\ InMem(k) => mem_table[k] \in Entry
         /\ Cached(k) => heap[trie[k].value] \in Entry
PROOF
  <1>1. Lookup(k) \in Entry \cup {Absent}
    BY LookupType DEF BaseInv, DBOK, TypeInv
  <1>2. InMem(k) => mem_table[k] \in Entry
    BY TableFacts DEF BaseInv, DBOK, LogOK, InMem
  <1>3. Cached(k) => heap[trie[k].value] \in Entry
    BY DEF BaseInv, DBOK, CacheOK, Cached
  <1>4. Below(k) \in Entry \cup {Absent}
    BY <1>1, <1>2 DEF Below
  <1>5. Answer(k) \in Entry \cup {Absent, Threw}
    BY <1>1, <1>2, <1>3 DEF Answer
  <1> QED BY <1>2, <1>3, <1>4, <1>5

\* What get() and erase() do alike.
LEMMA FetchKeeps ==
  ASSUME BaseInv, pc = "idle", UNCHANGED <<stage, wal_open>>, NEW k \in Keys, Fetch(k)
  PROVE  /\ CacheOK' /\ LogOK' /\ pc' \in {"idle", "flush"}
         /\ Answer(k) \notin {Absent, Threw} => k \in DOMAIN trie'
PROOF
  <1>1. CacheOK /\ LogOK
    BY DEF BaseInv, DBOK
  <1>2. CASE /\ Cached(k) /\ Touch(k)
             /\ UNCHANGED <<heap, free, mem_table, wal_memtable, pending, pc>>
    <2>1. LruTypeOK' /\ ListMatchesTrie' /\ trie' = trie
      BY <1>1, <1>2, TouchTypes DEF CacheOK
    <2>2. CacheOK'
      BY <1>1, <1>2, <2>1 DEF CacheOK
    <2>3. LogOK'
      BY <1>1, <1>2 DEF LogOK, PhaseInv, WaitingInv, WalInv
    <2> QED BY <1>2, <2>1, <2>2, <2>3 DEF Cached
  <1>3. CASE /\ ~Cached(k) /\ (InMem(k) \/ ~Throws(k)) /\ Below(k) # Absent
             /\ CachePut(k, Below(k), FALSE, free)
    <2>1. PICK entry \in Entry : entry = Below(k)
      BY <1>3, AnswerType
    <2>2. free \in [Blocks -> Nat] /\ CachePut(k, entry, FALSE, free)
      BY <1>1, <1>3, <2>1 DEF CacheOK
    <2> QED BY <1>1, <2>1, <2>2, CachePutKeeps
  <1>4. CASE /\ ~Cached(k) /\ ~InMem(k) /\ (Throws(k) \/ Lookup(k) = Absent)
             /\ UNCHANGED <<lruvars, mem_table, wal_memtable, pending, pc>>
    <2>1. Answer(k) \in {Absent, Threw}
      BY <1>4 DEF Answer
    <2>2. CacheOK'
      BY <1>1, <1>4 DEF CacheOK, LruTypeOK, ListMatchesTrie, lruvars
    <2>3. LogOK'
      BY <1>1, <1>4 DEF LogOK, PhaseInv, WaitingInv, WalInv
    <2> QED BY <1>4, <2>1, <2>2, <2>3
  <1> QED BY <1>2, <1>3, <1>4 DEF Fetch

\* Steps that leave the cache alone, or what the user knows.
LEMMA CacheStays ==
  ASSUME CacheOK, UNCHANGED lruvars
  PROVE  CacheOK' /\ \A x : Cached(x)' <=> Cached(x)
PROOF BY DEF CacheOK, LruTypeOK, ListMatchesTrie, lruvars, Cached

LEMMA PutTypes ==
  ASSUME BaseInv, NEW k \in Keys, NEW v \in Values, Put(k, v)
  PROVE  DBOK'
PROOF
  <1>1. /\ pc = "idle" /\ UNCHANGED <<stage, wal_open>> /\ erasing = {}
        /\ CachePut(k, v, TRUE, free) /\ latest' = [latest EXCEPT ![k] = v]
        /\ UNCHANGED <<has_closed, erasing, reply, erased>>
    BY DEF Put, Ready, mvars
  <1>2. v \in Entry /\ free \in [Blocks -> Nat] /\ CacheOK /\ LogOK
    BY DEF Entry, BaseInv, DBOK, CacheOK
  <1>3. CacheOK' /\ LogOK'
    BY <1>1, <1>2, CachePutKeeps
  <1>4. UserOK' /\ EraseInv'
    BY <1>1 DEF BaseInv, DBOK, UserOK, EraseInv
  <1> QED BY <1>3, <1>4 DEF DBOK

LEMMA GetTypes ==
  ASSUME BaseInv, NEW k \in Keys, Get(k) \/ Erase(k)
  PROVE  DBOK'
PROOF
  <1>1. /\ pc = "idle" /\ UNCHANGED <<stage, wal_open>> /\ erasing = {} /\ ~has_closed
        /\ Fetch(k) /\ UNCHANGED <<has_closed, latest, erased>>
    BY DEF Get, Erase, Ready, mvars
  <1>2. /\ CacheOK' /\ LogOK' /\ pc' \in {"idle", "flush"}
        /\ Answer(k) \notin {Absent, Threw} => Cached(k)'
    BY <1>1, FetchKeeps DEF Cached
  <1>3. Answer(k) \in Entry \cup {Absent, Threw}
    BY AnswerType
  <1>4. CASE Get(k)
    <2>1. reply' = <<k, Answer(k)>> /\ erasing' = {}
      BY <1>1, <1>4 DEF Get
    <2>2. UserOK' /\ EraseInv'
      BY <1>1, <1>3, <2>1 DEF BaseInv, DBOK, UserOK, EraseInv
    <2> QED BY <1>2, <2>2 DEF DBOK
  <1>5. CASE Erase(k)
    <2>1. PICK a \in Entry \cup {Absent} : a = Answer(k)
      BY <1>3, <1>5 DEF Erase
    <2>2. erasing' = {<<k, a>>} /\ reply' = reply /\ a # Threw
      BY <1>5, <2>1 DEF Erase
    <2>3. UserOK'
      BY <1>1, <2>2 DEF BaseInv, DBOK, UserOK
    <2>4. \A r \in erasing' : r[2] # Absent => Cached(r[1])'
      BY <1>2, <2>1, <2>2
    <2>5. EraseInv'
      BY <1>1, <2>4 DEF EraseInv
    <2> QED BY <1>2, <2>3, <2>5 DEF DBOK
  <1> QED BY <1>4, <1>5

\* erase() marks the key it read; the block it gives back is its node's.
EraseMarks(k, found, list) ==
  /\ list = Freed(free, found)
  /\ CachePut(k, Deleted, TRUE, list)
  /\ latest' = [latest EXCEPT ![k] = Absent]
  /\ erased' = (erased \/ found # {})

LEMMA EraseMarkPicks ==
  ASSUME BaseInv, EraseMark
  PROVE  \E k \in Keys, found \in SUBSET Blocks, list \in [Blocks -> Nat] :
           EraseMarks(k, found, list)
PROOF
  <1>1. PICK r \in erasing :
           LET k     == r[1]
               found == IF r[2] = Absent THEN {} ELSE {trie[k].value}
           IN  /\ CachePut(k, Deleted, TRUE, Freed(free, found))
               /\ latest' = [latest EXCEPT ![k] = Absent]
               /\ erased' = (erased \/ found # {})
    BY DEF EraseMark
  <1>2. PICK found : found = IF r[2] = Absent THEN {} ELSE {trie[r[1]].value}
    OBVIOUS
  <1>3. r[1] \in Keys
    BY DEF BaseInv, DBOK, UserOK
  <1>4. pc = "idle"
    BY DEF EraseMark, Ready
  <1>5. r[2] # Absent => r[1] \in DOMAIN trie
    BY <1>4 DEF BaseInv, DBOK, EraseInv, Cached
  <1>6. found \in SUBSET Blocks
    BY <1>2, <1>5 DEF BaseInv, DBOK, CacheOK
  <1>7. Freed(free, found) \in [Blocks -> Nat]
    BY DEF Freed, BaseInv, DBOK, CacheOK
  <1>8. EraseMarks(r[1], found, Freed(free, found))
    BY <1>1, <1>2 DEF EraseMarks
  <1> QED BY <1>3, <1>6, <1>7, <1>8

LEMMA EraseMarkTypes ==
  ASSUME BaseInv, EraseMark
  PROVE  DBOK'
PROOF
  <1>1. PICK k \in Keys, found \in SUBSET Blocks, list \in [Blocks -> Nat] :
           EraseMarks(k, found, list)
    BY EraseMarkPicks
  <1>2. /\ pc = "idle" /\ UNCHANGED <<stage, wal_open>> /\ ~has_closed
        /\ erasing' = {} /\ UNCHANGED <<has_closed, reply>>
    BY DEF EraseMark, Ready, mvars
  <1>3. Deleted \in Entry /\ CacheOK /\ LogOK /\ CachePut(k, Deleted, TRUE, list)
    BY <1>1 DEF Entry, BaseInv, DBOK, EraseMarks
  <1>4. CacheOK' /\ LogOK'
    BY <1>2, <1>3, CachePutKeeps
  <1>5. latest' = [latest EXCEPT ![k] = Absent] /\ erased' \in BOOLEAN
    BY <1>1 DEF EraseMarks
  <1>6. UserOK' /\ EraseInv'
    BY <1>2, <1>5 DEF BaseInv, DBOK, UserOK, EraseInv
  <1> QED BY <1>4, <1>6 DEF DBOK

LEMMA DieTypes ==
  ASSUME BaseInv, Die
  PROVE  DBOK'
PROOF
  <1>1. /\ pc' = "down" /\ stage' = "down" /\ UNCHANGED wal_open /\ UNCHANGED lruvars
        /\ latest' = [k \in Keys |-> Survivor(k)]
        /\ UNCHANGED <<mem_table, wal_memtable, pending, has_closed, erasing, reply, erased>>
    BY DEF Die, Crash
  <1>2. CacheOK'
    BY <1>1, CacheStays DEF BaseInv, DBOK
  <1>3. LogOK'
    BY <1>1 DEF BaseInv, DBOK, LogOK, PhaseInv, WaitingInv, WalInv
  <1>4. \A k \in Keys : Survivor(k) \in Values \cup {Absent}
    <2>1. wal_memtable \in Table /\ newest \in Table
      BY DEF BaseInv, DBOK, LogOK, TypeInv, ManiFestTypeOK
    <2>2. /\ \A k \in DOMAIN wal_memtable : wal_memtable[k] \in Entry
          /\ \A k \in DOMAIN newest : newest[k] \in Entry
      BY <2>1, TableFacts
    <2> QED BY <2>2 DEF Survivor, Entry
  <1>5. UserOK' /\ EraseInv'
    BY <1>1, <1>4 DEF BaseInv, DBOK, UserOK, EraseInv
  <1> QED BY <1>2, <1>3, <1>5 DEF DBOK

LEMMA FlushTypes ==
  ASSUME BaseInv, FlushMem \/ StoreTable \/ FlushDone
  PROVE  DBOK'
PROOF
  <1>1. /\ UNCHANGED lruvars /\ UNCHANGED <<has_closed, erasing, reply, latest, erased>>
        /\ UNCHANGED wal_open /\ pc \notin {"closed", "down"}
    BY DEF FlushMem, StoreTable, FlushDone, PutTable, mvars
  <1>2. CacheOK' /\ \A x : Cached(x)' <=> Cached(x)
    BY <1>1, CacheStays DEF BaseInv, DBOK
  <1>3. UserOK' /\ EraseInv'
    BY <1>1, <1>2 DEF BaseInv, DBOK, UserOK, EraseInv
  <1>4. SstSize \in Nat /\ SstSize > 0
    BY SizesAssumption
  <1>5. LogOK'
    <2>1. CASE FlushMem
      <3>1. /\ pc = "flush" /\ pc' = "store" /\ wal_memtable' = NoTable
            /\ UNCHANGED <<stage, wal_open, mem_table, pending>>
        BY <2>1 DEF FlushMem, mvars
      <3>2. NoTable \in Table /\ Cardinality(DOMAIN NoTable) <= SstSize
        BY <1>4, NoTableFacts, NoTableSize
      <3> QED BY <3>1, <3>2 DEF BaseInv, DBOK, LogOK, PhaseInv, WaitingInv, WalInv
    <2>2. CASE StoreTable
      <3>1. /\ pc = "store" /\ pc' = "storing" /\ stage' = "write"
            /\ UNCHANGED <<wal_open, mem_table, wal_memtable, pending>>
        BY <2>2 DEF StoreTable, PutTable
      <3> QED BY <3>1 DEF BaseInv, DBOK, LogOK, PhaseInv, WaitingInv, WalInv
    <2>3. CASE FlushDone
      <3>1. /\ pc = "storing" /\ stage = "idle" /\ mem_table' = pending
            /\ wal_memtable' = Logged(Overwrite(wal_memtable, pending))
            /\ pending' = NoTable /\ pc' = "idle" /\ UNCHANGED <<stage, wal_open>>
        BY <2>3 DEF FlushDone, mvars
      <3>2. wal_memtable = NoTable /\ pending \in Table /\ \A x, y \in DOMAIN pending : x = y
        BY <3>1 DEF BaseInv, DBOK, LogOK, WaitingInv, WalInv
      <3>3. wal_memtable' = IF wal_open THEN pending ELSE NoTable
        BY <3>1, <3>2, OverwriteNothing DEF Logged
      <3>4. Cardinality(DOMAIN pending) <= SstSize
        <4>1. NoTable \in Table /\ Overwrite(NoTable, pending) = pending
          BY <3>2, NoTableFacts, OverwriteNothing
        <4>2. Cardinality(DOMAIN Overwrite(NoTable, pending)) <= Cardinality(DOMAIN NoTable) + 1
          BY <3>2, <4>1, OverwriteOne
        <4>3. Cardinality(DOMAIN pending) <= 1
          BY <4>1, <4>2, NoTableSize
        <4>4. Cardinality(DOMAIN pending) \in Nat
          BY <3>2, KeysAssumption, TableFacts, FS_Subset, FS_CardinalityType
        <4> QED BY <4>3, <4>4, <1>4
      <3>5. NoTable \in Table /\ Cardinality(DOMAIN NoTable) <= SstSize
        BY <1>4, NoTableFacts, NoTableSize
      <3>6. \A x, y \in DOMAIN NoTable : x = y
        BY NoTableSize
      <3> QED BY <3>1, <3>2, <3>3, <3>4, <3>5, <3>6 DEF LogOK, PhaseInv, WaitingInv, WalInv
    <2> QED BY <2>1, <2>2, <2>3
  <1> QED BY <1>2, <1>3, <1>5 DEF DBOK

\* A node leaves list and trie together.
LEMMA HeadLeaves ==
  ASSUME LruTypeOK, ListMatchesTrie, lrulist # <<>>,
         lrulist' = Tail(lrulist), trie' = Without(trie, {Head(lrulist)})
  PROVE  /\ LruTypeOK' /\ ListMatchesTrie' /\ Head(lrulist) \in DOMAIN trie
         /\ DOMAIN trie' = DOMAIN trie \ {Head(lrulist)}
         /\ \A x \in DOMAIN trie' : trie'[x] = trie[x]
PROOF
  <1>1. /\ lrulist \in Seq(Keys) /\ Len(lrulist) \in Nat /\ Len(lrulist) >= 1
        /\ Head(lrulist) = lrulist[1]
    BY DEF LruTypeOK
  <1>2. /\ lrulist' \in Seq(Keys) /\ Len(lrulist') = Len(lrulist) - 1
        /\ \A i \in 1..Len(lrulist') : i + 1 \in 1..Len(lrulist) /\ lrulist'[i] = lrulist[i + 1]
    BY <1>1
  <1>3. /\ Head(lrulist) \in DOMAIN trie /\ DOMAIN trie' = DOMAIN trie \ {Head(lrulist)}
        /\ trie' = [x \in DOMAIN trie' |-> trie'[x]]
        /\ \A x \in DOMAIN trie' : trie'[x] = trie[x]
    <2>1. Head(lrulist) \in DOMAIN trie
      BY <1>1 DEF ListMatchesTrie
    <2> QED BY <2>1 DEF Without
  <1>4. LruTypeOK'
    BY <1>2, <1>3 DEF LruTypeOK, Node
  <1>5. \A i, j \in 1..Len(lrulist) : lrulist[i] = lrulist[j] => i = j
    BY DEF ListMatchesTrie
  <1>6. \A i, j \in 1..Len(lrulist') : lrulist'[i] = lrulist'[j] => i = j
    <2>1. \A i, j \in 1..Len(lrulist') : lrulist'[i] = lrulist'[j] => i + 1 = j + 1
      BY <1>2, <1>5
    <2> QED BY <2>1
  <1>7. {lrulist'[i] : i \in 1..Len(lrulist')} = DOMAIN trie'
    <2>1. ASSUME NEW i \in 1..Len(lrulist')
          PROVE  lrulist'[i] \in DOMAIN trie'
      <3>1. i + 1 \in 1..Len(lrulist) /\ i + 1 # 1 /\ lrulist'[i] = lrulist[i + 1] /\ 1 \in 1..Len(lrulist)
        BY <1>1, <1>2
      <3>2. lrulist[i + 1] # lrulist[1] /\ lrulist[i + 1] \in DOMAIN trie
        BY <3>1, <1>5 DEF ListMatchesTrie
      <3> QED BY <3>1, <3>2, <1>1, <1>3
    <2>2. ASSUME NEW x \in DOMAIN trie'
          PROVE  \E i \in 1..Len(lrulist') : lrulist'[i] = x
      <3>1. PICK j \in 1..Len(lrulist) : lrulist[j] = x
        BY <2>2, <1>3 DEF ListMatchesTrie
      <3>2. j # 1
        BY <3>1, <2>2, <1>1, <1>3
      <3>3. j - 1 \in 1..Len(lrulist') /\ (j - 1) + 1 = j
        BY <3>1, <3>2, <1>1, <1>2
      <3> QED BY <3>1, <3>3, <1>2
    <2> QED BY <2>1, <2>2
  <1>8. Len(lrulist') <= CacheSize
    BY <1>1, <1>2, CacheConstants DEF ListMatchesTrie
  <1>9. ListMatchesTrie'
    BY <1>6, <1>7, <1>8 DEF ListMatchesTrie
  <1> QED BY <1>3, <1>4, <1>9

\* What close() does with a node: its pair, if it was modified.
Leaves(k, ev) ==
  /\ k = Head(lrulist)
  /\ ev = IF trie[k].has_modified THEN [x \in {k} |-> heap[trie[k].value]] ELSE NoTable
  /\ Spill(ev)
  /\ free' = Freed(free, {trie[k].value})
  /\ trie' = Without(trie, {k})

LEMMA CloseNodePicks ==
  ASSUME BaseInv, CloseNode
  PROVE  \E k \in Keys, ev \in Table :
           Leaves(k, ev) /\ k \in DOMAIN trie /\ \A x, y \in DOMAIN ev : x = y
PROOF
  <1>1. PICK k, ev : /\ k = Head(lrulist)
                     /\ ev = IF trie[k].has_modified THEN [x \in {k} |-> heap[trie[k].value]]
                             ELSE NoTable
    OBVIOUS
  <1>2. Leaves(k, ev)
    BY <1>1 DEF CloseNode, Leaves
  <1>3. lrulist # <<>> /\ lrulist' = Tail(lrulist) /\ trie' = Without(trie, {k})
    BY <1>1 DEF CloseNode
  <1>4. k \in DOMAIN trie /\ k \in Keys
    <2>1. LruTypeOK /\ ListMatchesTrie
      BY DEF BaseInv, DBOK, CacheOK
    <2>2. k \in DOMAIN trie
      BY <1>1, <1>3, <2>1, HeadLeaves
    <2> QED BY <2>1, <2>2 DEF LruTypeOK
  <1>5. heap[trie[k].value] \in Entry
    BY <1>4 DEF BaseInv, DBOK, CacheOK
  <1>6. [x \in {k} |-> heap[trie[k].value]] \in Table
    <2>1. [x \in {k} |-> heap[trie[k].value]] \in [{k} -> Entry] /\ {k} \in SUBSET Keys
      BY <1>4, <1>5
    <2> QED BY <2>1 DEF Table
  <1>7. ev \in Table /\ \A x, y \in DOMAIN ev : x = y
    BY <1>1, <1>6, NoTableFacts, NoTableSize
  <1> QED BY <1>2, <1>4, <1>7

LEMMA CloseTypes ==
  ASSUME BaseInv, Close \/ CloseNode \/ CloseFlush \/ CloseManifest \/ CloseDone
  PROVE  DBOK'
PROOF
  <1>1. CASE Close \/ CloseFlush \/ CloseManifest \/ CloseDone
    <2>1. /\ UNCHANGED lruvars /\ UNCHANGED <<mem_table, pending, reply, latest, erased, erasing>>
          /\ UNCHANGED wal_open /\ pc \notin {"closed", "down"}
          /\ UNCHANGED has_closed \/ (has_closed' = TRUE /\ erasing = {})
      <3>1. CASE Close \/ CloseFlush
        BY <3>1 DEF Close, CloseFlush, Ready, Closing, mvars
      <3>2. CASE CloseManifest \/ CloseDone
        BY <3>2 DEF CloseManifest, CloseDone, FlushClear, Crash, Closing
      <3> QED BY <1>1, <3>1, <3>2
    <2>2. CacheOK' /\ \A x : Cached(x)' <=> Cached(x)
      BY <2>1, CacheStays DEF BaseInv, DBOK
    <2>3. UserOK' /\ EraseInv'
      <3>1. CASE UNCHANGED has_closed
        BY <3>1, <2>1, <2>2 DEF BaseInv, DBOK, UserOK, EraseInv
      <3>2. CASE has_closed' = TRUE /\ erasing = {}
        BY <3>2, <2>1 DEF BaseInv, DBOK, UserOK, EraseInv
      <3> QED BY <2>1, <3>1, <3>2
    <2>4. LogOK'
      <3>1. CASE Close
        BY <3>1 DEF Close, Ready, mvars, BaseInv, DBOK, LogOK, PhaseInv, WaitingInv, WalInv
      <3>2. CASE CloseFlush
        BY <3>2, <2>1 DEF CloseFlush, Closing, mvars, BaseInv, DBOK, LogOK, PhaseInv, WaitingInv, WalInv
      <3>3. CASE CloseManifest
        BY <3>3, <2>1 DEF CloseManifest, FlushClear, Closing, BaseInv, DBOK, LogOK, PhaseInv,
                          WaitingInv, WalInv
      <3>4. CASE CloseDone
        <4>1. /\ pc' = "closed" /\ stage' = "down" /\ wal_memtable' = NoTable
          BY <3>4 DEF CloseDone, Crash
        <4>2. NoTable \in Table /\ Cardinality(DOMAIN NoTable) <= SstSize
          BY SizesAssumption, NoTableFacts, NoTableSize
        <4> QED BY <2>1, <4>1, <4>2 DEF BaseInv, DBOK, LogOK, PhaseInv, WaitingInv, WalInv
      <3> QED BY <1>1, <3>1, <3>2, <3>3, <3>4
    <2> QED BY <2>2, <2>3, <2>4 DEF DBOK
  <1>2. CASE CloseNode
    <2>1. /\ pc = "idle" /\ UNCHANGED <<stage, wal_open>> /\ has_closed
          /\ UNCHANGED <<heap, has_closed, erasing, reply, latest, erased>>
          /\ lrulist # <<>> /\ lrulist' = Tail(lrulist)
      BY <1>2 DEF CloseNode, Closing, mvars
    <2>2. PICK k \in Keys, ev \in Table :
             Leaves(k, ev) /\ k \in DOMAIN trie /\ \A x, y \in DOMAIN ev : x = y
      BY <1>2, CloseNodePicks
    <2>3. /\ LruTypeOK' /\ ListMatchesTrie' /\ DOMAIN trie' = DOMAIN trie \ {k}
          /\ \A x \in DOMAIN trie' : trie'[x] = trie[x]
      <3>1. LruTypeOK /\ ListMatchesTrie /\ k = Head(lrulist) /\ trie' = Without(trie, {k})
        BY <2>2 DEF BaseInv, DBOK, CacheOK, Leaves
      <3> QED BY <2>1, <3>1, HeadLeaves
    <2>4. free' \in [Blocks -> Nat]
      BY <2>2 DEF Leaves, Freed, BaseInv, DBOK, CacheOK
    <2>5. CacheOK'
      BY <2>1, <2>3, <2>4 DEF BaseInv, DBOK, CacheOK
    <2>6. Spill(ev) /\ LogOK
      BY <2>2 DEF Leaves, BaseInv, DBOK
    <2>7. LogOK'
      BY <2>1, <2>2, <2>6, SpillKeeps
    <2>8. UserOK' /\ EraseInv'
      BY <2>1 DEF BaseInv, DBOK, UserOK, EraseInv
    <2> QED BY <2>5, <2>7, <2>8 DEF DBOK
  <1> QED BY <1>1, <1>2

LEMMA OpenTypesDB ==
  ASSUME BaseInv, OpenDB
  PROVE  DBOK'
PROOF
  <1>1. /\ pc' = "idle" /\ stage' = "idle" /\ wal_open' = TRUE
        /\ lrulist' = <<>> /\ trie' = NoTable /\ heap' = NoTable
        /\ free' = [b \in Blocks |-> 1] /\ mem_table' = wal_memtable /\ pending' = NoTable
        /\ has_closed' = FALSE /\ erasing' = {} /\ UNCHANGED <<wal_memtable, reply, latest, erased>>
    BY DEF OpenDB, Open
  <1>2. DOMAIN NoTable = {} /\ NoTable \in Table
    BY NoTableSize, NoTableFacts
  <1>3. LogOK'
    BY <1>1, <1>2 DEF BaseInv, DBOK, LogOK, PhaseInv, WaitingInv, WalInv
  <1>4. LruTypeOK' /\ ListMatchesTrie'
    <2>1. /\ lrulist' \in Seq(Keys) /\ Len(lrulist') = 0 /\ DOMAIN trie' = {}
          /\ trie' = [x \in DOMAIN trie' |-> trie'[x]]
      BY <1>1 DEF NoTable
    <2> QED BY <2>1, CacheConstants DEF LruTypeOK, ListMatchesTrie
  <1>5. CacheOK'
    BY <1>1, <1>2, <1>4 DEF CacheOK
  <1>6. UserOK' /\ EraseInv'
    BY <1>1 DEF BaseInv, DBOK, UserOK, EraseInv
  <1> QED BY <1>3, <1>5, <1>6 DEF DBOK

LEMMA StoreRunsTypes ==
  ASSUME BaseInv, ManiFestRuns \/ OpenDBAborts
  PROVE  DBOK'
PROOF
  <1>1. /\ UNCHANGED lruvars /\ UNCHANGED <<has_closed, erasing, reply, latest, erased>>
        /\ UNCHANGED <<pc, mem_table, wal_memtable, pending>> /\ UNCHANGED wal_open
    BY DEF ManiFestRuns, OpenDBAborts, OpenAborts, WriteTable, CompactLevel, NoVictim,
           CompactThrows, PutDone, FlushLog, dbvars, lruvars
  <1>2. \/ pc = "storing" /\ stage' \in {"idle", "level", "hung", "threw"}
        \/ pc = "seal" /\ stage' = "idle"
        \/ pc \in {"closed", "down"} /\ stage' = "aborted"
    BY DEF ManiFestRuns, OpenDBAborts, OpenAborts, WriteTable, CompactLevel, NoVictim,
           CompactThrows, PutDone, FlushLog
  <1>3. CacheOK' /\ \A x : Cached(x)' <=> Cached(x)
    BY <1>1, CacheStays DEF BaseInv, DBOK
  <1>4. UserOK' /\ EraseInv'
    BY <1>1, <1>3 DEF BaseInv, DBOK, UserOK, EraseInv
  <1>5. LogOK'
    BY <1>1, <1>2 DEF BaseInv, DBOK, LogOK, PhaseInv, WaitingInv, WalInv
  <1> QED BY <1>3, <1>4, <1>5 DEF DBOK

LEMMA BaseInit ==
  ASSUME Init
  PROVE  BaseInv
PROOF
  <1>1. TypeInv
    BY Constants, TypeInit DEF Init
  <1>2. stage = "idle" /\ NoTable \in Table /\ DOMAIN NoTable = {} /\ Cardinality(DOMAIN NoTable) <= SstSize
    BY SizesAssumption, NoTableFacts, NoTableSize DEF Init, ManiFestInit
  <1>3. LogOK
    BY <1>2 DEF Init, LogOK, PhaseInv, WaitingInv, WalInv
  <1>4. LruTypeOK /\ ListMatchesTrie /\ DOMAIN trie = {}
    <2>1. lrulist = <<>> /\ trie = [k \in {} |-> k]
      BY DEF Init, LruInit
    <2>2. lrulist \in Seq(Keys) /\ Len(lrulist) = 0 /\ DOMAIN trie = {}
          /\ trie = [x \in DOMAIN trie |-> trie[x]]
      BY <2>1
    <2> QED BY <2>2, CacheConstants DEF LruTypeOK, ListMatchesTrie
  <1>5. CacheOK
    BY <1>2, <1>4 DEF Init, CacheOK
  <1>6. UserOK /\ EraseInv
    BY DEF Init, UserOK, EraseInv
  <1> QED BY <1>1, <1>3, <1>5, <1>6 DEF BaseInv, DBOK

LEMMA BaseStep ==
  ASSUME BaseInv, [Next]_vars
  PROVE  BaseInv'
PROOF
  <1>1. TypeInv'
    <2>1. [ManiFestNext]_mvars
      BY StepOfStore DEF BaseInv, DBOK, LogOK
    <2> QED BY <2>1, Constants, TypeStep DEF BaseInv
  <1>2. CASE \E k \in Keys, v \in Values : Put(k, v)
    BY <1>1, <1>2, PutTypes DEF BaseInv
  <1>3. CASE \E k \in Keys : Get(k) \/ Erase(k)
    BY <1>1, <1>3, GetTypes DEF BaseInv
  <1>4. CASE EraseDies \/ CrashDB
    BY <1>1, <1>4, DieTypes DEF BaseInv, EraseDies, CrashDB
  <1>5. CASE EraseMark
    BY <1>1, <1>5, EraseMarkTypes DEF BaseInv
  <1>6. CASE FlushMem \/ StoreTable \/ FlushDone
    BY <1>1, <1>6, FlushTypes DEF BaseInv
  <1>7. CASE Close \/ CloseNode \/ CloseFlush \/ CloseManifest \/ CloseDone
    BY <1>1, <1>7, CloseTypes DEF BaseInv
  <1>8. CASE OpenDB
    BY <1>1, <1>8, OpenTypesDB DEF BaseInv
  <1>9. CASE ManiFestRuns \/ OpenDBAborts
    BY <1>1, <1>9, StoreRunsTypes DEF BaseInv
  <1>10. CASE UNCHANGED vars
    <2>1. UNCHANGED lruvars /\ UNCHANGED dbvars /\ UNCHANGED <<stage, wal_open>>
      BY <1>10 DEF vars, mvars, dbvars, lruvars
    <2>2. CacheOK' /\ \A x : Cached(x)' <=> Cached(x)
      BY <2>1, CacheStays DEF BaseInv, DBOK
    <2>3. UserOK' /\ EraseInv'
      BY <2>1, <2>2 DEF dbvars, BaseInv, DBOK, UserOK, EraseInv
    <2>4. LogOK'
      BY <2>1 DEF dbvars, BaseInv, DBOK, LogOK, PhaseInv, WaitingInv, WalInv
    <2> QED BY <1>1, <2>2, <2>3, <2>4 DEF BaseInv, DBOK
  <1> QED BY <1>2, <1>3, <1>4, <1>5, <1>6, <1>7, <1>8, <1>9, <1>10 DEF Next, Step

LEMMA BaseAlways == Spec => []BaseInv
PROOF
  <1>1. Init => BaseInv
    BY BaseInit
  <1>2. BaseInv /\ [Next]_vars => BaseInv'
    BY BaseStep
  <1> QED BY <1>1, <1>2, PTL DEF Spec

\* Every variable keeps its type, and the memtable never outgrows a table,
\* whatever mix of evictions, reads that evict, and closing fills it
\* (db_impl.cpp:97, 250).
THEOREM DatabaseIsTyped == Spec => []TypeOK
PROOF
  <1>1. BaseInv => TypeOK
    BY DEF BaseInv, DBOK, TypeInv, LogOK, CacheOK, UserOK, TypeOK
  <1> QED BY <1>1, BaseAlways, PTL

\* The log replays to the memtable wherever an operation is accepted or a
\* flush begins (db_impl.cpp:104, 230, 257).
THEOREM LogReplays == Spec => []WalReplaysMem
PROOF
  <1>1. BaseInv => WalReplaysMem
    BY DEF BaseInv, DBOK, LogOK, WalInv, WalReplaysMem
  <1> QED BY <1>1, BaseAlways, PTL

\* The database is a client the store allows: what ManiFestProofs proves of
\* the store alone holds in the database.
THEOREM StoreIsUsedAsAllowed == Spec => ManiFestSpec
PROOF
  <1>1. Init => ManiFestInit
    BY DEF Init
  <1>2. BaseInv /\ [Next]_vars => [ManiFestNext]_mvars
    BY StepOfStore DEF BaseInv, DBOK, LogOK
  <1> QED BY <1>1, <1>2, BaseAlways, PTL DEF Spec, ManiFestSpec

-----------------------------------------------------------------------------
(* The blocks of the pool.                                                 *)

\* The nodes put() writes over or drops.
Gone(k) == Dropped(k) \cup (IF Cached(k) THEN {k} ELSE {})

LEMMA GoneFacts ==
  ASSUME CacheOK, NEW k \in Keys, NEW v \in Blocks, NEW new_kv \in BOOLEAN, Placed(k, v, new_kv)
  PROVE  /\ Gone(k) \subseteq DOMAIN trie
         /\ LetGo(k) = {trie[x].value : x \in Gone(k)}
         /\ \A x : x \in DOMAIN trie' /\ x # k <=> x \in DOMAIN trie /\ x \notin Gone(k)
PROOF
  <1>1. Dropped(k) \subseteq DOMAIN trie /\ k \notin Dropped(k)
    BY BackIsCached DEF CacheOK
  <1>2. Gone(k) \subseteq DOMAIN trie /\ LetGo(k) = {trie[x].value : x \in Gone(k)}
    BY <1>1 DEF Gone, Cached, LetGo
  <1>3. DOMAIN trie' = (DOMAIN trie \ Dropped(k)) \cup {k}
    BY DEF Placed
  <1> QED BY <1>1, <1>2, <1>3 DEF Gone, Cached

\* put() takes a block for its key and gives back those of the nodes that go.
LEMMA CachePutBlocks ==
  ASSUME CacheOK, \A c \in Blocks : Spare(c) \/ Lent(c),
         NEW k \in Keys, NEW entry \in Entry, NEW new_kv \in BOOLEAN,
         NEW list \in [Blocks -> Nat], \A c \in Blocks : list[c] = free[c],
         NEW b \in Blocks, list[b] > 0, Placed(k, b, new_kv),
         free' = Freed(Taken(list, b), LetGo(k))
  PROVE  /\ \A c \in Blocks : Spare(c)' \/ Lent(c)'
         /\ \A x \in DOMAIN trie : trie[x].value # b
PROOF
  <1>1. Spare(b)
    BY DEF Lent, CacheOK
  <1>2. /\ Gone(k) \subseteq DOMAIN trie
        /\ LetGo(k) = {trie[x].value : x \in Gone(k)}
        /\ \A x : x \in DOMAIN trie' /\ x # k <=> x \in DOMAIN trie /\ x \notin Gone(k)
    BY GoneFacts
  <1>3. /\ k \in DOMAIN trie' /\ trie'[k].value = b
        /\ \A x \in DOMAIN trie' : x # k => trie'[x] = trie[x]
    BY DEF Placed
  <1>4. \A c \in Blocks :
           free'[c] = IF c \in LetGo(k) THEN (IF c = b THEN free[c] - 1 ELSE free[c]) + 1
                      ELSE IF c = b THEN free[c] - 1 ELSE free[c]
    BY DEF Freed, Taken
  <1>5. ASSUME NEW c \in Blocks
        PROVE  Spare(c)' \/ Lent(c)'
    <2>1. CASE c = b
      <3>1. c \notin LetGo(k)
        BY <1>1, <1>2, <2>1 DEF Spare
      <3>2. free'[c] = 0
        BY <1>1, <1>4, <2>1, <3>1 DEF Spare
      <3>3. \A x \in DOMAIN trie' : trie'[x].value = c <=> x = k
        BY <1>1, <1>2, <1>3, <2>1 DEF Spare
      <3> QED BY <3>2, <3>3, <1>3 DEF Lent
    <2>2. CASE c # b /\ c \in LetGo(k)
      <3>1. PICK x \in Gone(k) : trie[x].value = c
        BY <1>2, <2>2
      <3>2. x \in DOMAIN trie /\ ~Spare(c)
        BY <1>2, <3>1 DEF Spare
      <3>3. free[c] = 0 /\ \A y \in DOMAIN trie : trie[y].value = c => y = x
        BY <3>1, <3>2 DEF Lent
      <3>4. free'[c] = 1
        BY <1>4, <2>2, <3>3
      <3>5. \A y \in DOMAIN trie' : trie'[y].value # c
        BY <1>2, <1>3, <2>2, <3>1, <3>3
      <3> QED BY <3>4, <3>5 DEF Spare
    <2>3. CASE c # b /\ c \notin LetGo(k)
      <3>1. free'[c] = free[c]
        BY <1>4, <2>3
      <3>2. CASE Spare(c)
        <4>1. \A y \in DOMAIN trie' : trie'[y].value # c
          BY <1>2, <1>3, <2>3, <3>2 DEF Spare
        <4> QED BY <3>1, <3>2, <4>1 DEF Spare
      <3>3. CASE Lent(c)
        <4>1. PICK h \in DOMAIN trie : \A y \in DOMAIN trie : trie[y].value = c <=> y = h
          BY <3>3 DEF Lent
        <4>2. h \notin Gone(k)
          BY <1>2, <2>3, <4>1
        <4>3. h \in DOMAIN trie' /\ h # k
          BY <1>2, <4>2
        <4>4. \A y \in DOMAIN trie' : trie'[y].value = c <=> y = h
          BY <1>2, <1>3, <2>3, <4>1, <4>3
        <4> QED BY <3>1, <3>3, <4>3, <4>4 DEF Lent
      <3> QED BY <3>2, <3>3
    <2> QED BY <2>1, <2>2, <2>3
  <1>6. \A x \in DOMAIN trie : trie[x].value # b
    BY <1>1 DEF Spare
  <1> QED BY <1>5, <1>6

\* close() gives back the block of a node with the node.
LEMMA CloseNodeBlocks ==
  ASSUME CacheOK, \A c \in Blocks : Spare(c) \/ Lent(c), NEW k \in DOMAIN trie,
         free' = Freed(free, {trie[k].value}), DOMAIN trie' = DOMAIN trie \ {k},
         \A x \in DOMAIN trie' : trie'[x] = trie[x]
  PROVE  \A c \in Blocks : Spare(c)' \/ Lent(c)'
PROOF
  <1>1. ASSUME NEW c \in Blocks
        PROVE  Spare(c)' \/ Lent(c)'
    <2>1. CASE c = trie[k].value
      <3>1. ~Spare(c)
        BY <2>1 DEF Spare
      <3>2. free[c] = 0 /\ \A y \in DOMAIN trie : trie[y].value = c => y = k
        BY <2>1, <3>1 DEF Lent
      <3>3. free'[c] = 1
        BY <2>1, <3>2 DEF Freed
      <3> QED BY <3>2, <3>3 DEF Spare
    <2>2. CASE c # trie[k].value
      <3>1. free'[c] = free[c]
        BY <2>2 DEF Freed
      <3>2. CASE Spare(c)
        BY <3>1, <3>2 DEF Spare
      <3>3. CASE Lent(c)
        <4>1. PICK h \in DOMAIN trie : \A y \in DOMAIN trie : trie[y].value = c <=> y = h
          BY <3>3 DEF Lent
        <4>2. h \in DOMAIN trie'
          BY <2>2, <4>1
        <4> QED BY <3>1, <3>3, <4>1, <4>2 DEF Lent
      <3> QED BY <3>2, <3>3
    <2> QED BY <2>1, <2>2
  <1> QED BY <1>1

-----------------------------------------------------------------------------
(* The layers.                                                             *)

\* A pair that leaves the cache is right beneath it.
LEMMA SpillBeneath ==
  ASSUME LogOK, pc = "idle", UNCHANGED newest, NEW ev \in Table, Spill(ev), NEW x
  PROVE  Beneath(x)' = IF x \in DOMAIN ev THEN ev[x] ELSE Beneath(x)
PROOF
  <1>1. pending = NoTable /\ DOMAIN NoTable = {}
    BY NoTableSize DEF LogOK, WaitingInv
  <1>2. CASE MemFull(ev)
    <2>1. pending' = ev /\ UNCHANGED mem_table
      BY <1>2 DEF Spill
    <2> QED BY <1>1, <2>1 DEF Beneath, InMem, Stable
  <1>3. CASE ~MemFull(ev)
    <2>1. pending' = NoTable /\ mem_table' = Overwrite(mem_table, ev)
      BY <1>1, <1>3 DEF Spill
    <2>2. /\ DOMAIN mem_table' = DOMAIN mem_table \cup DOMAIN ev
          /\ \A y \in DOMAIN mem_table' : mem_table'[y] = IF y \in DOMAIN ev THEN ev[y] ELSE mem_table[y]
      BY <2>1 DEF Overwrite
    <2> QED BY <1>1, <2>1, <2>2 DEF Beneath, InMem, Stable
  <1> QED BY <1>2, <1>3

\* put() of the cache changes what the user sees of its key, and nothing else.
LEMMA CachePutLayers ==
  ASSUME CacheOK, LogOK, \A c \in Blocks : Spare(c) \/ Lent(c), CleanInv,
         pc = "idle", UNCHANGED newest,
         NEW k \in Keys, NEW entry \in Entry, NEW new_kv \in BOOLEAN,
         ~new_kv => User(entry) = User(Beneath(k)),
         NEW list \in [Blocks -> Nat], \A c \in Blocks : list[c] = free[c],
         CachePut(k, entry, new_kv, list)
  PROVE  /\ \A c \in Blocks : Spare(c)' \/ Lent(c)'
         /\ User(Top(k))' = User(entry)
         /\ \A x \in Keys : x # k => User(Top(x))' = User(Top(x))
         /\ CleanInv'
PROOF
  <1>1. PICK b \in Blocks : list[b] > 0 /\ Caches(k, entry, new_kv, list, b)
    BY CachePutPicks
  <1>2. Placed(k, b, new_kv)
    <2>1. LruPut(k, b, new_kv)
      BY <1>1 DEF Caches
    <2> QED BY <2>1, LruPutFacts DEF CacheOK
  <1>3. free' = Freed(Taken(list, b), LetGo(k))
    BY <1>1 DEF Caches
  <1>4. /\ \A c \in Blocks : Spare(c)' \/ Lent(c)'
        /\ \A x \in DOMAIN trie : trie[x].value # b
    BY <1>1, <1>2, <1>3, CachePutBlocks
  <1>5. PICK w : w = Written(b, entry)
    OBVIOUS
  <1>6. /\ DOMAIN w = DOMAIN heap \cup {b} /\ w[b] = entry
        /\ \A x \in DOMAIN heap : x # b => w[x] = heap[x]
    BY <1>5, WrittenFacts
  <1>7. heap' = [x \in {trie'[y].value : y \in DOMAIN trie'} |-> w[x]]
    BY <1>1, <1>5 DEF Caches
  <1>8. \A y \in DOMAIN trie' : heap'[trie'[y].value] = w[trie'[y].value]
    BY <1>7
  <1>9. /\ DOMAIN trie' = (DOMAIN trie \ Dropped(k)) \cup {k}
        /\ trie'[k].value = b /\ trie'[k].has_modified = new_kv
        /\ \A x \in DOMAIN trie' : x # k => x \in DOMAIN trie /\ trie'[x] = trie[x]
    BY <1>2 DEF Placed
  <1>10. Cell(k)' = entry /\ \A x \in DOMAIN trie' : x # k => Cell(x)' = Cell(x)
    BY <1>4, <1>6, <1>8, <1>9 DEF Cell, CacheOK
  <1>11. PICK ev : ev = [x \in Evicted(k) |-> Written(b, entry)[trie[x].value]]
    OBVIOUS
  <1>12. /\ ev \in Table /\ DOMAIN ev = Evicted(k)
         /\ \A x \in DOMAIN ev : ev[x] = w[trie[x].value]
    BY <1>5, <1>11, EvictedPair
  <1>13. Spill(ev)
    BY <1>1, <1>11 DEF Caches
  <1>14. \A x : Beneath(x)' = IF x \in Evicted(k) THEN ev[x] ELSE Beneath(x)
    BY <1>12, <1>13, SpillBeneath
  <1>15. /\ Dropped(k) \subseteq DOMAIN trie /\ k \notin Dropped(k)
         /\ Evicted(k) = {x \in Dropped(k) : trie[x].has_modified}
    BY BackIsCached DEF CacheOK, Evicted
  <1>16. \A x \in Evicted(k) : ev[x] = Cell(x)
    BY <1>4, <1>6, <1>12, <1>15 DEF Cell, CacheOK
  <1>17. User(Top(k))' = User(entry)
    BY <1>9, <1>10 DEF Top, Cached, User
  <1>18. ASSUME NEW x \in Keys, x # k
         PROVE  User(Top(x))' = User(Top(x))
    <2>1. CASE x \in DOMAIN trie'
      <3>1. x \in DOMAIN trie /\ Cell(x)' = Cell(x)
        BY <1>9, <1>10, <1>18, <2>1
      <3> QED BY <2>1, <3>1 DEF Top, Cached, User
    <2>2. CASE x \notin DOMAIN trie' /\ x \in DOMAIN trie
      <3>1. x \in Dropped(k) /\ Top(x) = Cell(x) /\ Top(x)' = Beneath(x)'
        BY <1>9, <2>2 DEF Top, Cached
      <3>2. CASE trie[x].has_modified
        <4>1. Beneath(x)' = Cell(x)
          BY <1>14, <1>15, <1>16, <3>1, <3>2
        <4> QED BY <3>1, <4>1 DEF User
      <3>3. CASE ~trie[x].has_modified
        <4>1. Beneath(x)' = Beneath(x) /\ User(Cell(x)) = User(Beneath(x))
          BY <1>14, <1>15, <2>2, <3>3 DEF CleanInv
        <4> QED BY <3>1, <4>1 DEF User
      <3> QED BY <3>2, <3>3
    <2>3. CASE x \notin DOMAIN trie' /\ x \notin DOMAIN trie
      <3>1. Beneath(x)' = Beneath(x)
        BY <1>14, <1>15, <2>3
      <3> QED BY <2>3, <3>1 DEF Top, Cached, User
    <2> QED BY <2>1, <2>2, <2>3
  <1>19. CleanInv'
    <2>1. ASSUME NEW x \in DOMAIN trie', ~trie'[x].has_modified
          PROVE  User(Cell(x))' = User(Beneath(x))'
      <3>1. Beneath(x)' = Beneath(x)
        BY <1>9, <1>14, <1>15
      <3>2. CASE x = k
        BY <1>9, <1>10, <2>1, <3>1, <3>2 DEF User
      <3>3. CASE x # k
        <4>1. x \in DOMAIN trie /\ ~trie[x].has_modified /\ Cell(x)' = Cell(x)
          BY <1>9, <1>10, <2>1, <3>3
        <4>2. User(Cell(x)) = User(Beneath(x))
          BY <4>1 DEF CleanInv
        <4> QED BY <3>1, <4>1, <4>2 DEF User
      <3> QED BY <3>2, <3>3
    <2> QED BY <2>1 DEF CleanInv
  <1> QED BY <1>4, <1>17, <1>18, <1>19

-----------------------------------------------------------------------------
(* The blocks, step by step.                                               *)

\* Nothing undoes an erase() that found its key, a compaction that missed a
\* file, or a crash.
LEMMA OneWay ==
  ASSUME BaseInv, [Next]_vars
  PROVE  (erased => erased') /\ (intact' => intact)
PROOF
  <1>1. intact' => intact
    <2>1. [ManiFestNext]_mvars
      BY StepOfStore DEF BaseInv, DBOK, LogOK
    <2> QED BY <2>1 DEF ManiFestNext, ManiFestStep, mvars, PutTable, WriteTable, CompactLevel,
               NoVictim, CompactThrows, PutDone, FlushClear, FlushLog, Crash, Open, OpenAborts
  <1>2. erased => erased'
    BY DEF Next, Step, vars, dbvars, Put, Get, Erase, EraseDies, EraseMark, Die, FlushMem,
           StoreTable, FlushDone, Close, CloseNode, CloseFlush, CloseManifest, CloseDone,
           CrashDB, OpenDB, OpenDBAborts, ManiFestRuns
  <1> QED BY <1>1, <1>2

\* What Fetch does to the cache: nothing but the order, or one put().
LEMMA FetchPicks ==
  ASSUME BaseInv, NEW k \in Keys, Fetch(k)
  PROVE  \/ UNCHANGED <<trie, heap, free, mem_table, wal_memtable, pending, pc>>
         \/ /\ ~Cached(k) /\ (InMem(k) \/ ~Throws(k))
            /\ \E entry \in Entry : entry = Below(k) /\ CachePut(k, entry, FALSE, free)
PROOF
  <1>1. Below(k) \in Entry \cup {Absent}
    BY AnswerType
  <1>2. CASE Cached(k)
    <2>1. Touch(k) /\ UNCHANGED <<heap, free, mem_table, wal_memtable, pending, pc>>
      BY <1>2 DEF Fetch
    <2> QED BY <2>1 DEF Touch
  <1>3. CASE ~Cached(k)
    BY <1>1, <1>3 DEF Fetch, lruvars
  <1> QED BY <1>2, <1>3

LEMMA CachePutSpares ==
  ASSUME CacheOK, \A c \in Blocks : Spare(c) \/ Lent(c),
         NEW k \in Keys, NEW entry \in Entry, NEW new_kv \in BOOLEAN,
         NEW list \in [Blocks -> Nat], \A c \in Blocks : list[c] = free[c],
         CachePut(k, entry, new_kv, list)
  PROVE  \A c \in Blocks : Spare(c)' \/ Lent(c)'
PROOF
  <1>1. PICK b \in Blocks : list[b] > 0 /\ Caches(k, entry, new_kv, list, b)
    BY CachePutPicks
  <1>2. LruPut(k, b, new_kv) /\ free' = Freed(Taken(list, b), LetGo(k))
    BY <1>1 DEF Caches
  <1>3. Placed(k, b, new_kv)
    BY <1>2, LruPutFacts DEF CacheOK
  <1> QED BY <1>1, <1>2, <1>3, CachePutBlocks

\* An erase() that found nothing gives nothing back but what put() does.
LEMMA EraseMarkNothing ==
  ASSUME BaseInv, EraseMark, ~erased'
  PROVE  \E k \in Keys, list \in [Blocks -> Nat] :
           /\ ~erased /\ \A c \in Blocks : list[c] = free[c]
           /\ CachePut(k, Deleted, TRUE, list)
           /\ latest' = [latest EXCEPT ![k] = Absent]
PROOF
  <1>1. PICK k \in Keys, found \in SUBSET Blocks, list \in [Blocks -> Nat] :
           EraseMarks(k, found, list)
    BY EraseMarkPicks
  <1>2. /\ list = Freed(free, found) /\ CachePut(k, Deleted, TRUE, list)
        /\ latest' = [latest EXCEPT ![k] = Absent]
        /\ erased' = (erased \/ found # {})
    BY <1>1 DEF EraseMarks
  <1>3. ~erased /\ found = {}
    BY <1>2
  <1>4. \A c \in Blocks : list[c] = free[c]
    BY <1>2, <1>3 DEF Freed
  <1> QED BY <1>2, <1>3, <1>4

LEMMA BlockStep ==
  ASSUME BaseInv, BlockInv, [Next]_vars
  PROVE  BlockInv'
PROOF
  <1> SUFFICES ASSUME ~erased' PROVE \A c \in Blocks : Spare(c)' \/ Lent(c)'
    BY DEF BlockInv
  <1>1. \A c \in Blocks : Spare(c) \/ Lent(c)
    BY OneWay DEF BlockInv
  <1>2. CacheOK /\ LogOK /\ free \in [Blocks -> Nat]
    BY DEF BaseInv, DBOK, CacheOK
  <1>3. ASSUME UNCHANGED <<trie, free>>
        PROVE  \A c \in Blocks : Spare(c)' \/ Lent(c)'
    BY <1>1, <1>3 DEF Spare, Lent
  <1>4. CASE \E k \in Keys, v \in Values : Put(k, v)
    <2>1. PICK k \in Keys, v \in Values : Put(k, v)
      BY <1>4
    <2>2. CachePut(k, v, TRUE, free) /\ v \in Entry
      BY <2>1 DEF Put, Entry
    <2> QED BY <1>1, <1>2, <2>2, CachePutSpares
  <1>5. CASE \E k \in Keys : Get(k) \/ Erase(k)
    <2>1. PICK k \in Keys : Fetch(k)
      BY <1>5 DEF Get, Erase
    <2>2. CASE UNCHANGED <<trie, heap, free, mem_table, wal_memtable, pending, pc>>
      BY <1>3, <2>2
    <2>3. CASE \E entry \in Entry : entry = Below(k) /\ CachePut(k, entry, FALSE, free)
      <3>1. PICK entry \in Entry : CachePut(k, entry, FALSE, free)
        BY <2>3
      <3> QED BY <1>1, <1>2, <3>1, CachePutSpares
    <2> QED BY <2>1, <2>2, <2>3, FetchPicks
  <1>6. CASE EraseMark
    <2>1. PICK k \in Keys, list \in [Blocks -> Nat] :
             /\ \A c \in Blocks : list[c] = free[c]
             /\ CachePut(k, Deleted, TRUE, list)
      BY <1>6, EraseMarkNothing
    <2>2. Deleted \in Entry
      BY DEF Entry
    <2> QED BY <1>1, <1>2, <2>1, <2>2, CachePutSpares
  <1>7. CASE CloseNode
    <2>1. PICK k \in Keys, ev \in Table : Leaves(k, ev) /\ k \in DOMAIN trie
      BY <1>7, CloseNodePicks
    <2>2. free' = Freed(free, {trie[k].value}) /\ trie' = Without(trie, {k})
      BY <2>1 DEF Leaves
    <2>3. DOMAIN trie' = DOMAIN trie \ {k} /\ \A x \in DOMAIN trie' : trie'[x] = trie[x]
      BY <2>2 DEF Without
    <2> QED BY <1>1, <1>2, <2>1, <2>2, <2>3, CloseNodeBlocks
  <1>8. CASE OpenDB
    <2>1. free' = [b \in Blocks |-> 1] /\ trie' = NoTable
      BY <1>8 DEF OpenDB
    <2> QED BY <2>1, NoTableSize DEF Spare
  <1>9. CASE \/ EraseDies \/ FlushMem \/ StoreTable \/ FlushDone \/ Close \/ CloseFlush
             \/ CloseManifest \/ CloseDone \/ CrashDB \/ OpenDBAborts \/ ManiFestRuns
             \/ UNCHANGED vars
    <2>1. UNCHANGED <<trie, free>>
      BY <1>9 DEF EraseDies, Die, FlushMem, StoreTable, FlushDone, Close, CloseFlush,
                  CloseManifest, CloseDone, CrashDB, OpenDBAborts, ManiFestRuns, vars, dbvars,
                  lruvars
    <2> QED BY <1>3, <2>1
  <1> QED BY <1>4, <1>5, <1>6, <1>7, <1>8, <1>9 DEF Next, Step

LEMMA BlockAlways == Spec => []BlockInv
PROOF
  <1>1. Init => BlockInv
    BY NoTableSize DEF Init, LruInit, BlockInv, Spare
  <1>2. BaseInv /\ BlockInv /\ [Next]_vars => BlockInv'
    BY BlockStep
  <1> QED BY <1>1, <1>2, BaseAlways, PTL DEF Spec

\* Whatever put(), get() and close() do, a block of the pool is free once or
\* held by one node, never both, twice or neither (db_impl.cpp:93, 102, 107,
\* 247, 255), until erase() finds its key.
THEOREM NoBlockIsLost == Spec => []BlocksAccounted
PROOF
  <1>1. ASSUME BaseInv, BlockInv
        PROVE  BlocksAccounted
    <2>1. SUFFICES ASSUME ~erased, NEW b \in Blocks
                   PROVE  free[b] + Cardinality({k \in DOMAIN trie : trie[k].value = b}) = 1
      BY DEF BlocksAccounted
    <2>2. CASE Spare(b)
      <3>1. {k \in DOMAIN trie : trie[k].value = b} = {} /\ free[b] = 1
        BY <2>2 DEF Spare
      <3> QED BY <3>1, FS_EmptySet
    <2>3. CASE Lent(b)
      <3>1. PICK k \in DOMAIN trie : \A x \in DOMAIN trie : trie[x].value = b <=> x = k
        BY <2>3 DEF Lent
      <3>2. {x \in DOMAIN trie : trie[x].value = b} = {k} /\ free[b] = 0
        BY <2>3, <3>1 DEF Lent
      <3>3. Cardinality({k}) = 1
        BY FS_Singleton
      <3> QED BY <3>2, <3>3
    <2> QED BY <1>1, <2>1, <2>2, <2>3 DEF BlockInv
  <1> QED BY <1>1, BaseAlways, BlockAlways, PTL

-----------------------------------------------------------------------------
(* The layers, step by step.                                               *)

\* A put() of the cache or a node close() lets go leaves no table under way.
LEMMA SpillGoesOn ==
  ASSUME pc = "idle", NEW ev, Spill(ev)
  PROVE  pc' \in {"idle", "flush"}
PROOF BY DEF Spill

LEMMA CachePutGoesOn ==
  ASSUME pc = "idle", NEW k, NEW entry, NEW new_kv, NEW list, CachePut(k, entry, new_kv, list)
  PROVE  pc' \in {"idle", "flush"}
PROOF
  <1>1. PICK b : Caches(k, entry, new_kv, list, b)
    BY CachePutPicks
  <1> QED BY <1>1, SpillGoesOn DEF Caches

\* What SentInv says of a flush and of a close, kept by every step.
LEMMA SentStep ==
  ASSUME BaseInv, SentInv, [Next]_vars
  PROVE  SentInv'
PROOF
  <1>1. ASSUME pc' \notin {"storing", "seal"}
        PROVE  SentInv'
    BY <1>1 DEF SentInv
  <1>2. CASE \E k \in Keys, v \in Values : Put(k, v)
    <2>1. pc' \in {"idle", "flush"}
      BY <1>2, CachePutGoesOn DEF Put, Ready
    <2> QED BY <1>1, <2>1
  <1>3. CASE \E k \in Keys : Get(k) \/ Erase(k)
    <2>1. PICK k \in Keys : Fetch(k) /\ pc = "idle"
      BY <1>3 DEF Get, Erase, Ready
    <2>2. pc' \in {"idle", "flush"}
      BY <2>1, FetchPicks, CachePutGoesOn
    <2> QED BY <1>1, <2>2
  <1>4. CASE EraseMark
    <2>1. PICK k, found, list : EraseMarks(k, found, list)
      BY <1>4, EraseMarkPicks
    <2>2. pc = "idle"
      BY <1>4 DEF EraseMark, Ready
    <2>3. pc' \in {"idle", "flush"}
      BY <2>1, <2>2, CachePutGoesOn DEF EraseMarks
    <2> QED BY <1>1, <2>3
  <1>5. CASE CloseNode
    <2>1. PICK k, ev : Leaves(k, ev)
      BY <1>5, CloseNodePicks
    <2>2. pc = "idle"
      BY <1>5 DEF CloseNode, Closing
    <2>3. pc' \in {"idle", "flush"}
      BY <2>1, <2>2, SpillGoesOn DEF Leaves
    <2> QED BY <1>1, <2>3
  <1>6. CASE StoreTable
    <2>1. pc' = "storing" /\ mem_table' = mem_table /\ newest' = Overwrite(newest, mem_table)
      BY <1>6 DEF StoreTable, PutTable
    <2> QED BY <2>1 DEF SentInv, Overwrite
  <1>7. CASE CloseManifest
    <2>1. /\ lrulist = <<>> /\ mem_table = NoTable /\ pc' = "seal"
          /\ trie' = trie /\ mem_table' = mem_table
      BY <1>7 DEF CloseManifest, lruvars
    <2>2. Len(lrulist) = 0 /\ ListMatchesTrie
      BY <2>1 DEF BaseInv, DBOK, CacheOK
    <2>3. DOMAIN trie = {}
      BY <2>2 DEF ListMatchesTrie
    <2> QED BY <2>1, <2>3 DEF SentInv
  <1>8. CASE ManiFestRuns
    <2>1. UNCHANGED <<pc, mem_table, newest, trie>>
      BY <1>8 DEF ManiFestRuns, WriteTable, CompactLevel, NoVictim, CompactThrows, PutDone,
                  FlushLog, dbvars
    <2> QED BY <2>1 DEF SentInv
  <1>9. CASE UNCHANGED vars
    BY <1>9 DEF SentInv, vars, dbvars, mvars
  <1>10. CASE \/ EraseDies \/ FlushMem \/ FlushDone \/ CloseFlush \/ CloseDone \/ CrashDB
              \/ OpenDB \/ OpenDBAborts \/ Close
    <2>1. pc' \notin {"storing", "seal"}
      BY <1>10 DEF EraseDies, Die, FlushMem, FlushDone, CloseFlush, CloseDone, CrashDB, OpenDB,
                   OpenDBAborts, Close, Ready, dbvars
    <2> QED BY <1>1, <2>1
  <1> QED BY <1>2, <1>3, <1>4, <1>5, <1>6, <1>7, <1>8, <1>9, <1>10 DEF Next, Step

\* What an open database owes its user.
Shown == CleanInv /\ \A k \in Keys : User(Top(k)) = latest[k]

\* Cache and user's view stay, and so does what is beneath.
LEMMA LayersStay ==
  ASSUME Shown, UNCHANGED <<trie, heap, latest>>, \A k : Beneath(k)' = Beneath(k)
  PROVE  Shown'
PROOF
  <1>1. DOMAIN trie' = DOMAIN trie /\ \A k : Cell(k)' = Cell(k)
    BY DEF Cell
  <1>2. \A k : Top(k)' = Top(k)
    BY <1>1 DEF Top, Cached
  <1>3. CleanInv'
    BY <1>1 DEF Shown, CleanInv, User
  <1> QED BY <1>2, <1>3 DEF Shown, User

\* The read of the store says what was stored last.
LEMMA BelowIsBeneath ==
  ASSUME BaseInv, ReadsNewest, intact, pc = "idle", NEW k \in Keys
  PROVE  User(Below(k)) = User(Beneath(k))
PROOF
  <1>1. stage = "idle" /\ pending = NoTable /\ DOMAIN NoTable = {}
    BY NoTableSize DEF BaseInv, DBOK, LogOK, PhaseInv, WaitingInv
  <1>2. Beneath(k) = IF InMem(k) THEN mem_table[k] ELSE Stable(k)
    BY <1>1 DEF Beneath
  <1>3. CASE InMem(k)
    BY <1>2, <1>3 DEF Below
  <1>4. CASE ~InMem(k)
    <2>1. Below(k) = Lookup(k) /\ Beneath(k) = Stable(k)
      BY <1>2, <1>4 DEF Below
    <2>2. IF k \in DOMAIN newest /\ newest[k] # Deleted THEN Lookup(k) = newest[k]
          ELSE Lookup(k) \in {Absent, Deleted}
      BY <1>1 DEF ReadsNewest
    <2> QED BY <2>1, <2>2 DEF Stable, User
  <1> QED BY <1>3, <1>4

\* A put() of the cache, with what the user then sees of the key.
LEMMA CachePutShows ==
  ASSUME BaseInv, \A c \in Blocks : Spare(c) \/ Lent(c), Shown, pc = "idle", UNCHANGED newest,
         NEW k \in Keys, NEW entry \in Entry, NEW new_kv \in BOOLEAN,
         ~new_kv => User(entry) = User(Beneath(k)),
         NEW list \in [Blocks -> Nat], \A c \in Blocks : list[c] = free[c],
         CachePut(k, entry, new_kv, list),
         latest' \in [Keys -> Values \cup {Absent}], latest'[k] = User(entry),
         \A x \in Keys : x # k => latest'[x] = latest[x]
  PROVE  Shown'
PROOF
  <1>1. CacheOK /\ LogOK /\ CleanInv
    BY DEF BaseInv, DBOK, Shown
  <1>2. /\ User(Top(k))' = User(entry)
        /\ \A x \in Keys : x # k => User(Top(x))' = User(Top(x))
        /\ CleanInv'
    BY <1>1, CachePutLayers
  <1>3. \A x \in Keys : User(Top(x))' = latest'[x]
    BY <1>2 DEF Shown
  <1>4. \A x \in Keys : User(Top(x))' = User(Top(x)')
    BY DEF User
  <1> QED BY <1>2, <1>3 DEF Shown

\* Operations of an open database.
LEMMA ShownByOperations ==
  ASSUME BaseInv, ReadsNewest, intact, Shown, \A c \in Blocks : Spare(c) \/ Lent(c),
         latest' \in [Keys -> Values \cup {Absent}], ~erased',
         \/ \E k \in Keys, v \in Values : Put(k, v)
         \/ \E k \in Keys : Get(k) \/ Erase(k)
         \/ EraseMark
  PROVE  Shown'
PROOF
  <1>1. /\ pc = "idle" /\ UNCHANGED newest /\ free \in [Blocks -> Nat]
        /\ latest \in [Keys -> Values \cup {Absent}]
    BY DEF Put, Get, Erase, EraseMark, Ready, mvars, BaseInv, DBOK, CacheOK, UserOK
  <1>2. CASE \E k \in Keys, v \in Values : Put(k, v)
    <2>1. PICK k \in Keys, v \in Values : Put(k, v)
      BY <1>2
    <2>2. CachePut(k, v, TRUE, free) /\ latest' = [latest EXCEPT ![k] = v]
      BY <2>1 DEF Put
    <2>3. v \in Entry /\ User(v) = v
      BY EntriesAssumption DEF Entry, User
    <2>4. latest'[k] = User(v) /\ \A x \in Keys : x # k => latest'[x] = latest[x]
      BY <1>1, <2>2, <2>3
    <2> QED BY <1>1, <2>2, <2>3, <2>4, CachePutShows
  <1>3. CASE \E k \in Keys : Get(k) \/ Erase(k)
    <2>1. PICK k \in Keys : Fetch(k) /\ latest' = latest
      BY <1>3 DEF Get, Erase
    <2>2. CASE UNCHANGED <<trie, heap, free, mem_table, wal_memtable, pending, pc>>
      <3>1. \A x : Beneath(x)' = Beneath(x)
        BY <1>1, <2>2 DEF Beneath, InMem, Stable
      <3> QED BY <2>1, <2>2, <3>1, LayersStay
    <2>3. CASE /\ ~Cached(k) /\ (InMem(k) \/ ~Throws(k))
               /\ \E entry \in Entry : entry = Below(k) /\ CachePut(k, entry, FALSE, free)
      <3>1. PICK entry \in Entry : entry = Below(k) /\ CachePut(k, entry, FALSE, free)
        BY <2>3
      <3>2. User(entry) = User(Beneath(k))
        <4>1. User(Below(k)) = User(Beneath(k))
          BY <1>1, <3>1, BelowIsBeneath
        <4> QED BY <3>1, <4>1
      <3>3. latest'[k] = User(entry) /\ \A x \in Keys : x # k => latest'[x] = latest[x]
        BY <2>1, <2>3, <3>2 DEF Shown, Top
      <3> QED BY <1>1, <3>1, <3>2, <3>3, CachePutShows
    <2> QED BY <2>1, <2>2, <2>3, FetchPicks
  <1>4. CASE EraseMark
    <2>1. PICK k \in Keys, list \in [Blocks -> Nat] :
             /\ \A c \in Blocks : list[c] = free[c]
             /\ CachePut(k, Deleted, TRUE, list)
             /\ latest' = [latest EXCEPT ![k] = Absent]
      BY <1>4, EraseMarkNothing
    <2>2. Deleted \in Entry /\ User(Deleted) = Absent
      BY DEF Entry, User
    <2>3. latest'[k] = User(Deleted) /\ \A x \in Keys : x # k => latest'[x] = latest[x]
      BY <1>1, <2>1, <2>2
    <2> QED BY <1>1, <2>1, <2>2, <2>3, CachePutShows
  <1> QED BY <1>2, <1>3, <1>4

\* Moving pairs downwards, and what the store does for itself.
LEMMA ShownByFlushes ==
  ASSUME BaseInv, SentInv, Shown,
         \/ FlushMem \/ StoreTable \/ FlushDone \/ Close \/ CloseFlush \/ CloseManifest
         \/ ManiFestRuns \/ UNCHANGED vars
  PROVE  Shown'
PROOF
  <1>1. UNCHANGED <<trie, heap, latest>>
    BY DEF FlushMem, StoreTable, FlushDone, Close, CloseFlush, CloseManifest, ManiFestRuns,
           vars, dbvars, lruvars
  <1>2. CASE \/ FlushMem \/ Close \/ CloseFlush \/ CloseManifest \/ ManiFestRuns
             \/ UNCHANGED vars
    <2>1. UNCHANGED <<newest, mem_table, pending>>
      BY <1>2 DEF FlushMem, Close, CloseFlush, CloseManifest, ManiFestRuns, vars, dbvars, mvars,
                  FlushClear, WriteTable, CompactLevel, NoVictim, CompactThrows, PutDone,
                  FlushLog
    <2>2. \A x : Beneath(x)' = Beneath(x)
      BY <2>1 DEF Beneath, InMem, Stable
    <2> QED BY <1>1, <2>2, LayersStay
  <1>3. CASE StoreTable
    <2>1. newest' = Overwrite(newest, mem_table) /\ UNCHANGED <<mem_table, pending>>
      BY <1>3 DEF StoreTable, PutTable
    <2>2. \A x : x \notin DOMAIN mem_table => Stable(x)' = Stable(x)
      BY <2>1 DEF Stable, Overwrite
    <2>3. \A x : Beneath(x)' = Beneath(x)
      BY <2>1, <2>2 DEF Beneath, InMem
    <2> QED BY <1>1, <2>3, LayersStay
  <1>4. CASE FlushDone
    <2>1. pc = "storing" /\ mem_table' = pending /\ pending' = NoTable /\ UNCHANGED newest
      BY <1>4 DEF FlushDone, mvars
    <2>2. \A x \in DOMAIN mem_table : x \in DOMAIN newest /\ newest[x] = mem_table[x]
      BY <2>1 DEF SentInv
    <2>3. \A x : Beneath(x)' = IF x \in DOMAIN pending THEN pending[x] ELSE Stable(x)
      BY <2>1, NoTableSize DEF Beneath, InMem, Stable
    <2>4. \A x : Beneath(x)' = Beneath(x)
      BY <2>2, <2>3 DEF Beneath, InMem, Stable
    <2> QED BY <1>1, <2>4, LayersStay
  <1> QED BY <1>2, <1>3, <1>4

\* close() writes back what was modified, and drops what is beneath anyway.
LEMMA ShownByCloseNode ==
  ASSUME BaseInv, Shown, CloseNode
  PROVE  Shown'
PROOF
  <1>1. PICK k \in Keys, ev \in Table : Leaves(k, ev) /\ k \in DOMAIN trie
    BY CloseNodePicks
  <1>2. pc = "idle" /\ UNCHANGED <<newest, heap, latest>> /\ LogOK
    BY DEF CloseNode, Closing, mvars, BaseInv, DBOK
  <1>3. /\ ev = IF trie[k].has_modified THEN [x \in {k} |-> Cell(k)] ELSE NoTable
        /\ Spill(ev) /\ trie' = Without(trie, {k})
    BY <1>1 DEF Leaves, Cell
  <1>4. \A x : Beneath(x)' = IF x \in DOMAIN ev THEN ev[x] ELSE Beneath(x)
    BY <1>2, <1>3, SpillBeneath
  <1>5. DOMAIN trie' = DOMAIN trie \ {k} /\ \A x \in DOMAIN trie' : trie'[x] = trie[x]
    BY <1>3 DEF Without
  <1>6. \A x : x # k => Beneath(x)' = Beneath(x)
    BY <1>3, <1>4, NoTableSize
  <1>7. \A x \in DOMAIN trie' : Cell(x)' = Cell(x)
    BY <1>2, <1>5 DEF Cell
  <1>8. User(Top(k))' = User(Top(k))
    <2>1. Top(k) = Cell(k) /\ Top(k)' = Beneath(k)'
      BY <1>1, <1>5 DEF Top, Cached
    <2>2. CASE trie[k].has_modified
      <3>1. Beneath(k)' = Cell(k)
        BY <1>3, <1>4, <2>2
      <3> QED BY <2>1, <3>1 DEF User
    <2>3. CASE ~trie[k].has_modified
      <3>1. Beneath(k)' = Beneath(k) /\ User(Cell(k)) = User(Beneath(k))
        BY <1>1, <1>3, <1>4, <2>3, NoTableSize DEF Shown, CleanInv
      <3> QED BY <2>1, <3>1 DEF User
    <2> QED BY <2>2, <2>3
  <1>9. \A x \in Keys : x # k => Top(x)' = Top(x)
    BY <1>5, <1>6, <1>7 DEF Top, Cached
  <1>10. \A x \in Keys : User(Top(x)') = latest'[x]
    BY <1>2, <1>8, <1>9 DEF Shown, User
  <1>11. CleanInv'
    <2>1. ASSUME NEW x \in DOMAIN trie', ~trie'[x].has_modified
          PROVE  User(Cell(x)') = User(Beneath(x)')
      <3>1. x # k /\ x \in DOMAIN trie /\ ~trie[x].has_modified
        BY <1>5, <2>1
      <3>2. User(Cell(x)) = User(Beneath(x))
        BY <3>1 DEF Shown, CleanInv
      <3> QED BY <1>6, <1>7, <2>1, <3>1, <3>2
    <2> QED BY <2>1 DEF CleanInv, User
  <1> QED BY <1>10, <1>11 DEF Shown, User

\* What the files of a closed database owe the next session.
Saved == \A k \in Keys : latest[k] = Survivor(k)

LEMMA SavedByEnds ==
  ASSUME BaseInv, SentInv,
         \/ pc \notin {"closed", "down"} /\ Shown /\ CloseDone
         \/ EraseDies \/ CrashDB
         \/ Saved /\ OpenDBAborts
         \/ Saved /\ UNCHANGED vars
  PROVE  Saved'
PROOF
  <1>1. UNCHANGED newest
    BY DEF CloseDone, EraseDies, CrashDB, Die, Crash, OpenDBAborts, OpenAborts, vars, mvars
  <1>2. CASE EraseDies \/ CrashDB
    <2>1. latest' = [k \in Keys |-> Survivor(k)] /\ UNCHANGED wal_memtable
      BY <1>2 DEF EraseDies, CrashDB, Die
    <2>2. \A k : Survivor(k)' = Survivor(k)
      BY <1>1, <2>1 DEF Survivor
    <2> QED BY <2>1, <2>2 DEF Saved
  <1>3. CASE Saved /\ (OpenDBAborts \/ UNCHANGED vars)
    <2>1. UNCHANGED <<latest, wal_memtable>>
      BY <1>3 DEF OpenDBAborts, vars, dbvars
    <2>2. \A k : Survivor(k)' = Survivor(k)
      BY <1>1, <2>1 DEF Survivor
    <2> QED BY <1>3, <2>1, <2>2 DEF Saved
  <1>4. CASE Shown /\ CloseDone
    <2>1. pc = "seal" /\ wal_memtable' = NoTable /\ latest' = latest
      BY <1>4 DEF CloseDone
    <2>2. DOMAIN trie = {} /\ mem_table = NoTable /\ pending = NoTable
      BY <2>1 DEF SentInv, BaseInv, DBOK, LogOK, WaitingInv
    <2>3. \A k : Top(k) = Stable(k)
      BY <2>2, NoTableSize DEF Top, Cached, Beneath, InMem
    <2>4. \A k : Survivor(k)' = User(Stable(k))
      BY <1>1, <2>1, NoTableSize, EntriesAssumption DEF Survivor, Stable, User
    <2> QED BY <1>4, <2>1, <2>3, <2>4 DEF Saved, Shown
  <1> QED BY <1>2, <1>3, <1>4

LEMMA LayerStep ==
  ASSUME BaseInv, BlockInv, SentInv, LayerInv, ReadsNewest, [Next]_vars
  PROVE  LayerInv'
PROOF
  <1> SUFFICES ASSUME intact', ~erased'
               PROVE  /\ pc' \in {"closed", "down"} => Saved'
                      /\ pc' \notin {"closed", "down"} => Shown'
    BY DEF LayerInv, Saved, Shown
  <1>1. intact /\ ~erased
    BY OneWay
  <1>2. /\ pc \in {"closed", "down"} => Saved
        /\ pc \notin {"closed", "down"} => Shown
    BY <1>1 DEF LayerInv, Saved, Shown
  <1>3. \A c \in Blocks : Spare(c) \/ Lent(c)
    BY <1>1 DEF BlockInv
  <1>4. latest' \in [Keys -> Values \cup {Absent}] /\ SentInv'
    <2>1. BaseInv'
      BY BaseStep
    <2> QED BY <2>1, SentStep DEF BaseInv, DBOK, UserOK
  <1>5. CASE \/ \E k \in Keys, v \in Values : Put(k, v)
             \/ \E k \in Keys : Get(k) \/ Erase(k)
             \/ EraseMark
    <2>1. pc = "idle"
      BY <1>5 DEF Put, Get, Erase, EraseMark, Ready
    <2>2. Shown'
      BY <1>1, <1>2, <1>3, <1>4, <1>5, <2>1, ShownByOperations
    <2>3. pc' \in {"idle", "flush"}
      <3>1. CASE EraseMark
        <4>1. PICK k, found, list : EraseMarks(k, found, list)
          BY <3>1, EraseMarkPicks
        <4> QED BY <2>1, <4>1, CachePutGoesOn DEF EraseMarks
      <3>2. CASE \E k \in Keys, v \in Values : Put(k, v)
        BY <2>1, <3>2, CachePutGoesOn DEF Put
      <3>3. CASE \E k \in Keys : Get(k) \/ Erase(k)
        <4>1. PICK k \in Keys : Fetch(k)
          BY <3>3 DEF Get, Erase
        <4> QED BY <2>1, <4>1, FetchPicks, CachePutGoesOn
      <3> QED BY <1>5, <3>1, <3>2, <3>3
    <2> QED BY <2>2, <2>3
  <1>6. CASE FlushMem \/ StoreTable \/ FlushDone \/ Close \/ CloseFlush \/ CloseManifest \/ ManiFestRuns
    <2>1. pc \notin {"closed", "down"} /\ pc' \notin {"closed", "down"}
      BY <1>6 DEF FlushMem, StoreTable, FlushDone, Close, Ready, CloseFlush, CloseManifest,
                  Closing, ManiFestRuns, dbvars
    <2> QED BY <1>2, <1>6, <2>1, ShownByFlushes
  <1>7. CASE CloseNode
    <2>1. pc = "idle"
      BY <1>7 DEF CloseNode, Closing
    <2>2. PICK k, ev : Leaves(k, ev)
      BY <1>7, CloseNodePicks
    <2>3. pc' \in {"idle", "flush"}
      BY <2>1, <2>2, SpillGoesOn DEF Leaves
    <2> QED BY <1>2, <1>7, <2>1, <2>3, ShownByCloseNode
  <1>8. CASE CloseDone \/ EraseDies \/ CrashDB \/ OpenDBAborts
    <2>1. /\ pc' \in {"closed", "down"} \/ OpenDBAborts
          /\ CloseDone => pc \notin {"closed", "down"}
          /\ OpenDBAborts => pc \in {"closed", "down"} /\ pc' = pc
      BY <1>8 DEF CloseDone, EraseDies, CrashDB, Die, OpenDBAborts, dbvars
    <2>2. Saved'
      BY <1>2, <1>8, <2>1, SavedByEnds
    <2> QED BY <2>1, <2>2
  <1>9. CASE OpenDB
    <2>1. /\ pc \in {"closed", "down"} /\ pc' = "idle" /\ trie' = NoTable /\ mem_table' = wal_memtable
          /\ wal_memtable' = wal_memtable /\ pending' = NoTable /\ latest' = latest
          /\ newest' = newest
      BY <1>9 DEF OpenDB, Open
    <2>2. DOMAIN trie' = {}
      BY <2>1, NoTableSize
    <2>3. \A k : Top(k)' = IF k \in DOMAIN wal_memtable THEN wal_memtable[k] ELSE Stable(k)
      BY <2>1, <2>2, NoTableSize DEF Top, Cached, Beneath, InMem, Stable
    <2>4. \A k : User(Top(k)') = Survivor(k)
      BY <2>3, EntriesAssumption DEF Survivor, Stable, User
    <2>5. \A k \in Keys : User(Top(k)') = latest'[k]
      BY <1>2, <2>1, <2>4 DEF Saved
    <2> QED BY <2>1, <2>2, <2>5 DEF Shown, CleanInv, User
  <1>10. CASE UNCHANGED vars
    <2>1. pc' = pc
      BY <1>10 DEF vars, dbvars
    <2> QED BY <1>2, <1>10, <2>1, ShownByFlushes, SavedByEnds
  <1> QED BY <1>5, <1>6, <1>7, <1>8, <1>9, <1>10 DEF Next, Step

\* Reads of the store under the database find what was stored last.
LEMMA ReadsNewestAlways == Spec => []ReadsNewest
PROOF BY StoreIsUsedAsAllowed, ReadsFindNewest, PTL

LEMMA LayersAlways == Spec => [](SentInv /\ LayerInv)
PROOF
  <1>1. ASSUME Init
        PROVE  SentInv /\ LayerInv
    <2>1. /\ pc = "idle" /\ pending = NoTable /\ mem_table = NoTable
          /\ newest = NoTable /\ latest = [k \in Keys |-> Absent]
      BY <1>1 DEF Init, ManiFestInit
    <2>2. DOMAIN trie = {}
      BY <1>1 DEF Init, LruInit
    <2>3. \A k \in Keys : User(Top(k)) = latest[k]
      BY <2>1, <2>2, NoTableSize DEF Top, Cached, Beneath, InMem, Stable, User
    <2> QED BY <2>1, <2>2, <2>3 DEF SentInv, LayerInv, CleanInv
  <1>2. BaseInv /\ BlockInv /\ SentInv /\ LayerInv /\ ReadsNewest /\ [Next]_vars
          => (SentInv /\ LayerInv)'
    BY SentStep, LayerStep
  <1> QED BY <1>1, <1>2, BaseAlways, BlockAlways, ReadsNewestAlways, PTL DEF Spec

\* A cached copy that is not marked modified says what the layers below say,
\* so dropping it without writing it back (lru.h:241) loses nothing; until an
\* erase found its key, and while no compaction missed a file and no crash left
\* an older manifest.
THEOREM CleanCopiesMayGo == Spec => []CleanCopiesAgree
PROOF
  <1>1. ASSUME BaseInv, LayerInv, ReadsNewest
        PROVE  CleanCopiesAgree
    <2> SUFFICES ASSUME intact, ~erased, pc = "idle", NEW k \in DOMAIN trie,
                        ~trie[k].has_modified
                 PROVE  Agrees(heap[trie[k].value], Below(k))
      BY DEF CleanCopiesAgree
    <2>1. k \in Keys
      BY <1>1 DEF BaseInv, DBOK, CacheOK, LruTypeOK
    <2>2. User(Cell(k)) = User(Beneath(k)) /\ User(Below(k)) = User(Beneath(k))
      BY <1>1, <2>1, BelowIsBeneath DEF LayerInv, CleanInv
    <2> QED BY <2>2 DEF Agrees, User, Cell
  <1> QED BY <1>1, BaseAlways, LayersAlways, ReadsNewestAlways, PTL

LEMMA AnswerIsLatest ==
  ASSUME BaseInv, LayerInv, ReadsNewest
  PROVE  ReadsLatest
PROOF
  <1> SUFFICES ASSUME intact, ~erased, pc = "idle", NEW k \in Keys
               PROVE  IF latest[k] = Absent THEN Answer(k) \in {Absent, Deleted, Threw}
                      ELSE Answer(k) = latest[k]
    BY DEF ReadsLatest
  <1>1. User(Top(k)) = latest[k] /\ stage = "idle" /\ pending = NoTable
    BY DEF LayerInv, BaseInv, DBOK, LogOK, PhaseInv, WaitingInv
  <1>2. Top(k) = IF Cached(k) THEN heap[trie[k].value] ELSE IF InMem(k) THEN mem_table[k]
                 ELSE Stable(k)
    BY <1>1, NoTableSize DEF Top, Cell, Beneath
  <1>3. CASE Cached(k) \/ InMem(k)
    <2>1. Answer(k) = Top(k)
      BY <1>2, <1>3 DEF Answer
    <2> QED BY <1>1, <2>1 DEF User
  <1>4. CASE ~Cached(k) /\ ~InMem(k)
    <2>1. latest[k] = User(Stable(k))
      BY <1>1, <1>2, <1>4
    <2>2. IF k \in DOMAIN newest /\ newest[k] # Deleted
          THEN Lookup(k) = newest[k] /\ ~Throws(k) ELSE Lookup(k) \in {Absent, Deleted}
      BY <1>1 DEF ReadsNewest
    <2>3. Answer(k) = IF Throws(k) THEN Threw ELSE User(Lookup(k))
      BY <1>4 DEF Answer, User
    <2> QED BY <2>1, <2>2, <2>3 DEF Stable, User
  <1> QED BY <1>3, <1>4

\* get() answers what was stored last, wherever the pair is: cache, memtable
\* or table; also while close() is moving it from one to the other; until an
\* erase found its key, and while no compaction missed a file and no crash left
\* an older manifest.
THEOREM GetAnswersLatest == Spec => []ReadsLatest
PROOF BY AnswerIsLatest, BaseAlways, LayersAlways, ReadsNewestAlways, PTL

-----------------------------------------------------------------------------
(* The database implements the map.                                        *)

\* While nothing is lost, a step is one of the map's, or none.
LEMMA StepOfMap ==
  ASSUME BaseInv, ReadsLatest, [Next]_vars
  PROVE  [KV!Next]_<<latest, reply, Status>>
PROOF
  <1>1. CASE Status' = "lost"
    BY <1>1 DEF KV!Next, KV!Lose
  <1> SUFFICES ASSUME Status' # "lost" PROVE [KV!Next]_<<latest, reply, Status>>
    BY <1>1
  <1>2. intact' /\ ~erased' /\ intact /\ ~erased
    BY OneWay DEF Status
  <1>3. /\ Status  = IF pc \in {"closed", "down"} THEN pc ELSE "open"
        /\ Status' = IF pc' \in {"closed", "down"} THEN pc' ELSE "open"
    BY <1>2 DEF Status
  <1>4. CASE \E k \in Keys, v \in Values : Put(k, v)
    <2>1. PICK k \in Keys, v \in Values : Put(k, v)
      BY <1>4
    <2>2. pc = "idle" /\ CachePut(k, v, TRUE, free) /\ latest' = [latest EXCEPT ![k] = v] /\ reply' = reply
      BY <2>1 DEF Put, Ready
    <2>3. pc' \in {"idle", "flush"}
      BY <2>2, CachePutGoesOn
    <2>4. KV!Put(k, v)
      BY <1>3, <2>2, <2>3 DEF KV!Put
    <2> QED BY <2>4 DEF KV!Next
  <1>5. CASE \E k \in Keys : Get(k) \/ Erase(k)
    <2>1. PICK k \in Keys : Get(k) \/ Erase(k)
      BY <1>5
    <2>2. pc = "idle" /\ Fetch(k) /\ latest' = latest
      BY <2>1 DEF Get, Erase, Ready
    <2>3. pc' \in {"idle", "flush"}
      BY <2>2, FetchPicks, CachePutGoesOn
    <2>4. CASE Get(k)
      <3>1. reply' = <<k, Answer(k)>>
        BY <2>4 DEF Get
      <3>2. Answer(k) \in (IF latest[k] = Absent THEN {Absent, Deleted, Threw} ELSE {latest[k]})
        BY <1>2, <2>2 DEF ReadsLatest
      <3>3. KV!Get(k)
        BY <1>3, <2>2, <2>3, <3>1, <3>2 DEF KV!Get
      <3> QED BY <3>3 DEF KV!Next
    <2>5. CASE Erase(k)
      BY <1>3, <2>2, <2>3, <2>5 DEF Erase
    <2> QED BY <2>1, <2>4, <2>5
  <1>6. CASE EraseMark
    <2>1. PICK k \in Keys, list \in [Blocks -> Nat] :
             CachePut(k, Deleted, TRUE, list) /\ latest' = [latest EXCEPT ![k] = Absent]
      BY <1>2, <1>6, EraseMarkNothing
    <2>2. pc = "idle" /\ reply' = reply
      BY <1>6 DEF EraseMark, Ready
    <2>3. pc' \in {"idle", "flush"}
      BY <2>1, <2>2, CachePutGoesOn
    <2>4. KV!Erase(k)
      BY <1>3, <2>1, <2>2, <2>3 DEF KV!Erase
    <2> QED BY <2>4 DEF KV!Next
  <1>7. CASE EraseDies \/ CrashDB
    <2>1. pc \notin {"closed", "down"} /\ pc' = "down" /\ reply' = reply
      BY <1>7 DEF EraseDies, CrashDB, Die, Ready
    <2>2. latest' \in [Keys -> Values \cup {Absent}]
      BY BaseStep DEF BaseInv, DBOK, UserOK
    <2>3. KV!Crash
      BY <1>3, <2>1, <2>2 DEF KV!Crash, KV!Stores
    <2> QED BY <2>3 DEF KV!Next
  <1>8. CASE CloseDone
    <2>1. pc = "seal" /\ pc' = "closed" /\ UNCHANGED <<latest, reply>>
      BY <1>8 DEF CloseDone
    <2>2. KV!Close
      BY <1>3, <2>1 DEF KV!Close
    <2> QED BY <2>2 DEF KV!Next
  <1>9. CASE OpenDB
    <2>1. pc \in {"closed", "down"} /\ pc' = "idle" /\ UNCHANGED <<latest, reply>>
      BY <1>9 DEF OpenDB
    <2>2. KV!Reopen
      BY <1>3, <2>1 DEF KV!Reopen
    <2> QED BY <2>2 DEF KV!Next
  <1>10. CASE CloseNode
    <2>1. pc = "idle" /\ UNCHANGED <<latest, reply>>
      BY <1>10 DEF CloseNode, Closing
    <2>2. PICK k, ev : Leaves(k, ev)
      BY <1>10, CloseNodePicks
    <2>3. pc' \in {"idle", "flush"}
      BY <2>1, <2>2, SpillGoesOn DEF Leaves
    <2> QED BY <1>3, <2>1, <2>3
  <1>11. CASE FlushMem \/ StoreTable \/ FlushDone \/ Close \/ CloseFlush \/ CloseManifest \/ ManiFestRuns
    <2>1. /\ pc \notin {"closed", "down"} /\ pc' \notin {"closed", "down"}
          /\ UNCHANGED <<latest, reply>>
      BY <1>11 DEF FlushMem, StoreTable, FlushDone, Close, Ready, CloseFlush, CloseManifest,
                   Closing, ManiFestRuns, dbvars
    <2> QED BY <1>3, <2>1
  <1>12. CASE OpenDBAborts \/ UNCHANGED vars
    <2>1. UNCHANGED <<pc, latest, reply>>
      BY <1>12 DEF OpenDBAborts, vars, dbvars
    <2> QED BY <1>3, <2>1
  <1> QED BY <1>4, <1>5, <1>6, <1>7, <1>8, <1>9, <1>10, <1>11, <1>12 DEF Next, Step

\* The database is a map (KVStore) as long as every compaction took all the
\* files it intersects, no crash hit a session that had flushed and erase()
\* found no key.
THEOREM DatabaseIsMap == Spec => ImplementsMap
PROOF
  <1>1. Init => KV!Init
    BY DEF Init, ManiFestInit, KV!Init, Status
  <1>2. BaseInv /\ ReadsLatest /\ [Next]_vars => [KV!Next]_<<latest, reply, Status>>
    BY StepOfMap
  <1> QED BY <1>1, <1>2, BaseAlways, GetAnswersLatest, PTL DEF Spec, ImplementsMap, KV!Spec

=============================================================================
