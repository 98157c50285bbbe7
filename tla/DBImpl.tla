------------------------------- MODULE DBImpl -------------------------------
(***************************************************************************)
(* One user's database: class DBImpl (src/db/db_impl.cpp) over its LRU     *)
(* cache, its memtable with the log WAL_memtable.log, and its ManiFest.    *)
(* An event loop runs one operation at a time on it; what interleaves is   *)
(* the death of the process with the steps of an operation.                *)
(*                                                                         *)
(* The memtable is the map it holds; the log is the map its rows replay to *)
(* (the constructor puts them in order, the last row of a key wins).       *)
(*                                                                         *)
(* The cache holds blocks of the memory pool.  A value fills one block;    *)
(* the pool gives any block its free lists hold, and a block freed twice   *)
(* is in them twice.                                                       *)
(***************************************************************************)
EXTENDS ManiFest, Sequences

CONSTANTS
  CacheSize,   \* Option::CACHE_SIZE
  Blocks,      \* the blocks of mempool
  Threw        \* an exception left the call

VARIABLES
  lrulist, trie,  \* lru_
  heap,           \* block -> entry, for the blocks the cache refers to
  free,           \* block -> how many times the pool's free lists hold it
  mem_table,      \* key -> entry
  wal_memtable,   \* key -> entry
  pending,        \* the evicted pair put() or close() holds while it flushes
  has_closed,
  erasing,        \* what erase() has read and not marked yet: none or one
                  \* pair <<key, what get() returned>>
  pc,             \* where the running operation stands
  reply,          \* history: the last get(), <<key, answer>>
  latest,         \* history: key -> what the user stored last, or Absent
  erased          \* history: erase() has found a key

INSTANCE LRUCache WITH Values <- Blocks

ASSUME ThrewAssumption  == Threw \notin Values \cup {Deleted, Absent}
\* put() allocates before it frees.
ASSUME BlocksAssumption == /\ CacheSize \in Nat \ {0}
                           /\ IsFiniteSet(Blocks) /\ Cardinality(Blocks) > CacheSize

lruvars == <<lrulist, trie, heap, free>>
dbvars  == <<lrulist, trie, heap, free, mem_table, wal_memtable, pending, has_closed,
             erasing, pc, reply, latest, erased>>
vars    == <<mvars, dbvars>>

Ready == pc = "idle" /\ stage = "idle" /\ ~has_closed

-----------------------------------------------------------------------------
(* Where a pair leaves the cache.                                          *)

\* Rows reach the log only when it could be opened.
Logged(f) == IF wal_open THEN f ELSE wal_memtable

\* Mutant: the memtable is full one pair late.
MemFullLate(ev) == /\ Cardinality(DOMAIN mem_table) = SstSize + 1
                   /\ ~(DOMAIN ev \subseteq DOMAIN mem_table)

MemFull(ev) == /\ Cardinality(DOMAIN mem_table) = SstSize
               /\ ~(DOMAIN ev \subseteq DOMAIN mem_table)

\* Lines 96-108, 250-257: an evicted pair goes to the memtable and the log;
\* a full memtable is flushed first.
Spill(ev) ==
  IF MemFull(ev)
  THEN /\ pc' = "flush"
       /\ pending' = ev
       /\ UNCHANGED <<mem_table, wal_memtable>>
  ELSE /\ mem_table' = Overwrite(mem_table, ev)
       /\ wal_memtable' = Logged(Overwrite(wal_memtable, ev))
       /\ UNCHANGED <<pc, pending>>

\* The free lists after the blocks S came back.
Freed(list, S) == [b \in Blocks |-> IF b \in S THEN list[b] + 1 ELSE list[b]]
Taken(list, b) == [list EXCEPT ![b] = @ - 1]

\* Mutant: the block of a node that was not modified is not given back.
LetGoModified(k) ==
  {trie[x].value : x \in Evicted(k) \cup (IF Cached(k) THEN {k} ELSE {})}

\* The blocks put() gives back: the old value's, or the dropped node's.
LetGo(k) == {trie[x].value : x \in Dropped(k) \cup (IF Cached(k) THEN {k} ELSE {})}

\* put(key, value, new_kv), lines 89-109, with the allocation of its caller.
\* The dropped value is read after the new one was written.
CachePut(k, entry, new_kv, list) ==
  \E b \in {x \in Blocks : list[x] > 0} :
    LET written == Overwrite(heap, [x \in {b} |-> entry])
    IN  /\ LruPut(k, b, new_kv)
        /\ free' = Freed(Taken(list, b), LetGo(k))
        /\ heap' = [x \in {trie'[y].value : y \in DOMAIN trie'} |-> written[x]]
        /\ Spill([x \in Evicted(k) |-> written[trie[x].value]])

-----------------------------------------------------------------------------
(* The end of the process.                                                 *)

\* What the files still say of a key.
Survivor(k) ==
  LET e == IF k \in DOMAIN wal_memtable THEN wal_memtable[k]
           ELSE IF k \in DOMAIN newest THEN newest[k] ELSE Deleted
  IN  IF e = Deleted THEN Absent ELSE e

\* The process ends; latest becomes what the files promise.
Die ==
  /\ Crash
  /\ pc' = "down"
  /\ latest' = [k \in Keys |-> Survivor(k)]
  /\ UNCHANGED <<lruvars, mem_table, wal_memtable, pending, has_closed, erasing, reply,
                 erased>>

-----------------------------------------------------------------------------
(* The operations.                                                         *)

Put(k, v) ==
  /\ Ready /\ erasing = {}
  /\ CachePut(k, v, TRUE, free)
  /\ latest' = [latest EXCEPT ![k] = v]
  /\ UNCHANGED <<mvars, has_closed, erasing, reply, erased>>

\* get() without its return, lines 139-196: the first layer that has the key
\* answers, and what a lower layer answers is cached, a tombstone too.
InMem(k) == k \in DOMAIN mem_table
Below(k) == IF InMem(k) THEN mem_table[k] ELSE Lookup(k)

Fetch(k) ==
  \/ /\ Cached(k)
     /\ Touch(k)
     /\ UNCHANGED <<heap, free, mem_table, wal_memtable, pending, pc>>
  \/ /\ ~Cached(k) /\ (InMem(k) \/ ~Throws(k)) /\ Below(k) # Absent
     /\ CachePut(k, Below(k), FALSE, free)
  \/ /\ ~Cached(k) /\ ~InMem(k) /\ (Throws(k) \/ Lookup(k) = Absent)
     /\ UNCHANGED <<lruvars, mem_table, wal_memtable, pending, pc>>

\* Mutant: the memtable is read before the cache.
AnswerMemFirst(k) ==
  IF InMem(k) THEN mem_table[k]
  ELSE IF Cached(k) THEN heap[trie[k].value]
  ELSE IF Throws(k) THEN Threw
  ELSE IF Lookup(k) = Deleted THEN Absent ELSE Lookup(k)

\* What get() returns: a tombstone reads as absent only when an .sst held it.
Answer(k) ==
  IF Cached(k) THEN heap[trie[k].value]
  ELSE IF InMem(k) THEN mem_table[k]
  ELSE IF Throws(k) THEN Threw
  ELSE IF Lookup(k) = Deleted THEN Absent ELSE Lookup(k)

Get(k) ==
  /\ Ready /\ erasing = {}
  /\ Fetch(k)
  /\ reply' = <<k, Answer(k)>>
  /\ UNCHANGED <<mvars, has_closed, erasing, latest, erased>>

\* erase() reads the key first, line 208.
Erase(k) ==
  /\ Ready /\ erasing = {}
  /\ Answer(k) # Threw
  /\ Fetch(k)
  /\ erasing' = {<<k, Answer(k)>>}
  /\ UNCHANGED <<mvars, has_closed, reply, latest, erased>>

\* Line 209 gives the block of an absent key, nullptr, back to the pool,
\* which indexes before the pool's lists: the process ends, or not.
EraseDies ==
  /\ Ready
  /\ \E k \in Keys : <<k, Absent>> \in erasing
  /\ Die

\* Lines 209-213: the block that was read goes back to the pool, the
\* tombstone is put like a value, and put() gives the block back again.
EraseMark ==
  /\ Ready
  /\ \E read \in erasing :
       LET k     == read[1]
           found == IF read[2] = Absent THEN {} ELSE {trie[k].value}
       IN  /\ CachePut(k, Deleted, TRUE, Freed(free, found))
           /\ latest' = [latest EXCEPT ![k] = Absent]
           /\ erased' = (erased \/ found # {})
  /\ erasing' = {}
  /\ UNCHANGED <<mvars, has_closed, reply>>

-----------------------------------------------------------------------------
(* flush(), lines 222-233.                                                 *)

\* Mutant: the log is not emptied.
FlushMemKeepsLog ==
  /\ pc = "flush"
  /\ pc' = "store"
  /\ UNCHANGED <<mvars, lruvars, mem_table, wal_memtable, pending, has_closed, erasing,
                 reply, latest, erased>>

\* Line 230: the table is built in memory, the log is emptied.
FlushMem ==
  /\ pc = "flush"
  /\ wal_memtable' = NoTable
  /\ pc' = "store"
  /\ UNCHANGED <<mvars, lruvars, mem_table, pending, has_closed, erasing, reply, latest,
                 erased>>

\* Line 231: the table is handed to the manifest.
StoreTable ==
  /\ pc = "store"
  /\ PutTable(mem_table)
  /\ pc' = "storing"
  /\ UNCHANGED <<lruvars, mem_table, wal_memtable, pending, has_closed, erasing, reply,
                 latest, erased>>

\* Lines 232, 99-104: the memtable is emptied and takes the pending pair.
FlushDone ==
  /\ pc = "storing" /\ stage = "idle"
  /\ mem_table' = pending
  /\ wal_memtable' = Logged(Overwrite(wal_memtable, pending))
  /\ pending' = NoTable
  /\ pc' = "idle"
  /\ UNCHANGED <<mvars, lruvars, has_closed, erasing, reply, latest, erased>>

-----------------------------------------------------------------------------
(* close(), lines 240-262.  lrulist shrinks to what the loop has not       *)
(* visited; the cache is not used any more.                                *)

Close ==
  /\ Ready /\ erasing = {}
  /\ has_closed' = TRUE
  /\ UNCHANGED <<mvars, lruvars, mem_table, wal_memtable, pending, erasing, pc, reply, latest,
                 erased>>

Closing == has_closed /\ pc = "idle" /\ stage = "idle"

\* Mutant: the loop does not step over a node that was not modified.
CloseNodeModified ==
  /\ Closing /\ lrulist # <<>>
  /\ LET k == Head(lrulist)
     IN  /\ trie[k].has_modified
         /\ Spill([x \in {k} |-> heap[trie[k].value]])
         /\ free' = Freed(free, {trie[k].value})
         /\ trie' = Without(trie, {k})
  /\ lrulist' = Tail(lrulist)
  /\ UNCHANGED <<mvars, heap, has_closed, erasing, reply, latest, erased>>

CloseNode ==
  /\ Closing /\ lrulist # <<>>
  /\ LET k == Head(lrulist)
     IN  /\ Spill(IF trie[k].has_modified THEN [x \in {k} |-> heap[trie[k].value]] ELSE NoTable)
         /\ free' = Freed(free, {trie[k].value})
         /\ trie' = Without(trie, {k})
  /\ lrulist' = Tail(lrulist)
  /\ UNCHANGED <<mvars, heap, has_closed, erasing, reply, latest, erased>>

CloseFlush ==
  /\ Closing /\ lrulist = <<>> /\ mem_table # NoTable
  /\ pc' = "flush"
  /\ UNCHANGED <<mvars, lruvars, mem_table, wal_memtable, pending, has_closed, erasing,
                 reply, latest, erased>>

CloseManifest ==
  /\ Closing /\ lrulist = <<>> /\ mem_table = NoTable
  /\ FlushClear
  /\ pc' = "seal"
  /\ UNCHANGED <<lruvars, mem_table, wal_memtable, pending, has_closed, erasing, reply,
                 latest, erased>>

\* Line 262.  The object is not used again: what is left is what a crash
\* would leave.
CloseDone ==
  /\ pc = "seal" /\ stage = "idle"
  /\ Crash
  /\ wal_memtable' = NoTable
  /\ pc' = "closed"
  /\ UNCHANGED <<lruvars, mem_table, pending, has_closed, erasing, reply, latest, erased>>

-----------------------------------------------------------------------------
(* The end of a session and the next one.                                  *)

CrashDB == pc \notin {"closed", "down"} /\ Die

\* Mutant: the log is not replayed.
OpenDBForgets ==
  /\ pc \in {"closed", "down"}
  /\ Open
  /\ lrulist' = <<>>
  /\ trie' = NoTable
  /\ heap' = NoTable
  /\ free' = [b \in Blocks |-> 1]
  /\ mem_table' = NoTable
  /\ pending' = NoTable
  /\ has_closed' = FALSE
  /\ erasing' = {}
  /\ pc' = "idle"
  /\ UNCHANGED <<wal_memtable, reply, latest, erased>>

\* The constructor, lines 48-65.
OpenDB ==
  /\ pc \in {"closed", "down"}
  /\ Open
  /\ lrulist' = <<>>
  /\ trie' = NoTable
  /\ heap' = NoTable
  /\ free' = [b \in Blocks |-> 1]
  /\ mem_table' = wal_memtable
  /\ pending' = NoTable
  /\ has_closed' = FALSE
  /\ erasing' = {}
  /\ pc' = "idle"
  /\ UNCHANGED <<wal_memtable, reply, latest, erased>>

OpenDBAborts == pc \in {"closed", "down"} /\ OpenAborts /\ UNCHANGED dbvars

\* The steps of the manifest inside flush() and close().
ManiFestRuns ==
  /\ \/ pc = "storing" /\ (WriteTable \/ CompactLevel \/ NoVictim \/ CompactThrows \/ PutDone)
     \/ pc = "seal" /\ FlushLog
  /\ UNCHANGED dbvars

-----------------------------------------------------------------------------
Init ==
  /\ ManiFestInit
  /\ LruInit
  /\ heap = NoTable /\ free = [b \in Blocks |-> 1]
  /\ mem_table = NoTable /\ wal_memtable = NoTable /\ pending = NoTable
  /\ has_closed = FALSE
  /\ erasing = {}
  /\ pc = "idle"
  /\ reply = <<>>
  /\ latest = [k \in Keys |-> Absent]
  /\ erased = FALSE

Step ==
  \/ EraseDies \/ EraseMark
  \/ FlushMem \/ StoreTable \/ FlushDone
  \/ Close \/ CloseNode \/ CloseFlush \/ CloseManifest \/ CloseDone
  \/ CrashDB \/ OpenDB \/ OpenDBAborts
  \/ ManiFestRuns

Next ==
  \/ \E k \in Keys, v \in Values : Put(k, v)
  \/ \E k \in Keys : Get(k) \/ Erase(k)
  \/ Step

Spec == Init /\ [][Next]_vars

-----------------------------------------------------------------------------
(* Properties.                                                             *)

\* Every variable keeps its type.  The memtable never outgrows one table,
\* whatever mix of evictions, reads that evict, and closing fills it
\* (db_impl.cpp:97, 250).
TypeOK ==
  /\ ManiFestTypeOK
  /\ LruTypeOK
  /\ Cardinality(DOMAIN mem_table) <= SstSize
  /\ mem_table \in Table /\ wal_memtable \in Table /\ pending \in Table
  /\ has_closed \in BOOLEAN
  /\ erasing \subseteq Keys \X (Entry \cup {Absent})
  /\ pc \in {"idle", "flush", "store", "storing", "seal", "closed", "down"}
  /\ reply = <<>> \/ reply \in Keys \X (Entry \cup {Absent, Threw})
  /\ latest \in [Keys -> Values \cup {Absent}]
  /\ DOMAIN heap \subseteq Blocks /\ \A b \in DOMAIN heap : heap[b] \in Entry
  /\ free \in [Blocks -> Nat]
  /\ erased \in BOOLEAN

\* Whatever put(), get() and close() do, a block of the pool is free once or
\* held by one node, never both, twice or neither (db_impl.cpp:93, 102, 107,
\* 247, 255), until erase() finds its key.
BlocksAccounted ==
  ~erased => \A b \in Blocks :
               free[b] + Cardinality({k \in DOMAIN trie : trie[k].value = b}) = 1

\* At every point where an operation is accepted or a flush begins, the log
\* replays to the memtable: no eviction path forgets its row, no flush
\* leaves old rows behind (db_impl.cpp:104, 230, 257).
WalReplaysMem ==
  wal_open /\ pc \in {"idle", "flush", "seal"} => wal_memtable = mem_table

\* Same, as an answer: v is what a map holding m would answer.
Agrees(v, m) == IF m \in {Absent, Deleted} THEN v \in {Absent, Deleted} ELSE v = m

\* A cached copy that is not marked modified says what the layers below say,
\* so dropping it without writing it back (lru.h:241) loses nothing; until an
\* erase found its key (AnswersLatest), and while the tables are intact.
CleanCopiesAgree ==
  intact /\ ~erased /\ pc = "idle" =>
    \A k \in DOMAIN trie :
      ~trie[k].has_modified => Agrees(heap[trie[k].value], Below(k))

\* get() answers what was stored last, wherever the pair is: cache, memtable
\* or table; also while close() is moving it from one to the other.  Until an
\* erase found its key, and while the tables are intact: no compaction missed a
\* file, no crash left an older manifest.
ReadsLatest ==
  intact /\ ~erased /\ pc = "idle" =>
    \A k \in Keys : IF latest[k] = Absent THEN Answer(k) \in {Absent, Deleted, Threw}
                    ELSE Answer(k) = latest[k]

\* Where the database stands for KVStore: lost once a compaction missed a file
\* it intersects, a crash hit a session that had flushed, or erase() found a key.
Status == IF ~intact \/ erased THEN "lost"
          ELSE IF pc \in {"closed", "down"} THEN pc ELSE "open"

\* The database is a map (KVStore) as long as every compaction took all the
\* files it intersects, no crash hit a session that had flushed and erase()
\* found no key.  A get() of a deleted key may answer the tombstone, one of
\* an absent key may throw.
KV == INSTANCE KVStore WITH
        store <- latest, Misses <- {Absent, Deleted, Threw}, status <- Status
ImplementsMap == KV!Spec

\* db_impl.cpp:132: a value get() returns is the value got for the key asked.
AnswersLatest ==
  intact /\ pc = "idle" => \A k \in Keys : Answer(k) \in Values => Answer(k) = latest[k]

\* db_impl.cpp:131: get() of a key that is not there, an erased one among them,
\* answers that it was not found.
DeletedNotFound ==
  intact /\ pc = "idle" => \A k \in Keys : latest[k] = Absent => Answer(k) # Deleted

\* README.md, "the WAL makes commands durable and keeps the data safe": every pair
\* of the memtable has its row in the log, in every session.
PairsAreLogged ==
  pc \in {"idle", "flush", "seal"} =>
    \A k \in DOMAIN mem_table : k \in DOMAIN wal_memtable /\ wal_memtable[k] = mem_table[k]

\* A close that is not stopped by the loop of ManiFest::put or by an
\* exception runs to its end.
CloseCompletes ==
  has_closed ~> (pc \in {"closed", "down"} \/ stage \in {"hung", "threw"})

=============================================================================
