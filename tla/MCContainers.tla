----------------------------- MODULE MCContainers -----------------------------
(***************************************************************************)
(* The containers, the files and the client library on small instances, by *)
(* use:                                                                    *)
(*   "cache"     LRUCache with the trie it keeps its nodes in (lru.h);     *)
(*   "names"     a Trie whose keys may share a path, as memKV's names may;   *)
(*   "records"   the skip lists of ManiFest, inserted from the head;       *)
(*   "memtable"  the KV_SkipList of DBImpl, inserted at the bottom;        *)
(*   "table"     an SST file made of each set of keys;                     *)
(*   "number"    each word of a small width, in both encodings;            *)
(*   "pairs"     WAL_memtable.log;                                         *)
(*   "ring"      WAL_manifest.log;                                         *)
(*   "manifest"  manifest.log, of each short sequence of records;          *)
(*   "client"    Connector and the variables it has at the server.         *)
(***************************************************************************)
EXTENDS LRUCache, Trie, SkipList, SstFile, Logs, Connector

CONSTANTS
  PathKeys,    \* keys of a trie, some with characters of the same index
  ListKeys,    \* keys of the skip lists
  TableKeys,   \* keys of the tables
  MaxUses,     \* bound: calls on the cache
  MaxListed,   \* bound: calls on a skip list
  MaxTall,     \* bound: coins that fall heads in a row, plus one
  MaxRows,     \* bound: rows of a log
  MaxCalls     \* bound: calls of the client library

\* A word holds the length of a file's name; the head of a list is no key; a
\* null pointer is no value; the keys of the cache are of letters and digits, no
\* two of which have the same index.
ASSUME ContainersAssumption ==
  /\ ByteSize > 9
  /\ ListKeys \subseteq Seq(Nat) /\ Start \notin ListKeys
  /\ MaxTall \in Nat
  /\ ctoi \in [DOMAIN ctoi -> Nat] /\ Keys \cup PathKeys \subseteq Seq(DOMAIN ctoi)
  /\ Nil \notin Keys \cup Values
  /\ \A s, t \in Keys : Path(s) = Path(t) => s = t

VARIABLES
  which,   \* the container
  uses,    \* calls made
  used,    \* key -> the last call that used it, in the cache
  nodes,   \* the cache's trie; the value of a key is its node, named by the key
  list,    \* a skip list
  map,     \* what it should hold
  sst,     \* the table made of map
  bytes,   \* a file
  written  \* what was written to it

files == <<list, map, sst, bytes, written>>
vars == <<lrulist, trie, which, uses, used, nodes, files, convars>>
idle == <<lrulist, trie, used, nodes>>

NoMap   == [k \in {} |-> k]
NoTable == [blocks |-> <<>>, index |-> <<>>]

Word == INSTANCE Coding WITH ByteSize <- 16, FixedLen <- 2, VarintLen <- 3

\* Its length takes two bytes.
LongValue == [i \in 1..(ByteSize \div 2) |-> 1]

\* data<id>.sst, nine bytes of which one matters.
FileName(id) == [i \in 1..9 |-> IF i = 5 THEN 48 + id ELSE 115]

Records == [level : {0, 1}, name : {FileName(1), FileName(2)}, min : {<<97>>}, max : {<<97>>, <<97, 98>>}]

FileInit ==
  \/ which = "number" /\ written \in 0..255 /\ bytes = Word!SetVarint(written) \o Word!SetFixed(written)
  \/ which = "pairs" /\ written = <<>> /\ bytes = <<>>
  \/ which = "ring" /\ written \in [id : 1..5, turned : {FALSE}] /\ bytes = <<>>
  \/ /\ which = "manifest"
     /\ written \in [records : UNION {[1..n -> Records] : n \in 0..2}, id : 1..5]
     /\ bytes = ManifestBytes(written.records, written.id)

MCInit ==
  /\ LruInit
  /\ uses = 0 /\ used = [k \in Keys |-> 0]
  /\ nodes = EmptyTrie
  /\ list = EmptyList
  /\ map = NoMap /\ sst = NoTable
  /\ ConnectorInit
  /\ \/ which \in {"cache", "names", "records", "memtable", "table", "client"} /\ bytes = <<>> /\ written = 0
     \/ FileInit

Use(container, bound) ==
  /\ which = container /\ uses < bound
  /\ uses' = uses + 1
  /\ UNCHANGED which

MCGet(k) == Cached(k) /\ Touch(k) /\ UNCHANGED nodes

\* lru.h:230-248: the dropped key leaves the trie before the new one enters.
MCPut(k) ==
  /\ \E v \in Values, new_kv \in BOOLEAN : LruPut(k, v, new_kv)
  /\ LET room == IF Dropped(k) = {} THEN nodes ELSE Pruned(nodes, Back)
     IN  nodes' = IF Cached(k) THEN nodes ELSE Stored(room, k, k)

CacheStep ==
  /\ Use("cache", MaxUses)
  /\ \E k \in Keys : /\ MCGet(k) \/ MCPut(k)
                     /\ used' = [used EXCEPT ![k] = uses + 1]
  /\ UNCHANGED <<files, convars>>

\* server.cpp:108 and 152: a name is stored, or erased when it is there.
StoreName ==
  \E k \in PathKeys, v \in Values :
    /\ nodes' = Stored(nodes, k, v)
    /\ map' = [p \in DOMAIN map \cup {Path(k)} |-> IF p = Path(k) THEN v ELSE map[p]]

EraseName ==
  \E k \in PathKeys : /\ Count(nodes, k)
                      /\ nodes' = Pruned(nodes, k)
                      /\ map' = [p \in DOMAIN map \ {Path(k)} |-> map[p]]

NameStep ==
  /\ Use("names", MaxListed) /\ (StoreName \/ EraseName)
  /\ UNCHANGED <<lrulist, trie, used, list, sst, bytes, written, convars>>

\* manifest.cpp inserts names and records that are not listed and erases
\* listed ones.
InsertRecord ==
  \E k \in ListKeys \ DOMAIN map, tall \in 1..MaxTall :
    /\ tall <= Top(list) + 1
    /\ list' = InsertedFromHead(list, k, k, tall)
    /\ map' = [x \in DOMAIN map \cup {k} |-> x]

EraseRecord ==
  \E k \in DOMAIN map : /\ list' = Unlinked(list, k)
                        /\ map' = [x \in DOMAIN map \ {k} |-> x]

PutPair ==
  \E k \in ListKeys, v \in Values, tall \in 1..2 :
    /\ list' = KVPut(list, k, v, tall)
    /\ map' = [x \in DOMAIN map \cup {k} |-> IF x = k THEN v ELSE map[x]]

\* clear(), at the end of a flush.
ClearPairs == DOMAIN map # {} /\ list' = EmptyList /\ map' = NoMap

ListStep ==
  /\ \/ Use("records", MaxListed) /\ (InsertRecord \/ EraseRecord)
     \/ Use("memtable", MaxListed) /\ (PutPair \/ ClearPairs)
  /\ UNCHANGED <<idle, sst, bytes, written, convars>>

MakeTable ==
  /\ Use("table", 1)
  /\ \E S \in SUBSET TableKeys \ {{}} :
       /\ map' = [k \in S |-> IF k = <<2>> THEN LongValue ELSE k]
       /\ sst' = TableOf(map')
  /\ UNCHANGED <<idle, list, bytes, written, convars>>

\* A key and a value may hold what looks like a length.
LogPair ==
  \E key \in {<<97>>, <<1, 0, 0, 0>>}, value \in {<<>>, <<97, 98>>, <<1, 0, 0, 0>>} :
    /\ bytes' = bytes \o PairRow(key, value)
    /\ written' = Append(written, [key |-> key, value |-> value])

\* manifest.cpp:109-117: a put turns the ring, then lists the table it wrote.
TurnRing ==
  LET id == IF written.id = 5 THEN 1 ELSE written.id + 1
  IN  /\ ~written.turned
      /\ bytes' = bytes \o RingRow(id)
      /\ written' = [id |-> id, turned |-> TRUE]

ListTable ==
  /\ written.turned
  /\ \E rec \in Records : rec.level = 0 /\ bytes' = bytes \o RecordRow(0, rec)
  /\ written' = [written EXCEPT !.turned = FALSE]

\* manifest.cpp:210-226: the put's compactions list and remove tables.
LogCompaction ==
  /\ bytes # <<>> /\ ~written.turned
  /\ \E ope \in {0, 1}, rec \in Records : bytes' = bytes \o RecordRow(ope, rec)
  /\ UNCHANGED written

FileStep ==
  /\ \/ Use("pairs", MaxRows) /\ LogPair
     \/ Use("ring", MaxRows) /\ (TurnRing \/ ListTable \/ LogCompaction)
  /\ UNCHANGED <<idle, list, map, sst, convars>>

\* A call that has begun goes on.
ClientStep ==
  /\ \/ call = Idle /\ Use("client", MaxCalls)
     \/ call # Idle /\ UNCHANGED <<which, uses>>
  /\ ConnectorNext
  /\ UNCHANGED <<idle, files>>

MCNext == CacheStep \/ NameStep \/ ListStep \/ MakeTable \/ FileStep \/ ClientStep

MCSpec == MCInit /\ [][MCNext]_vars

-----------------------------------------------------------------------------

\* The list of the cache is ordered by last use, so the node at the back,
\* which put() drops (lru.h:238), is the one unused for longest; and the keys
\* that are cached are the last ones used.
BackIsLeastRecent ==
  /\ \A i, j \in 1..Len(lrulist) : i < j => used[lrulist[i]] > used[lrulist[j]]
  /\ \A k \in Keys \ DOMAIN trie : \A j \in 1..Len(lrulist) : used[k] < used[lrulist[j]]

\* trie.h finds the node of every cached key and no other, although keys are
\* prefixes of each other and erase() cuts whole branches.  The size of a node
\* is the number of values under it (trie.h:82), and no branch is without one.
\* Keys whose characters have the same indices (trie.h:14) are one key, which
\* says what was stored last under one of them; all others answer for
\* themselves, and getKV() (trie.h:330) lists each of them once.
TrieIsMap ==
  /\ which = "cache" => \A k \in Keys : Query(nodes, k) = IF Cached(k) THEN k ELSE Nil
  /\ DOMAIN nodes = {<<>>} \cup UNION {Prefixes(p) : p \in Valued(nodes)}
  /\ \A p \in DOMAIN nodes : nodes[p].size = Cardinality({q \in Valued(nodes) : IsPrefix(p, q)})
  /\ which = "names" =>
       /\ \A k \in PathKeys : Query(nodes, k) = IF Path(k) \in DOMAIN map THEN map[Path(k)] ELSE Nil
       /\ Len(Entries(nodes)) = Size(nodes)
       /\ {<<e.key, e.value>> : e \in Range(Entries(nodes))} = {<<p, map[p]>> : p \in DOMAIN map}

\* skiplist.h keeps a key on several levels: whatever was inserted from the
\* head and erased, every level is part of the one below, a node leads down to
\* its own key, size() counts the bottom and lower(), lower_equal() and count()
\* find what a plain set would.
ListIsSet ==
  which = "records" =>
    /\ Listed(list) = DOMAIN map
    /\ list.size = Cardinality(DOMAIN map)
    /\ \A i \in 2..Top(list) : \A k \in On(list, i) :
         list.levels[i][k].down = i - 1 /\ k \in On(list, i - 1)
    /\ \A k \in ListKeys :
         /\ HasElement(list, k) <=> k \in DOMAIN map
         /\ LET below == {x \in DOMAIN map : Less(x, k)}
            IN  /\ Lower(list, k) = IF below = {} THEN Start ELSE Greatest(below)
                /\ LowerEqual(list, k) = IF k \in DOMAIN map THEN k ELSE Lower(list, k)

\* The memtable (utils.h:109-169) answers what was put last although a put of a
\* key it has changes the bottom node only, and heads that are put on top one
\* by one lead down past levels.
MemtableIsMap ==
  which = "memtable" =>
    /\ KVAll(list) = map
    /\ list.size = Cardinality(DOMAIN map)
    /\ \A k \in ListKeys : /\ KVCount(list, k) <=> k \in DOMAIN map
                            /\ KVGet(list, k) = IF k \in DOMAIN map THEN map[k] ELSE Missing

\* The key a table of several blocks does not find: its greatest, of 'z' only.
Hidden(S) == {k \in S : k = Greatest(S) /\ AllZ(k) /\ Cardinality(S) > BlockSize}

OrdersAgree(S) == \A s, t \in S : Less(s, t) <=> SliceLess(s, t)

\* A table (table.cpp) whose keys both orders sort alike answers for every key
\* like the map it was made of, and nothing for any other, but for a last key
\* of 'z' only; reading any table block by block gives every pair, ascending.
TableIsMap ==
  sst # NoTable =>
    LET all == AllEntries(sst)
    IN  /\ \A k \in TableKeys : OrdersAgree(DOMAIN map) =>
             GetValue(sst, k) = IF k \in DOMAIN map \ Hidden(DOMAIN map) THEN map[k] ELSE NotFound
        /\ {all[i].key : i \in DOMAIN all} = DOMAIN map
        /\ \A i \in DOMAIN all : all[i].value = map[all[i].key]
        /\ \A i \in 2..Len(all) : SliceLess(all[i - 1].key, all[i].key)

\* The file of a table (table.cpp, block.cpp, entry.cpp, footer.cpp), of however
\* many blocks and groups and with lengths of one byte or two, is parsed back to
\* what Table says of it: the index to the same keys, each leading to its block.
FileReadsBack ==
  sst # NoTable =>
    LET file  == FileBytes(sst)
        index == IndexOf(file)
    IN  /\ Len(index) = Len(sst.index)
        /\ \A i \in DOMAIN index : /\ FirstKey(index, i) = FirstKey(sst.index, i)
                                  /\ GetBlock(file, index, i) = BlockOfIndex(sst, i)

\* What DBImpl reads from WAL_memtable.log (wal.cpp:20) and ManiFest from
\* manifest.log (manifest.cpp:18) is what was written, in order, whatever
\* bytes the strings are made of; and whatever its size, an integer (utils.cpp)
\* is read back from between others and no byte of its neighbours is taken.
LogsReadBack ==
  /\ which = "pairs" => Pairs(bytes) = written
  /\ which = "manifest" => ManifestRead(bytes) = written
  /\ which = "number" =>
       \E n \in Word!VarintLens(bytes, 1) :
         /\ Word!GetVarint(bytes, 1) = written
         /\ Word!HasFixed(bytes, n + 1) /\ Word!GetFixed(bytes, n + 1) = written
         /\ n + 2 = Len(bytes)

\* README.md, "the WAL makes commands durable and keeps the data safe":
\* a WAL_manifest.log that a process left behind, wherever in or after a put it
\* stopped, can be replayed by the next one (manifest.cpp:33-44).
RingLogReopens == which = "ring" => ~ReplayAborts(bytes)

\* Not a promise but the case in which the code breaks that one, as OpenAborts of
\* ManiFest and OpenDBAborts of DBImpl take it: a log cannot be replayed exactly
\* when a put was logged, for the reader takes the ring's id for a length
\* (wal.cpp:46).
RingLogAborts == which = "ring" => (ReplayAborts(bytes) <=> bytes # <<>>)

\* trie.h:9, "characters and integers, a bijection": names that are found are
\* values of their own, so that erasing or replacing one leaves the others.
NamesKeptApart ==
  which = "names" =>
    \A j, k \in PathKeys : j # k /\ Count(nodes, j) /\ Count(nodes, k) => Path(j) # Path(k)

\* test/sst_write_read.cpp:41: every pair that was written is read back.
SstReadsBack ==
  sst # NoTable => \A k \in DOMAIN map : GetValue(sst, k) = map[k]

\* The same of every pair but the one SstReadsBack fails for, whatever bytes its
\* key has.
SstReadsBytes ==
  sst # NoTable => \A k \in DOMAIN map \ Hidden(DOMAIN map) : GetValue(sst, k) = map[k]

-----------------------------------------------------------------------------

\* Keys of the instances: prefixes of each other, neighbours, keys of 'z', a byte
\* outside ASCII.
MCCacheKeys == {<<1>>, <<1, 2>>, <<1, 2, 1>>, <<2>>}
MCPathKeys == {<<1>>, <<1, 4>>, <<1, 5>>, <<4>>, <<5>>, <<5, 1>>}
MCListKeys == {<<1>>, <<1, 1>>, <<1, 3>>, <<2>>, <<2, 1>>, <<3>>}
MCTableKeys == MCListKeys \cup {<<1, 1, 1>>, <<2, 1, 1>>, <<2, 2>>, <<2, 9>>, <<3, 1>>, <<3, 3>>}
MCLetterKeys == {k \in MCTableKeys : AsChars(k) = k}
MCNames == {<<"a">>, <<"a", "1">>}
MCContents == {<<1, 2>>, <<2, 1>>}
\* Two characters with the last index.
MCctoi == <<1, 2, 3, 4, 4>>
MCCrc == <<7, 7, 7, 7>>
MCMagic == <<9, 9, 9, 9, 9, 9, 9, 9>>

=============================================================================
