# cloudCodingDB: a TLA+ verification project

cloudCodingDB (`src/mem_socket_server`) is a C++ key-value server: clients log in
over TCP, each user gets a database of their own, and that database is an LRU
cache over a memtable over a levelled set of sorted tables on disk, with two
write-ahead logs. This directory models its core in TLA+, checks the models with
TLC on small instances, and proves some of their properties with TLAPS for every
value of the constants. Every definition is translated from the source;
`PROJECT.json` ("map") names the lines each one stands for.

Paths below are relative to `src/mem_socket_server` unless they begin with `src/README.md`.

## 1. The system

| Component | State it keeps | Operations | Talks to |
|---|---|---|---|
| `DBImpl` (`src/db/db_impl.cpp`, `db.cpp`) | cache, memtable, `WAL_memtable.log`, `has_closed` | `put`, `get`, `erase`, `flush`, `close`, constructor | LRU cache, skip list, WAL, memory pool, ManiFest |
| LRU cache (`include/cache/lru.h`) | a list of nodes and a trie from keys to nodes; capacity 10 | `get`, `put` | returns the evicted node to DBImpl |
| ManiFest (`src/lsmtree/manifest.cpp`) | per level a skip list of file records; `insert_file_id`; `manifest.log`; `WAL_manifest.log` | `put` (with compaction), `flush`, constructor | tables on disk |
| SST tables (`src/sst`) | files `<user>/level_<l>/data<i>.sst`: blocks, index, footer | `TableBuilder`, `Table`, `getValue` | ManiFest writes, DBImpl and ManiFest read |
| WAL (`src/wal/wal.cpp`) | an append-only file | `putElement`, `getElements`, `clear` | DBImpl (memtable log), ManiFest (ring log) |
| Memory pool (`src/memtools`) | 5 lists of free nodes over one range of addresses, and `maxSize` per list | `allocate`, `deallocate` under a mutex | blocks are held by cache nodes |
| Containers (`include/containers`) | skip list, trie | insert, erase, `lower`, count | everything above |
| Thread pool (`src/threads`) | queue, semaphore, flag `running`, threads | `commit`, workers' loop, destructor | Server commits its event loops |
| Server (`src/server.cpp`) with event loops, epoll, channels, acceptor | one loop per processor, each with `memKV`: user -> database; one channel per socket with its next callback | connect, login, NEW / GET / SET / DES / QUIT | one DBImpl per login, thread pool, MySQL |
| User table (`src/usrinfo/sqlmanager.cpp`) | a connection to MySQL, one result set | `connect`, `selectDB`, `query`, `QueryGetRes` | one per loop; asked by `handleLoginEvent` |
| Client library (`src/mem_socket_client`) | a socket, the sizes of the arrays it asked for | `memAsk`, `memWrite`, `memRead`, `memFree`, `Login`, `Exit` | Server |

**How they interact.** A `put` goes into the cache only. A pair moves down when the
cache evicts it: into the memtable, with a row in `WAL_memtable.log`. A full
memtable is flushed first: the log is cleared, the memtable becomes a level-0
table, `ManiFest::put` records it and compacts every level that overflows.
`close` moves the whole cache the same way, flushes once more, and writes
`manifest.log`. `get` looks in the cache, the memtable, the ring of level-0
files from the newest to the oldest, then one candidate file per level, and puts
what it finds back into the cache, which may evict again.

**What is hard about it.** Nothing in a database runs concurrently (an event loop
runs one handler at a time); what is hard is the *ordering* inside operations that
call each other (an eviction that flushes that compacts), the *staleness* of
copies of one key in up to four layers, a *crash* between any two of those steps,
the *ring* of level-0 ids that is reused, the *choice of files* a compaction must
take, and *ownership* of pool blocks on paths that free. The thread pool, the server's
loops and the main loop, which registers channels that other loops handle at once, do run
concurrently. `PROJECT.json` ("hazards") lists each at its line.

What makes each component correct:

- **DBImpl**: it answers like a map, across flushes, compactions, a close and a
  restart; what its log holds is what its memtable holds; each block has one owner.
- **LRU cache**: list and trie name the same keys; the victim is the least recently used.
- **ManiFest**: a read finds the newest entry; files of a level do not overlap; the ring
  never overwrites a listed file; limits are restored; manifest and folders agree.
- **Memory pool**: every address is free once or held once; neighbours are merged.
- **Thread pool**: no pop of an empty queue; what is committed is started; shutdown ends.
- **Reactor**: no connection, no request and no edge of a socket is forgotten; a channel is in one
  thread's hands and has its callback when it gets there; a closed descriptor can be reused.
- **User table**: a login is decided by the rows of its own query.
- **Client library**: the server hears what was said; what was asked for is there and reads as
  written; what was asked for and not freed is known to its connector.
- **Server**: each connection reaches its own user's open database; what a client was told is stored is
  kept across QUIT and login, and what none was told of changes nothing else; a waiting client is
  answered. (It takes one login per user at a time, and databases that promise what they hold.)

## 2. Modules

| Module | Models | Extends / composes |
|---|---|---|
| `ManiFest` | the table store and its two logs | |
| `LRUCache` | the cache | |
| `KVStore` | abstract: a map with get, put, erase, close, reopen | |
| `DBImpl` | one user's database | EXTENDS `ManiFest`, INSTANCE `LRUCache`, refines `KVStore` |
| `MemPool` | pool, lists, the three fits | |
| `ThreadsPool` | pool of threads | |
| `Trie`, `SkipList` | the nodes of the two containers | |
| `Table` | blocks, groups and index of an SST file, writing and reading | |
| `SstFile` | the bytes of an SST file, written and parsed | EXTENDS `Table`, `Coding` |
| `Logs` | the bytes of both write-ahead logs and of `manifest.log` | EXTENDS `Coding` |
| `Coding` | integers as bytes, of fixed and of variable width | |
| `Strings` | the two orders of keys | used by `SkipList`, `Trie`, `Table` |
| `Reactor` | acceptor, epoll, registration of channels, loops of threads | |
| `SqlManager` | a loop's connection to MySQL | |
| `Connector` | the client library and its sentences | |
| `Server` | connections, requests, event loops, clients | a database is the map `KVStore` promises, until it is lost |
| `MCContainers` | each container beside what it stands for | EXTENDS `LRUCache`, `Trie`, `SkipList`, `SstFile`, `Logs`, `Connector` |
| `MCRuntime` | the pools, the reactor and the user table side by side | EXTENDS `MemPool`, `ThreadsPool`, `Reactor`, `SqlManager` |
| `MCManiFest`, `MCDBImpl`, `MCServer` | bounds for TLC | |
| `ManiFestProofs`, `LRUCacheProofs`, `ReactorProofs`, `ServerProofs`, `ConnectorProofs` | theorems about the module of that name, and lemmas on sequences and recursion in the last | EXTENDS that module, `TLAPS` |
| `RuntimeProofs` | theorems about the memory pool, the thread pool, the user table and the pieces of `MCRuntime` together | EXTENDS `MCRuntime`, `ReactorProofs` |
| `ContainersProofs` | theorems about the order of the cache, the containers and the logs | EXTENDS `MCContainers`, `LRUCacheProofs`, `ConnectorProofs` |
| `DBImplProofs` | theorems about a database, the refinement of `KVStore` among them | EXTENDS `DBImpl`, `ManiFestProofs`, INSTANCE `LRUCacheProofs` |

Definitions marked `Mutant:` are wrong variants of the definition that follows
them; each is a plausible bug that one property must notice. No specification uses them.

### ManiFest

`levels_files` is the array of skip lists, as a set of records per level (the
skip list is ordered by `RecordBefore`, which is all that `lower()` depends on);
`disk` the folders, a file being the table it holds; `dirs` the folders that
exist; `levels_size` the length of `_levels_files`, 0 until the first put, which is
what makes `get` skip the store. `wal_manifest` says whether `WAL_manifest.log`
holds a row and `manifest_log` what `manifest.log` holds.

`put()` is cut at the points where a crash leaves different files behind:
`PutTable` (ring turn and its log row), `WriteTable` (the file and its record), one
`CompactLevel` per overflowing level, `PutDone`. A `CompactLevel` is one round: the
random victim (`\E` over `Victims`), `CrossIntersect` with the scan's own start and
stop, the merge with the victim's entry winning, tombstones dropped when the
level below is new, outputs cut at `SstSize` keys and named by the least absent ids,
and the removal of the inputs. `NoVictim` is the loop that draws a random id
forever, `CompactThrows` the exception of reading a file that is not there;
both end in terminal stages. `flush()` is `FlushClear` (the log) then `FlushLog`
(the manifest). `Crash`, `Open`, `OpenAborts` model a restart: a non-empty
`WAL_manifest.log` cannot be parsed (the row of event 2 has no length field,
`wal.cpp:69` against `wal.cpp:46`), and the process that opens it ends.

`newest` and `intact` are history. `intact` becomes false when a compaction missed a
file of the next level that intersects its output (see the finding
`CrossIntersectComplete`) or a crash lost a put; properties about what is *read*
are conditional on it, because after that the code's answers are wrong. The run
`manifest` reaches level 2 with `intact` still true, so the condition is not vacuous.

### LRUCache and DBImpl

`LRUCache` keeps `lrulist` and `trie`. `DBImpl` instantiates it with pool blocks as
values: `heap` says what a block holds, `free` how often the pool's lists hold it, so
a block freed twice is visible. A `put` of the cache (`CachePut`) is one step with
the eviction and the log row it causes (`Spill`) unless the memtable is full; then the
evicted pair waits in `pending` while `FlushMem`, `StoreTable`, ManiFest's own
steps and `FlushDone` run. `pc` says where the operation stands. `erase` reads first
(`Erase`) and marks afterwards (`EraseMark`), because the read itself can evict and
flush; of an absent key it frees `nullptr`, which indexes `lists[-1]`, and the
session ends (`EraseDies`). `close` is `Close`, one `CloseNode` per cached node with
flushes in between, `CloseFlush`, `CloseManifest`, `CloseDone`. `CrashDB` may happen at
any step and keeps the files only. `OpenDB` replays the memtable's log.

Facts of the code that the model keeps and a reader may not expect:

- a put is logged only when its pair is *evicted*; a crash loses whatever is cached;
- in a user's first session the logs are opened before the user's folder exists
  (`db.cpp:7`), so `wal_open` is false until a reopening;
- `get` returns the tombstone itself when the cache or the memtable holds it, and
  "not found" only when a table does (`Agrees` allows both);
- `get` of an absent key throws until all ring files were written (`Throws`).

### Trie, SkipList, Table, SstFile, Logs

These are pure: an operation is an operator from one container to the next, and
`MCContainers` has the actions. Keys are short sequences of small numbers.

A tree of `Trie` is a function from paths to `[value, size]`. `Stored` is `insert` and
`operator []`; `Pruned` is `erase`: the path is counted down (`Counted`), and unless a value is
left below, the branch is cut where `Cut` says; `Entries` is `getKV`. `ctoi` of the instances has
two characters with the last index, as all but letters and digits have. A list of `SkipList` is a sequence of levels;
a node has a copy of the value and the level its `down` leads to, because `KV_SkipList::put`
inserts from a bottom node and each tower of two puts a head on top of all heads, whose node
leads past the levels between. `Trail` is the walk all operations share. Towers are chosen
with `\E tall`: that many coins fell heads.

`Table` builds blocks and index from a map (`TableOf`) and reads them back (`GetValue`,
`AllEntries`). An offset is the number of the block or group it points to. The two bisections
are recursive functions with the code's bounds and its default answers. Entries are sorted by
`Slice::compare`, on signed chars, and searched by `std::string`'s unsigned order (`Strings`).

`SstFile` lays the same blocks out as bytes (`FileBytes`) and parses them (`IndexOf`,
`GetBlock`); `FileReadsBack` is what allows `Table` to name blocks and groups by number.
A reader takes a position in the bytes where the code takes a `Slice` and cuts it. `Logs` does
the same for the logs. `Aborted` is what a reader is left with when it fails an assertion.

`RingLogReopens` is what a log is for, and the run `ring_log` shows it violated: `putElement(int)` writes
the id of the ring where the reader expects a length, so the reader takes the id for one, cuts the next
row short and fails an assertion there. That this happens to every log with rows in it, from whatever id
it starts and wherever it stops, is what `OpenAborts` of `ManiFest` and `OpenDBAborts` of `DBImpl` take for
granted; it is the theorem `RingLogEndsTheReader`, and no property of a run. So the loop that would replay
events 0 and 1 (`manifest.cpp:31`, which erases the record in both cases) never gets that far.

`MCContainers` runs these uses side by side (`which`): the cache in step with the trie
its nodes are in, a trie whose keys share paths, the skip lists of the manifest, the memtable, a table of every set of keys,
integers, the three logs, and the client library.

### MemPool

Addresses are `0 .. NumLists * OneSize - 1`, list `i` owns `Region(i)`. `Allocate` and
`Deallocate` are one action each: both hold the mutex throughout. `fit` is chosen in
`PoolInit` (`MEM_POOL_ALGO`). `Owner` is the binary search with its three exits. An
`allocate` that finds no list returns `nullptr` and changes nothing, so it is no action.

### ThreadsPool

One action between any two calls of the semaphore and the mutex: `Wait`, `Look` (the
unlocked read of `running`), `Take`, `Return` for a worker; `Commit` for the owner;
`Stop`, `Post`, `Join` for the destructor. `running` is a plain bool shared between
threads; the header of the module says why interleavings cover its outcomes. Tasks
in `Endless` never return: `EventLoop::loop` runs while `quit` is false and nothing sets it.

### Reactor

A connection is a `Channel`; messages are what decides the path through a handler: `ask` (one
answer), `set` and the `bytes` that follow, `leave` (QUIT, or a login that is refused), `eof`.
`watched` and `ready` are an epoll: what it knows, and whose edge it has not reported. `Edge` and
`Control` are the kernel, modelled from how the code uses it: an arriving message makes an edge, and
so does an `epoll_ctl` that finds something to read. `Poll` reports an edge once, at most `MaxEvents`
at a time. `batch` is what the loop still has to call `handleEvent` of; `at` where its thread is.

The main loop accepts one connection per event (`AcceptOne`), makes its channel, and then sets the
callback, adds it to the *other* loop's epoll and marks it, in that order (`Registration`), with the
other loop's steps between any two of them. A subloop reads (`Receive`, and `ReceiveValue` for the
second `recv` of SET), answers, re-arms and goes on, or takes the channel out and closes it, after
which its descriptor may be given out again (`FreeFds`; `accept` takes the lowest). `AcceptFails` ends
the process, as `errif` does. `merged` is history: a connection came while an edge of the
listening socket was unreported, so the two are one event.

### SqlManager

`m_result` is a null pointer, the number of a result set, or `Garbage`: the constructor does not set
it, and the first query frees it. `results` are the sets MySQL handed out and nobody freed, with
the rows not fetched yet; `infos` is the table, which others change at any time, and `link` the
connection, which may be refused or lost. Nobody looks at what `query` returns: after one that
failed, `getRes` follows the null pointer and the process ends (`GetRes`).

### Connector

A call is one step per request, because a connection may be lost between them (`Disconnect`; `Exit` is
the QUIT between calls; either way the next connector knows nothing, `StartAgain`). A request is a text. `WordsOf` is what a string
stream makes of it, `Sentence` what `toDBsentense` makes of the words, `Buffer` what `sWrite` sends of it: a
line feed and zeros up to `BufSize`, 128 in the code. A sentence that does not fit (`Sendable`) is written past
the buffer, and nothing is promised from then on (`Overrun`). `Words` is `sRead`: it looks for the marks,
reads past the length it was given, skips every blank behind it, and ends a word at a line end. `Heard`
is both ends together, and every request goes through it.

`store` is the user's variables at the server while the database promises what it holds. It does not
any more (`lost`) after a DES, whose `erase` and `put` both free the element's block (`db_impl.cpp:209`, `:93`), so that two other
elements may be put in one block later; after a put whose compaction misses a file, hangs or throws;
after an `Overrun`; and after a connection that ended without QUIT. `Sent`, `Kept` and `Fetched`
are the order of a value's bytes: `BitHighLow` compares the low byte of 0x1234 with 0x12, so all sides
reverse. `wrote` (what each element of each name was last given), `held` (the elements a NEW was sent for and no DES since) and
`orphans` are history.

### Server

A connection is a descriptor `fd`; its channel lives on loop `fd % NumLoops` and its callback
is `handleLoginEvent` or `handleTaskChoose` (`chan`). `memKV[l][u]` is the entry of user `u` in
the table of loop `l`: the number of a database in `dbs`, or `None`. `files[u]` is what a
closed database left on disk. A loop runs one handler to its end, so a handler is one action,
with one exception: SET calls `recv` in the middle, so `BeginSet` leaves the loop `receiving`
and `EndSet` ends it when the bytes, or the end of the stream, are there. Loops share no
variable of the program; what they share is the users' files.

`Admit` writes `new DB(username)` over whatever entry was there. A user with two open
databases is put in the history variable `shared`; such a database starts with each pair
either from the files or from another open one (`Openings`), because how much the others
have written is not modelled here.

A database is its map, in the sense in which `DBImpl` refines `KVStore`: until it is *lost*. `Frees` (a DES) always
loses it, because `erase` and the `put` behind it both free the variable's block and values of other
variables may be overwritten later; any other operation may (`MayLose`), because it may write a table whose compaction misses
a file. After that every variable may read as missing (`MissesVar`), and `AcknowledgedKept` is silent about the user. `Routed` and
`AcknowledgedKept` are stated for users outside `shared`: for the others the code promises nothing,
and `second_login` shows what happens.

`truth` is what clients were told, and changes where a client receives its OK (`Acknowledged`), not where the
database does. `request` is the change a client has asked for and has no OK for. So between the two, or for
ever when the client is gone, a variable may have the old value or the one asked for (`Owed`), and zeros
when the client of a SET vanished before its bytes. Nothing else may change.

Operations need not end well. `Breaks`: in whatever operation of a database, a loop may hang in a compaction that draws file
numbers for ever (`ManiFest`'s `NoVictim`), or end with an exception of a read (`Throws`, `CompactThrows`).
The process ends (`Dies`) when a handler follows the null
pointer `operator[]` makes for a user without a database, reads or frees the value of a missing
variable, or sends twice to a closed socket. A loop also ends (`Garbage`) when an exception
leaves `sRead`: `packaged_task` keeps it in a future nobody reads, and the process goes on
with a loop that serves nobody. The end of a stream without QUIT always does one or the other,
because `sRead` looks for `#` past its buffer; which one depends on the stack, so both are allowed.

Clients (`Ask`, `AskLogin`, `SendBytes`, `AskQuit`, `Vanish`) come from the client library: one
request at a time, an OK awaited after each but QUIT. They ask only for variables
their user has, which is what the library's typed calls are for.

## 3. Runs

Sizes are distinct states. The code's constants are Ring = 5, Level0Limit = 4, Fanout =
10, SST_SIZE = 100, CACHE_SIZE = 10, a pool of 5 lists of 1,000,000; the runs shrink them
in proportion (`Level0Limit = Ring - 1` is kept) so that a handful of puts turns the
ring around and overflows levels 0, 1 and 2. `CHECK_DEADLOCK FALSE` everywhere: the
bounds on puts, and the terminal stages `hung`, `threw`, `aborted`, the end of a
session and of the thread pool are states in which the system really stops.

| Run | Shows | Bounds and why they suffice | States |
|---|---|---|---|
| `containers` | `ListMatchesTrie`, `BackIsLeastRecent`, `TrieIsMap`, `ListIsSet`, `MemtableIsMap`, `TableIsMap`, `FileReadsBack`, `LogsReadBack`, `AskedIsThere`, `NothingLeftBehind` | cache of 3, 4 keys that are prefixes of each other, 6 uses: hit, replace, insert, evict in every order; tries of 6 keys on 4 paths, 5 calls; lists of 6 keys, towers up to 3, 5 calls; tables of every subset of 12 keys, blocks of 5, groups of 2: up to 3 blocks of 3 groups, one value with a length of two bytes; every word of 8 bits in digits of 4; logs of up to 4 rows from every id of the ring; manifests of up to 2 records; 4 calls on two arrays named `a` and `a1` of 1, 2 or 11 elements: shrunk, grown, freed, colliding at `a10`; a buffer of 27, which the NEWs of `a0` to `a10` fit and the longer ones of `a1` overrun | 401,734 |
| `manifest` | `RingSlotFree`, `LevelsDisjoint`, `LimitsRestored`, `ReadsNewest`, `ManifestMatchesDisk`, types | 3 keys, 5 puts; without faults tables of 1 or 2 keys with up to one tombstone: the ring turns, levels 0 and 1 overflow, level 2 is reached; with them (`faulty`) tables of one key, manifest flushes, one crash at any step, reopening | 4,316,207 |
| `db_map` | `ImplementsMap`, `ReadsLatest`, `CleanCopiesAgree`, `BlocksAccounted` | 3 keys over a cache of 2, 3 puts, an erase, gets without bound, a close and a reopening | 1,109,061 |
| `db_sessions` | `ImplementsMap`, `WalReplaysMem`, `CloseCompletes`, types with the memtable's bound | cache of 1, memtable of 2, 4 puts, one crash anywhere, two reopenings: the second session is the first with open logs | 628,157 |
| `runtime` | `Partition`, `MaxSizeKept`; `PopFindsTask`, `CommittedStarts`, `DestructorReturns`; `OneThread`, `NoRequestForgotten`, `RequestsServed`, `AcceptedUnlessMerged`; `LoginByOwnRows`; types | 3 lists of 4 cells, blocks of 1 to 3, all fits: every pattern of two free neighbours, and every exit of `Owner`; 2 workers, 2 endless and 2 ending tasks, shutdown anywhere; 2 connections over 2 loops with no, one or two descriptors, on one loop or on two, 2 requests, one client that disconnects: registration overlaps with handling, a descriptor is reused, `accept` runs out of them; 2 logins over a table of 2 pairs | 113,065 |
| `server` | `Routed`, `AcknowledgedKept`, `Answered`, types | 3 descriptors over 2 loops, 2 users, one variable; up to 3 connections, 2 operations or refused logins and 2 faults (a client vanishes, an operation does not return, a compaction misses a file), 5 of these together: two users on a loop, a user on two loops, a user returning after QUIT on another loop, each with a fault in it or with two operations | 227,982 |

The parts of `containers` and of `runtime` share no state; a behaviour is of one of them. Clients of
`runtime` come in one order (`NextToCome`), because those that are away are alike.

The expected violations, each a disagreement of the code with one of its own lines:

| Run | Property | What happens |
|---|---|---|
| `cross_intersect` | `CrossIntersectComplete` | `manifest.h:134` promises all intersecting records; the scan starts at the last record below the merged one, returns nothing when there is none, and stops early |
| `erase_overwrites` | `AnswersLatest` | `erase` frees the block `get` returned, `put` frees it again, and the pool gives it to another key while the cache still refers to it |
| `second_login` | `OkIsComing` | a second login puts a new database over the entry of the first; a GET on the first connection of a variable NEWed before then reads through `nullptr` and the process ends without the OK `README.md:230` promises |
| `burst` | `EveryConnectionGreeted` | the listening socket is edge-triggered and one connection is accepted per event: of two that come before one `epoll_wait` the second gets its OK (`README.md:230`) only if a third comes |
| `ring_log` | `RingLogReopens` | `src/README.md:38` promises that the WAL keeps the data; a log with one turn of the ring stops the session that opens it |
| `no_victim` | `OverflowMerged` | `src/README.md:37` promises that overflowing files are merged downwards; after merges that took every intersecting file a level can hold only ids above its limit, and `put` draws for ever (`manifest.cpp:123`) |

Further promises of its own lines that the code breaks. They are no standing runs; each is a
configuration to be run by hand (`tlc -config silent_client.cfg MCServer`), and TLC finds it violated in seconds
to a minute. The passing properties name these cases as what they exclude.

| Configuration | Property | What happens |
|---|---|---|
| `last_key_z`, `MCContainers` | `SstReadsBack` | `test/sst_write_read.cpp:41` asserts that every pair is read back; the index key of the last block is not above a greatest key of `z` only, and its search ends in block 0 |
| `log_emptied`, `MCManiFest` | `PutsAreLogged` | `src/README.md:38` (the log keeps the data); `ManiFest::flush` empties the log before it writes `manifest.log` (`manifest.cpp:71`), and a crash in between leaves the session's tables in neither |
| `first_session`, `MCDBImpl` | `PairsAreLogged` | `src/README.md:38`; a user's first session opens its logs before their folder exists (`db.cpp:7`) and logs nothing |
| `erased_reads`, `MCDBImpl` | `DeletedNotFound` | `db_impl.cpp:131` names "not found" as the answer for a key that is not there; `get` of an erased key returns the tombstone while cache or memtable hold it |
| `mixed_bytes`, `MCContainers` | `SstReadsBytes` | `test/sst_write_read.cpp:41` again; entries are sorted as signed characters (`slice.cpp:94`) and searched as unsigned ones |
| `same_index`, `MCContainers` | `NamesKeptApart` | `trie.h:9` calls `ctoi` a bijection; all characters but letters and digits have one index, so names that differ in them only are one key |
| `same_element`, `MCContainers` | `EachReadsItsOwn` | `connector.h:35` says which element of the array is meant; `a[10]` and `a1[0]` are one variable of the server |
| `silent_client`, `MCServer` | `AnsweredWhateverOthersDo` | `README.md:230` promises an OK for every operation; a client that sends SET and no bytes keeps the loop of all its neighbours in `recv` (`server.cpp:253`) |
| `vanished_set`, `MCServer` | `OnlySentIsStored` | `server.cpp:238` speaks of the bytes received; of a client that vanished zeros are stored |
| `end_of_stream`, `MCServer` | `EndCloses` | `server.cpp:130` closes the connection on anything that is no command; the end of a stream ends the loop or the process instead |
| `endless_loops`, `MCRuntime` | `ShutdownEnds` | `server.cpp:38` releases the thread pool; its destructor joins threads whose loops nothing ends |
| `pool_refuses`, `MCRuntime` | `FreePoolServes` | `memlist.h:42` calls `maxSize` the largest node; `deallocate` in front of the head does not raise it (`memlist.cpp:82`), so a pool that has everything back refuses what it could serve |

Other behaviours the models contain, which no run singles out: an array that is asked for again with
fewer elements leaves the others at the server (`NothingLeftBehind` says so); a read of an absent key
throws while ring files are missing (`Throws`); erasing an absent key frees `nullptr` (`EraseDies`);
acknowledged puts still cached die with the process; the log of a memtable is emptied before its table is
written (`db_impl.cpp:230`), and a crash in between loses pairs the log had held; a login after MySQL closed the
connection ends the process (`GetRes`); tasks left in the thread pool's queue at shutdown are dropped.

**Fairness.** `MCDBImpl` assumes `WF(MCRun)`: the thread that is inside an operation is
scheduled until the operation returns. Operations themselves, crashes and reopenings
are not fair. The drawing loop of `ManiFest::put` is a terminal stage, not a fair
choice: the code has no bound on it, and `CloseCompletes` excludes it by name.
`ThreadsPool` assumes weak fairness of each worker and of the destructor once
entered, which is what the scheduler gives; nobody is obliged to commit or destroy.
`Reactor` assumes weak fairness of each loop's thread, once more what the scheduler gives; that
each loop has a thread is `CommittedStarts` of `ThreadsPool`, for as many workers as loops. A loop
whose SET waits for bytes is not obliged to go on, and `RequestsServed` excuses its other clients.
`AcceptedUnlessMerged` excludes the connections of `burst`, and no others.
`Server` assumes weak fairness of each channel's handler: a loop that polls handles every ready
channel before it polls again. Clients are not fair: a client may never send the
bytes of its SET, and `Answered` excludes the clients of that loop, and of a loop or process that ended, and of a
loop that hangs in a compaction, which is a state of the model and no handler that fairness could oblige to end. `silent_client`
asks for the same without the first of these excuses.

## 4. Proofs

The proof modules are checked to the last leaf and use the named assumptions of the
modules they extend, nothing else. What these assume of the constants is what the code's
values have: `Level0Limit = Ring - 1` (`RingAssumption`), sizes and numbers that are not
zero, markers such as `Deleted`, `Absent` and `None` that are no values, more blocks than the
cache has nodes (`BlocksAssumption`; `put` allocates before it frees). `PowersAssumption` says that
the powers of a natural are naturals, which is so and which the provers do not know. Every
invariant the passing runs check is a theorem, but for two of `containers`.

**The cache**

- `LRUCacheProofs!ListAlwaysMatchesTrie`: `LruSpec => [](LruTypeOK /\ ListMatchesTrie)` for
  every finite key set, value set and capacity. The conjunction is inductive: that
  the list has no repetition is what lets `erase` of a key remove its only node.
- `ContainersProofs!CacheKeepsTheLastUsed` (`BackIsLeastRecent`): the clock is past every use, two keys of the list were
  used at different times, and the list is in their order.

**The containers and the files** (`ContainersProofs`, all for `MCSpec` unless stated otherwise)

What a recursive walk computes is shown by a least counterexample: of the positions at which a
claim fails, one is the first, and one step of the recursion settles it. `RecursionUp`, `RecursionAhead` and
`LeastOf` do that once. Sequences, prefixes, the order of strings, heights of towers and sets of paths are lemmas.

- `ListsAnswerLikeSets` (`ListIsSet`) and `MemtableAnswersLikeAMap` (`MemtableIsMap`) from `ListsInv`: every
  level is a part of the one below, a node's `down` says which level it leads to and that level has its key, and the
  nodes of the bottom hold the map. From any node whose key is below the one looked for, the walk of `Trail` ends at the greatest key
  below it on each level it passes, although it may skip levels. For any keys, any heights and any number of calls.
- `TrieAnswersLikeAMap` (`TrieIsMap`) from `NodesInv`: every node but the root has a value under it, all prefixes of a node are nodes,
  and `size` is the number of values under it. The work is in `Pruned`: what `Cut` takes away is exactly what has no value left,
  and the sizes along the path lose one value each.
- `VarintReadsBack` and the lemmas `FixedReadsBack`, `TextReadsBack`, for every base and width: what
  a writer wrote is read back wherever it lies. `ManifestReadsBack` is the same for whole manifests of any length, and
  `LogsAreReadBack` (`LogsReadBack`) for whatever the runs append. A log is described by the offsets at
  which its rows lie (`RowsLie`), and the reader finds the next row at each (`ReadInOrder`).
- `RingLogEndsTheReader`, with the words of the code (`CodeWords`: four bytes, and a log of less than 2^24 bytes): after the first
  turn of the ring a log begins with the id, then with a row for a table of level 0 (`RingBegun`), and
  for each of the five ids what the reader takes for the first or the second event is indigestible. This is
  what the models of a reopening assume, not something the code promises.

**The client library** (`ConnectorProofs`, for `ConnectorSpec`)

- `SentencesAreHeard`: of every text of up to 999 characters whose sentence fits the buffer, `Heard(text) = WordsOf(text)`:
  the reader makes the words that white space parts in the text, although they may hold the marks it looks for, although it skips
  blanks and ignores lengths, and although zeros follow. The proof follows the sentence clause by clause (`BeginsAt`, `PartOf`, `Clauses`): where
  one ends, the next mark is the next clause's. Of texts that do not fit nothing is said.
- `ClientReadsItsOwn` (`AskedIsThere`): until the database may have failed it (`lost`: a first DES, a lost connection, an overrun, a put
  that loses a file), for every set of names of one word each, any counts below 1000 and any contents; over QUITs and new connectors,
  and whatever is asked for, shrunk or left behind in between. `ConnectorInv` says that what a name wrote is in
  the store under the element's name, which `SentencesAreHeard` brings there.
- `ClientFreesItsOwn` (`NothingLeftBehind`): of what was sent for and not freed, with no such condition.

**The table store** (`ManiFestProofs`, all for `ManiFestSpec`)

- `StoreTypeCorrect` (`ManiFestTypeOK`). The work is in
  compaction: merged tables are non-empty finite maps, so `Min` and `Max` of their
  keys exist, and `AbsentIds` gives enough naturals.
- `RingNeverOverwrites` (`RingSlotFree`) for every `Ring >= 2` with `Level0Limit = Ring - 1`.
  `RingSlotFree` alone is not inductive: which
  slots are listed depends on how often the ring has turned. The invariant `RingInv` adds
  `RingShape`, which says that between operations the listed ids of level 0 are either the
  run `1..(id-1)` (first turn) or every id but the next one, and one file more inside a
  put; it says the same of `manifest_log`, or a reopening would break it.
- `OneRoundIsEnough` (`LimitsRestored`): `put` compacts a level once, so a level that was one
  over its limit must be one under after it. `LimitInv` says that inside a put only the level
  whose turn it is may be over, by one; the step counts how many tables a merge leaves, which is
  never more than the tables it took.
- `ManifestIsTheDisk` (`ManifestMatchesDisk`) and `RangesNeverMeet` (`LevelsDisjoint`), both from
  `StoreInv`. It adds to the two that folders are made from the top and exist where files are, that
  once a deeper level has files every slot of the ring but one is taken, and that `manifest_log` describes the disk of a session that ended between
  operations. That ranges stay apart rests on the files a compaction takes being neighbours
  in the order of `RecordBefore`.
- `ReadsFindNewest` (`ReadsNewest`): `get` looks at the layers in an order, so the invariant `NewestInv` is about
  that order. Each key is `Settled`: in a file that has its newest entry and that precedes every other file with
  the key (of two files of the ring the one given out later, of ring and levels the ring, of two levels the
  upper), or in no file at all if it was deleted or never stored; while a put is being written the keys of its
  table are not. The theorem goes from the invariant to what the walk of the ring and one candidate per level find.

**The database** (`DBImplProofs`, all for `Spec`)

- `StoreIsUsedAsAllowed`: `Spec => ManiFestSpec`. So the theorems above hold in the database, and
  the proofs below use `ReadsNewest` without repeating its invariant. What has to be shown
  is that a memtable handed to `put` is one table at most.
- `DatabaseIsTyped` (`TypeOK`) and `LogReplays` (`WalReplaysMem`) from `BaseInv`: the
  memtable's bound holds through a chain of spills and flushes because a pair waits in
  `pending` only while the flush that makes room for it is under way.
- `NoBlockIsLost` (`BlocksAccounted`) from `BlockInv`: each block is spare, or lent to one node.
- `CleanCopiesMayGo` (`CleanCopiesAgree`) and `GetAnswersLatest` (`ReadsLatest`) from `LayerInv`: the first
  of cache, `pending`, memtable and store that has a key has what the user stored last, and a clean copy in the
  cache says what is beneath it. `SentInv` carries it over a flush: what is still in the memtable while
  `ManiFest::put` runs is in the store already.
- `DatabaseIsMap` (`ImplementsMap`): every initial state maps to one of `KVStore`, and every step
  to a step of it or a stutter, with `store <- latest` and the status as in `Status`. A
  `Get` maps to a `Get` of the map because of `GetAnswersLatest`.

**The memory pool** (`RuntimeProofs`)

- `EveryAddressOnce` (`Partition`), `PromisesAreKept` (`MaxSizeKept`) and `PoolIsTyped`, for every
  number and size of lists, every fit and any mix of sizes. `Partition` counts; the invariant `PoolInv`
  says the same without counting: a list is in order with a gap between any two nodes and within its region
  (`Sound`), a lent block lies in one region (`Placed`), two lent blocks do not overlap, and an address of a
  region is in a node exactly when it is in no lent block. Two lemmas stand behind the steps: `CutKeeps` for
  the three fits of `allocate`, and `FilledKeeps` for the four ways in which a block that comes back merges. A third,
  `OwnerFound`, shows that the binary search of `deallocate` finds the list of every address,
  for any number of lists: the interval `l..r` keeps the answer within it or just left of it, in `res`.

**Threads, sessions, logins**

- `ReactorProofs`: `OneLoopHandlesAClient` (`OneThread`), `RequestsAreNotForgotten` (`NoRequestForgotten`) and
  `ReactorIsTyped`, for any number of loops, descriptors and clients. `ReactorInv` is the protocol between the main
  thread and the loops: where a channel stands in its registration, which loop may hold it at each stage, that a
  closed one is in no list, that a client has one request under way (`ProtocolInv`), and (`PendingInv`) that a request nobody has read has
  an edge that is not handled yet, or its loop is dead.
- `ServerProofs`: `SessionsAreRouted` (`Routed`), `AcknowledgedIsKept` (`AcknowledgedKept`) and `ServerIsTyped`. `Routed` is not
  inductive: `ServerInv` adds that an entry of `memKV` leads to a database of the user it is for (`EntriesInv`),
  that a user outside `shared` has one connection at a time (`OneConnection`), that a loop inside a
  SET waits for a connection of its own, and, for `AcknowledgedKept`, that a connection's messages, its client's state and its
  `request` fit together, so that an OK is received for the change that was made.
- `RuntimeProofs!EveryLoginByOwnRows` (`LoginByOwnRows`): `ResultsInv` says that the one set that is held is
  the one `m_result` names, and that its rows are those of the login's own query although the table may have changed.
- `RuntimeProofs!PopNeverEmpty`: `PopFindsTask` for any number of workers
  and tasks. `PopFindsTask` alone is not inductive: `TokensInv` adds that, while the flag
  is up, the semaphore's value, the woken workers and the taking workers sum to the
  length of the queue. The destructor's posts break that sum, but by then the flag is
  down and nobody new goes on to take. `EachTaskGoesToOneWorker` needs besides that what is queued was committed and waits once.
- `RuntimeProofs!RuntimeIsTyped` (`RuntimeTypeOK`) joins the types of the pool, the threads and the reactor.

**Only model-checked**

- Liveness: `CloseCompletes`, `CommittedStarts`, `DestructorReturns`, `RequestsServed`, `AcceptedUnlessMerged` and
  `Answered`. Fairness and ENABLED are out of the prover's reach.
- `TableIsMap` and `FileReadsBack`. For arbitrary keys the first is not true: an index key that `Separator` raises past the last
  ASCII byte is sorted below the others, which the instance's keys do not do.

## 5. Abstractions

- File names compare as numbers; the code compares strings, which agrees below `data10`.
- In `ManiFest` and `DBImpl` a table is the map it holds; `Table` shows when that is so: for keys
  both orders sort alike and no greatest key of `z` only. Those modules take keys of that kind.
  Checksums and the magic number are constants, for nothing reads them. Values are never
  empty (the code takes an empty value for a miss).
- In `ManiFest` and `DBImpl` a log is what its rows replay to, or that they cannot be replayed; `Logs` has the rows.
- Integers are read back from what the code wrote; the wrap of a sum that no writer produces is left out (`GetVarint`).
- `LRUCache`, `ManiFest`, `DBImpl` and `Server` use the maps and sets that `Trie` and `SkipList`
  stand for, with keys `ctoi` keeps apart. Keys are not empty.
- In `DBImpl` every value fills one block and the pool is not exhausted
  (`BlocksAssumption`); `MemPool` treats sizes and addresses.
- A memory block is freed before the flush its eviction triggers in one path and after
  it in another; nothing can observe the difference, and the model frees it at once.
- Crashes fall between file operations, never inside one write.
- In `Server` and `Connector` a database is its map until it is lost (a DES, a compaction that missed a file; in `Connector` also
  the end of a connection), and then says nothing; what it does then is in `DBImpl`. In `Server` opening one always
  succeeds: that a log with a ring turn cannot be opened is in `DBImpl` (`OpenDBAborts`). Messages arrive whole and in
  order (both sides send buffers of 128 bytes and the client waits for each answer); `Absent`
  stands for a missing variable and for the mark of a deleted one, which read differently, so
  both outcomes are allowed. The user table is a set of names.
- In `Reactor` a message is what its handler does at its end; answers are sent at once and `send`
  does not fail. A descriptor is free when its channel was closed. `inEpoll`, which two threads may
  touch, is read and written at the system call beside it. That `sRead` runs on past its buffer at
  the end of a stream ends the loop or the process, as in `Server`.
- In `SqlManager` MySQL has the database `selectDB` names, and an unset `m_result` ends the process
  when it is freed, or is as good as null.
- In `Connector` the server answers OK to every request until it is lost; requests for elements it does not have are in
  `Server` (`SetNothing`, `MissesVar`). Elements are read as the type they were asked for with. Names are single words (a name with
  white space would make other words of its sentence), and `recv` returns the whole buffer that was sent, as it does when nothing splits 128 bytes.
  The run takes a buffer of 27 where the code has 128, so that one of two names overruns it. A sentence that does not fit is
  the end of what is promised; what the bytes behind the buffer are is not modelled.

**Not modelled**, and why:

- the destructors of `EventLoop`, `Epoll`, `Acceptor`, `Socket` and `Server`: they would run when a
  loop returns, and none does (`DestructorReturns`);
- failures of system calls other than `accept` and `recv`: `errif` ends the process at each;
- `crc.cpp`, `file.cpp`, `inet_address.cpp`, `util.cpp`, `type_to_string`: stateless helpers; checksums are
  written and never read, so no property could depend on them;
- `MemPool::print`, `Trie::dfs`, `Trie::clear`, `Table::reload` and the iterators of the cache: printing, or
  not called by the server;
- MySQL, sockets and epoll themselves are external: `Reactor` and `SqlManager` say how the code uses them.

## 6. Plan

Done: every component but the helpers named above, modelled and checked,
and a theorem for every safety property of the passing runs but the two of the SST files; and a
configuration that shows the violation for each hazard the code does not survive.

Left: `TableIsMap` for keys of letters and digits, from the lemmas on the order of strings, on enumerations of a finite set
in order, and on the two bisections; `FileReadsBack` from it, `VarintReadsBack` and `FixedReadsBack`.
