------------------------------ MODULE ManiFest ------------------------------
(***************************************************************************)
(* The levelled table store: class ManiFest (src/lsmtree/manifest.cpp),    *)
(* its log manifest.log, its write-ahead log WAL_manifest.log and the .sst *)
(* files it owns.  A file is the table it holds (key -> entry); its name   *)
(* "data<i>.sst" is the number i.  Names compare as strings in the code    *)
(* and as numbers here, which agrees below data10.                         *)
(*                                                                         *)
(* put() runs in three kinds of steps (PutTable, WriteTable, then one      *)
(* CompactLevel per overflowing level and PutDone), flush() in two: a      *)
(* crash can fall between any two of them.                                 *)
(***************************************************************************)
EXTENDS Integers, FiniteSets, FiniteSetsExt

CONSTANTS
  Keys,        \* keys, ordered as numbers
  Values,      \* what a user stores (never the empty string)
  Deleted,     \* DEL_STRING, the tombstone
  Absent,      \* {nullptr, 0}: no such key
  SstSize,     \* Option::SST_SIZE, keys in one table
  Ring,        \* level-0 file ids run 1..Ring (5 in the code)
  Level0Limit, \* files level 0 may keep (4 in the code)
  Fanout,      \* level l > 0 may keep Fanout^l files (10 in the code)
  MaxLevel     \* bound: deepest level modelled

ASSUME KeysAssumption     == Keys \subseteq Nat /\ IsFiniteSet(Keys)
ASSUME EntriesAssumption  == Deleted \notin Values /\ Absent \notin Values \cup {Deleted}
ASSUME SizesAssumption    == /\ SstSize \in Nat \ {0} /\ Fanout \in Nat \ {0}
                             /\ MaxLevel \in Nat
\* So it is, but no prover knows the powers of a natural to be naturals.
ASSUME PowersAssumption   == \A l \in 0..MaxLevel : Fanout ^ l \in Nat
\* manifest.cpp writes 5 and 4 as literals on lines 109 and 120.
ASSUME RingAssumption     == Ring \in Nat \ {0, 1} /\ Level0Limit = Ring - 1

VARIABLES
  insert_file_id,  \* id the next level-0 file gets
  levels_files,    \* level -> set of records, the skip lists of the code
  levels_size,     \* _levels_files.size(): 0 until the first put
  disk,            \* level -> (file id -> table), what the folders hold
  dirs,            \* levels whose folder exists
  wal_manifest,    \* TRUE iff WAL_manifest.log holds a row
  wal_open,        \* TRUE iff the logs could be opened: the folder was there
  manifest_log,    \* what manifest.log holds
  stage,           \* where put() or flush() stands
  lev,             \* lev_idx of the loop in put()
  sst,             \* the table put() is storing
  newest,          \* history: the last entry stored for each key
  intact           \* history: every compaction took all intersecting files
                   \* and no crash lost a put

mvars == <<insert_file_id, levels_files, levels_size, disk, dirs, wal_manifest,
           wal_open, manifest_log, stage, lev, sst, newest, intact>>

Levels == 0..MaxLevel
Entry  == Values \cup {Deleted}
Table  == UNION {[S -> Entry] : S \in SUBSET Keys}
Record == [name : Nat, min : Keys, max : Keys]
Stages == {"idle", "write", "level", "log", "hung", "threw", "down", "aborted"}

Names(l)    == {r.name : r \in levels_files[l]}
NoTable     == [k \in {} |-> Deleted]
NoFiles     == [l \in Levels |-> {}]
EmptyLog    == [files |-> NoFiles, id |-> 1]
Overwrite(f, g)   == [x \in DOMAIN f \cup DOMAIN g |-> IF x \in DOMAIN g THEN g[x] ELSE f[x]]
Without(f, S)     == [x \in DOMAIN f \ S |-> f[x]]
RecordOf(i, t)    == [name |-> i, min |-> Min(DOMAIN t), max |-> Max(DOMAIN t)]

-----------------------------------------------------------------------------
(* The ring of level-0 ids.                                                *)

\* Mutant: the ring is one shorter than the scan in get().
NextIdShortRing(i) == IF i = Ring - 1 THEN 1 ELSE i + 1

\* Mutant: the ids are not a ring.
NextIdNoWrap(i) == i + 1

NextId(i) == IF i = Ring THEN 1 ELSE i + 1
PrevId(i) == IF i = 1 THEN Ring ELSE i - 1

Ages    == 1..(Ring - 1)
\* The id get() looks at in its a-th iteration: newest first, down to but
\* not including insert_file_id.
Slot(a) == LET i == insert_file_id - a IN IF i >= 1 THEN i ELSE i + Ring

-----------------------------------------------------------------------------
(* Reading: the third part of DBImpl::get.                                 *)

RecordBefore(r, s) ==
  \/ r.min < s.min
  \/ r.min = s.min /\ r.max < s.max
  \/ r.min = s.min /\ r.max = s.max /\ r.name < s.name

LastOf(R) == CHOOSE r \in R : \A s \in R \ {r} : RecordBefore(s, r)

Level0Hits(k) == {a \in Ages : Slot(a) \in DOMAIN disk[0] /\ k \in DOMAIN disk[0][Slot(a)]}

\* The record lower() stops at: the greatest one whose least key is not above k.
Candidates(l, k) == {r \in levels_files[l] : r.min <= k}
Candidate(l, k)  == LastOf(Candidates(l, k))
Covers(l, k)     == Candidates(l, k) # {} /\ k <= Candidate(l, k).max
Stored(l, k)     == Candidate(l, k).name \in DOMAIN disk[l]

Holds(l, k) ==
  IF l = 0 THEN levels_size > 0 /\ Level0Hits(k) # {}
  ELSE Covers(l, k) /\ Stored(l, k) /\ k \in DOMAIN disk[l][Candidate(l, k).name]
ValueAt(l, k) ==
  IF l = 0 THEN disk[0][Slot(Min(Level0Hits(k)))][k] ELSE disk[l][Candidate(l, k).name][k]

Holding(k) == {l \in Levels : Holds(l, k)}
Lookup(k)  == IF Holding(k) = {} THEN Absent ELSE ValueAt(Min(Holding(k)), k)

\* get() opens every ring file it reaches, existing or not; the Table
\* constructor reads a footer that is not there and an exception leaves get().
Throws(k) ==
  \/ /\ levels_size > 0
     /\ \E a \in Ages : /\ Slot(a) \notin DOMAIN disk[0]
                        /\ \A h \in Level0Hits(k) : a < h
  \/ \E l \in Levels \ {0} : /\ Covers(l, k) /\ ~Stored(l, k)
                             /\ \A h \in Holding(k) : l < h

-----------------------------------------------------------------------------
(* Choosing what to merge.                                                 *)

Limit(l) == IF l = 0 THEN Level0Limit ELSE Fanout ^ l

\* The files put() may pick at an overflowing level: the ring's oldest at
\* level 0, else a random id below the limit, drawn until one exists.
Victims(l) ==
  LET oldest == {r \in levels_files[l] : l = 0 /\ r.name = insert_file_id}
  IN  IF oldest # {} THEN oldest ELSE {r \in levels_files[l] : r.name < Limit(l)}

Overlapping(l, victim) ==
  {r \in levels_files[l + 1] : r.min <= victim.max /\ victim.min <= r.max}

\* The records of level l+1 that crossIntersect returns: from the last one
\* below the victim to the first whose greatest key reaches the victim's.
\* With no record below the victim it returns none, whatever intersects.
CrossIntersect(l, victim) ==
  LET next  == levels_files[l + 1]
      below == {r \in next : r.min < victim.min \/ (r.min = victim.min /\ r.max < victim.max)}
      from  == LastOf(below)
      upto(r) == {s \in next : (s = from \/ RecordBefore(from, s)) /\ RecordBefore(s, r)}
  IN  IF below = {} THEN {}
      ELSE {r \in next : /\ r = from \/ RecordBefore(from, r)
                         /\ \A s \in upto(r) : s.max < victim.max}

-----------------------------------------------------------------------------
(* compact(): the k-way merge.                                             *)

NewLevel(l) == l + 1 \notin dirs

\* Mutant: on equal keys the next level's entry wins over the victim's.
MergedOlderWins(l, victim, files) ==
  LET own     == disk[l][victim.name]
      with(k) == {r \in files : k \in DOMAIN disk[l + 1][r.name]}
      all     == DOMAIN own \cup UNION {DOMAIN disk[l + 1][r.name] : r \in files}
  IN  [k \in all |-> IF with(k) = {} THEN own[k]
                     ELSE disk[l + 1][(CHOOSE r \in with(k) : TRUE).name][k]]

\* On equal keys the first of the merged files wins: the victim, then the
\* files of the next level in the order of their records.
Merged(l, victim, files) ==
  LET own      == disk[l][victim.name]
      with(k)  == {r \in files : k \in DOMAIN disk[l + 1][r.name]}
      first(k) == CHOOSE r \in with(k) : \A s \in with(k) \ {r} : RecordBefore(r, s)
      all      == DOMAIN own \cup UNION {DOMAIN disk[l + 1][r.name] : r \in files}
      entry(k) == IF k \in DOMAIN own THEN own[k] ELSE disk[l + 1][first(k).name][k]
      kept     == {k \in all : ~(NewLevel(l) /\ entry(k) = Deleted)}
  IN  [k \in kept |-> entry(k)]

\* Mutant: the next ids are counted from the number of records.
AbsentIdsByCount(l, m) == {Cardinality(Names(l)) + i : i \in 1..m}

\* The m least ids no record of level l carries: what min_absend_fileid
\* returns m times in a row, each id being recorded before the next call.
AbsentIds(l, m) ==
  LET free == (1..(Cardinality(Names(l)) + m)) \ Names(l)
  IN  {i \in free : Cardinality({j \in free : j < i}) < m}

\* Mutant: the merged keys are dealt out in any order.
CutsUnordered(D, ids) ==
  {c \in [D -> ids] :
     \A i \in ids : LET n == Cardinality({k \in D : c[k] = i})
                    IN  n = SstSize \/ (i = Max(ids) /\ n \in 1..SstSize)}

\* The merged keys dealt out in order, SstSize to each id but the last.
Cuts(D, ids) ==
  {c \in [D -> ids] :
     /\ \A j, k \in D : j < k => c[j] <= c[k]
     /\ \A i \in ids : LET n == Cardinality({k \in D : c[k] = i})
                       IN  n = SstSize \/ (i = Max(ids) /\ n \in 1..SstSize)}

\* The files compact() writes into level l, ids and tables, for a merge.
Outputs(l, merged) ==
  LET D   == DOMAIN merged
      m   == (Cardinality(D) + SstSize - 1) \div SstSize
      ids == AbsentIds(l, m)
  IN  {[i \in ids |-> [k \in {j \in D : c[j] = i} |-> merged[k]]] : c \in Cuts(D, ids)}

-----------------------------------------------------------------------------
(* put().                                                                  *)

\* Lines 105-110: take the id, turn the ring, log the turn (without effect
\* when the log could not be opened).
PutTable(t) ==
  /\ stage = "idle"
  /\ t # NoTable
  /\ insert_file_id' = NextId(insert_file_id)
  /\ levels_size' = IF levels_size = 0 THEN 1 ELSE levels_size
  /\ wal_manifest' = (wal_manifest \/ wal_open)
  /\ stage' = "write"
  /\ sst' = t
  /\ newest' = Overwrite(newest, t)
  /\ UNCHANGED <<levels_files, disk, dirs, wal_open, manifest_log, lev, intact>>

\* Lines 111-118: write the file, record it, enter the loop.
WriteTable ==
  /\ stage = "write"
  /\ LET i == PrevId(insert_file_id)
     IN  /\ disk' = [disk EXCEPT ![0] = Overwrite(@, [j \in {i} |-> sst])]
         /\ levels_files' = [levels_files EXCEPT ![0] = @ \cup {RecordOf(i, sst)}]
  /\ dirs' = dirs \cup {0}
  /\ stage' = "level"
  /\ lev' = 0
  /\ sst' = NoTable
  /\ UNCHANGED <<insert_file_id, levels_size, wal_manifest, wal_open, manifest_log,
                 newest, intact>>

\* Mutant: the limit is off by one.
OverflowsLate == Cardinality(levels_files[lev]) > Limit(lev) + 1

Overflows == Cardinality(levels_files[lev]) > Limit(lev)

\* Lines 126-134 and 147-228: one round of the loop.  Outputs are named and
\* recorded while the inputs still are, then the inputs are removed.
CompactLevel ==
  /\ stage = "level" /\ Overflows
  /\ lev < MaxLevel
  /\ \E victim \in Victims(lev) :
       LET files == CrossIntersect(lev, victim)
           gone  == {r.name : r \in files}
       IN  /\ victim.name \in DOMAIN disk[lev] /\ gone \subseteq DOMAIN disk[lev + 1]
           /\ \E out \in Outputs(lev + 1, Merged(lev, victim, files)) :
                /\ disk' = [disk EXCEPT ![lev]     = Without(@, {victim.name}),
                                        ![lev + 1] = Without(Overwrite(@, out), gone)]
                /\ levels_files' =
                     [levels_files EXCEPT
                        ![lev]     = @ \ {victim},
                        ![lev + 1] = (@ \cup {RecordOf(i, out[i]) : i \in DOMAIN out}) \ files]
           /\ intact' = (intact /\ Overlapping(lev, victim) \subseteq files)
  /\ levels_size' = Max({levels_size, lev + 2})
  /\ dirs' = dirs \cup {lev + 1}
  /\ lev' = lev + 1
  /\ UNCHANGED <<insert_file_id, wal_manifest, wal_open, manifest_log, stage, sst, newest>>

\* Lines 123-124: no file of the level has an id below its limit, and the
\* draw never ends.
NoVictim ==
  /\ stage = "level" /\ Overflows
  /\ Victims(lev) = {}
  /\ stage' = "hung"
  /\ UNCHANGED <<insert_file_id, levels_files, levels_size, disk, dirs, wal_manifest,
                 wal_open, manifest_log, lev, sst, newest, intact>>

\* Line 159: an input file is not there (a reopened manifest.log may be
\* older than the folders) and an exception leaves put().
CompactThrows ==
  /\ stage = "level" /\ Overflows
  /\ lev < MaxLevel
  /\ \E victim \in Victims(lev) :
       \/ victim.name \notin DOMAIN disk[lev]
       \/ \E r \in CrossIntersect(lev, victim) : r.name \notin DOMAIN disk[lev + 1]
  /\ stage' = "threw"
  /\ UNCHANGED <<insert_file_id, levels_files, levels_size, disk, dirs, wal_manifest,
                 wal_open, manifest_log, lev, sst, newest, intact>>

\* Lines 131-133: the level is within its limit, put() returns.
PutDone ==
  /\ stage = "level" /\ ~Overflows
  /\ stage' = "idle"
  /\ lev' = 0
  /\ UNCHANGED <<insert_file_id, levels_files, levels_size, disk, dirs, wal_manifest,
                 wal_open, manifest_log, sst, newest, intact>>

-----------------------------------------------------------------------------
(* flush(): first the write-ahead log is emptied, then manifest.log is     *)
(* written.                                                                *)

\* Mutant: manifest.log does not keep the position in the ring.
SnapshotWithoutId == [files |-> levels_files, id |-> 1]

Snapshot == [files |-> levels_files, id |-> insert_file_id]

FlushClear ==
  /\ stage = "idle"
  /\ wal_manifest' = FALSE
  /\ stage' = "log"
  /\ UNCHANGED <<insert_file_id, levels_files, levels_size, disk, dirs, wal_open,
                 manifest_log, lev, sst, newest, intact>>

FlushLog ==
  /\ stage = "log"
  /\ manifest_log' = Snapshot
  /\ stage' = "idle"
  /\ UNCHANGED <<insert_file_id, levels_files, levels_size, disk, dirs, wal_manifest,
                 wal_open, lev, sst, newest, intact>>

-----------------------------------------------------------------------------
(* The process dies; a new session constructs a ManiFest over the files.   *)

Crash ==
  /\ stage \notin {"down", "aborted"}
  /\ stage' = "down"
  /\ intact' = (intact /\ manifest_log = Snapshot)
  /\ UNCHANGED <<insert_file_id, levels_files, levels_size, disk, dirs, wal_manifest,
                 wal_open, manifest_log, lev, sst, newest>>

\* The constructor: manifest.log, and no row in the write-ahead log.
Open ==
  /\ stage = "down" /\ ~wal_manifest
  /\ insert_file_id' = manifest_log.id
  /\ levels_files' = manifest_log.files
  /\ levels_size' = LET used == {l \in Levels : manifest_log.files[l] # {}}
                    IN  IF used = {} THEN 0 ELSE Max(used) + 1
  /\ wal_open' = TRUE
  /\ stage' = "idle"
  /\ lev' = 0
  /\ sst' = NoTable
  /\ UNCHANGED <<disk, dirs, wal_manifest, manifest_log, newest, intact>>

\* The first row after a clear is always a turn of the ring, written without
\* the size getElements reads next: the assertion in Slice::remove_prefix
\* (or getFixed32) ends the process.
OpenAborts ==
  /\ stage = "down" /\ wal_manifest
  /\ stage' = "aborted"
  /\ UNCHANGED <<insert_file_id, levels_files, levels_size, disk, dirs, wal_manifest,
                 wal_open, manifest_log, lev, sst, newest, intact>>

-----------------------------------------------------------------------------
\* A new user: nothing on disk.  DB::DB makes the user's folder only after
\* the logs were opened, so in a user's first session they are not open.
ManiFestInit ==
  /\ insert_file_id = 1
  /\ levels_files = NoFiles
  /\ levels_size = 0
  /\ disk = [l \in Levels |-> NoTable]
  /\ dirs = {}
  /\ wal_manifest = FALSE
  /\ wal_open \in BOOLEAN
  /\ manifest_log = EmptyLog
  /\ stage = "idle"
  /\ lev = 0
  /\ sst = NoTable
  /\ newest = NoTable
  /\ intact = TRUE

ManiFestStep ==
  \/ WriteTable
  \/ CompactLevel
  \/ NoVictim
  \/ CompactThrows
  \/ PutDone
  \/ FlushClear
  \/ FlushLog
  \/ Crash
  \/ Open
  \/ OpenAborts

\* What DBImpl::flush() hands to put(): a memtable, which is one table at most.
Flushed == {t \in Table : Cardinality(DOMAIN t) <= SstSize}

ManiFestNext == (\E t \in Flushed : PutTable(t)) \/ ManiFestStep

ManiFestSpec == ManiFestInit /\ [][ManiFestNext]_mvars

-----------------------------------------------------------------------------
(* Properties.                                                             *)

IsFiles(f) ==
  /\ f = [i \in DOMAIN f |-> f[i]]
  /\ DOMAIN f \subseteq Nat
  /\ \A i \in DOMAIN f : f[i] \in Table \ {NoTable}

\* Every variable keeps its type; no stored table is empty.
ManiFestTypeOK ==
  /\ insert_file_id \in 1..Ring
  /\ levels_files \in [Levels -> SUBSET Record]
  /\ levels_size \in Nat
  /\ DOMAIN disk = Levels /\ \A l \in Levels : IsFiles(disk[l])
  /\ dirs \subseteq Levels
  /\ wal_manifest \in BOOLEAN /\ wal_open \in BOOLEAN
  /\ manifest_log \in [files : [Levels -> SUBSET Record], id : 1..Ring]
  /\ stage \in Stages
  /\ lev \in Levels
  /\ sst \in Table
  /\ newest \in Table
  /\ intact \in BOOLEAN

\* A level-0 id is handed out again only after its file was merged away: the
\* ring of ids (manifest.cpp:109) and the level-0 limit (:120) fit together,
\* so put() never overwrites a table the manifest still lists.
RingSlotFree ==
  /\ stage \in {"idle", "log"} => insert_file_id \notin Names(0)
  /\ stage = "write" => PrevId(insert_file_id) \notin Names(0)

\* Between operations the manifest lists exactly the files of the folders,
\* under their bounds, and no id twice: compact() names its outputs while
\* the inputs are still listed, and removes inputs only.  While intact holds:
\* no compaction missed a file (CrossIntersectComplete) and no crash left an
\* older manifest over newer folders.
ManifestMatchesDisk ==
  intact /\ stage \in {"idle", "write", "level", "log"} =>
    \A l \in Levels : levels_files[l] = {RecordOf(i, disk[l][i]) : i \in DOMAIN disk[l]}

\* Below level 0 the files of one level have disjoint key ranges, which is
\* what lets get() open one file per level, as long as every compaction took
\* all the files it intersects.
LevelsDisjoint ==
  intact /\ stage \notin {"down", "aborted"} =>
    \A l \in Levels \ {0} : \A r, s \in levels_files[l] :
      r # s => r.max < s.min \/ s.max < r.min

\* A read finds the entry stored last, whatever was flushed and merged since
\* and whatever session it was stored in; a deleted key reads as deleted or
\* as absent, never as an older value.
ReadsNewest ==
  intact /\ stage \in {"idle", "log"} =>
    \A k \in Keys :
      IF k \in DOMAIN newest /\ newest[k] # Deleted
      THEN Lookup(k) = newest[k] /\ ~Throws(k)
      ELSE Lookup(k) \in {Absent, Deleted}

\* When put() returns, one compaction per level was enough: every level is
\* within its limit again.
LimitsRestored ==
  stage = "idle" => \A l \in Levels : Cardinality(levels_files[l]) <= Limit(l)

\* manifest.h:134: crossIntersect returns all records of the next level whose
\* keys intersect the merged file's.
CrossIntersectComplete ==
  stage = "level" /\ Overflows /\ lev < MaxLevel =>
    \A victim \in Victims(lev) : Overlapping(lev, victim) \subseteq CrossIntersect(lev, victim)

\* README.md, "in the LSM-tree the overflowing files of every level are merged
\* downwards": put() finds a file to merge in a level that overflows, also when
\* every compaction so far took all the files it intersects.
OverflowMerged ==
  intact /\ stage = "level" /\ Overflows => Victims(lev) # {}

\* README.md, "the WAL makes commands durable and keeps the data safe": wherever
\* the process stops, what a session with open logs put is in manifest.log or has
\* rows in WAL_manifest.log.
PutsAreLogged ==
  wal_open /\ stage \notin {"write", "down", "aborted"} =>
    wal_manifest \/ manifest_log.files = levels_files

=============================================================================
