--------------------------- MODULE ManiFestProofs ---------------------------
(***************************************************************************)
(* The levelled table store, for every value of the constants: its types,  *)
(* the ring of level-0 ids, the limits of the levels, manifest and folders *)
(* in agreement, disjoint key ranges, and reads that find the entry stored *)
(* last.                                                                   *)
(***************************************************************************)
EXTENDS ManiFest, FiniteSetTheorems, TLAPS

-----------------------------------------------------------------------------
(* Least and greatest elements.                                            *)

\* A nonempty finite set of integers has a greatest element.
LEMMA GreatestExists ==
  ASSUME NEW S, IsFiniteSet(S), S \subseteq Int, S # {}
  PROVE  \E x \in S : \A y \in S : x >= y
<1> DEFINE HasMax(T) == \E x \in T : \A y \in T : x >= y
           Bad       == {T \in SUBSET S : T # {} /\ ~HasMax(T)}
<1> SUFFICES ASSUME Bad # {}
             PROVE  FALSE
  OBVIOUS
<1>1. IsWellFoundedOn(StrictSubsetOrdering(S), SUBSET S)
  BY FS_StrictSubsetOrderingWellFounded, FS_FiniteSubsetsOfFinite
<1>2. PICK T \in Bad : \A U \in Bad : <<U, T>> \notin StrictSubsetOrdering(S)
  BY <1>1, WFMin
<1>3. PICK x \in T : TRUE
  OBVIOUS
<1>4. \A U \in SUBSET S : U \subseteq T /\ U # T => U \notin Bad
  BY <1>2 DEF StrictSubsetOrdering
<1>5. T \ {x} \notin Bad
  BY <1>3, <1>4
<1>6. CASE T \ {x} = {}
  BY <1>3, <1>6
<1>7. CASE HasMax(T \ {x})
  <2>1. PICK m \in T \ {x} : \A y \in T \ {x} : m >= y
    BY <1>7
  <2>2. \A y \in T : y \in Int
    OBVIOUS
  <2>3. CASE m >= x
    BY <2>1, <2>3
  <2>4. CASE ~(m >= x)
    BY <2>1, <2>2, <2>4
  <2> QED BY <2>3, <2>4
<1> QED BY <1>5, <1>6, <1>7

\* A nonempty set of naturals has a least element.
LEMMA LeastExists ==
  ASSUME NEW S \in SUBSET Nat, S # {}
  PROVE  \E x \in S : \A y \in S : x <= y
<1>1. PICK x \in S : \A y \in S : <<y, x>> \notin OpToRel(<, Nat)
  BY NatLessThanWellFounded, WFMin
<1>2. \A y \in S : ~(y < x)
  BY <1>1 DEF OpToRel
<1> QED BY <1>2

LEMMA MaxOf ==
  ASSUME NEW S, IsFiniteSet(S), S \subseteq Int, S # {}
  PROVE  Max(S) \in S /\ \A y \in S : Max(S) >= y
BY GreatestExists DEF Max

LEMMA MinOf ==
  ASSUME NEW S \in SUBSET Nat, S # {}
  PROVE  Min(S) \in S /\ \A y \in S : Min(S) <= y
BY LeastExists DEF Min

LEMMA TwoFinite ==
  ASSUME NEW a, NEW b
  PROVE  IsFiniteSet({a, b})
<1>1. IsFiniteSet({a})
  BY FS_Singleton
<1>2. IsFiniteSet({a} \cup {b})
  BY <1>1, FS_AddElement
<1>3. {a} \cup {b} = {a, b}
  OBVIOUS
<1> QED BY <1>2, <1>3

-----------------------------------------------------------------------------
(* Tables, files and records.                                              *)

\* What membership in Table says, and how to show it.
LEMMA TableFacts ==
  ASSUME NEW t \in Table
  PROVE  /\ t = [k \in DOMAIN t |-> t[k]]
         /\ DOMAIN t \subseteq Keys
         /\ \A k \in DOMAIN t : t[k] \in Entry
BY DEF Table

LEMMA TableIntro ==
  ASSUME NEW t, t = [k \in DOMAIN t |-> t[k]], DOMAIN t \subseteq Keys,
         \A k \in DOMAIN t : t[k] \in Entry
  PROVE  t \in Table
<1>1. t \in [DOMAIN t -> Entry]
  OBVIOUS
<1> QED BY <1>1 DEF Table

LEMMA NoTableFacts == NoTable \in Table /\ IsFiles(NoTable)
<1>1. DOMAIN NoTable = {} /\ NoTable = [k \in DOMAIN NoTable |-> NoTable[k]]
  BY DEF NoTable
<1> QED BY <1>1, TableIntro DEF IsFiles

LEMMA OverwriteTable ==
  ASSUME NEW f \in Table, NEW g \in Table
  PROVE  Overwrite(f, g) \in Table
<1> DEFINE t == Overwrite(f, g)
<1>1. DOMAIN t = DOMAIN f \cup DOMAIN g /\ t = [k \in DOMAIN t |-> t[k]]
  BY DEF Overwrite
<1>2. \A k \in DOMAIN t : t[k] \in Entry
  BY <1>1, TableFacts DEF Overwrite
<1> QED BY <1>1, <1>2, TableFacts, TableIntro

LEMMA OverwriteFiles ==
  ASSUME NEW f, IsFiles(f), NEW g, IsFiles(g)
  PROVE  IsFiles(Overwrite(f, g))
BY DEF IsFiles, Overwrite

LEMMA WithoutFiles ==
  ASSUME NEW f, IsFiles(f), NEW S
  PROVE  IsFiles(Without(f, S))
BY DEF IsFiles, Without

LEMMA OneFile ==
  ASSUME NEW i \in Nat, NEW t \in Table \ {NoTable}
  PROVE  IsFiles([j \in {i} |-> t])
BY DEF IsFiles

\* A table that is not empty has bounds among its keys.
LEMMA RecordOfTable ==
  ASSUME KeysAssumption, NEW i \in Nat, NEW t \in Table \ {NoTable}
  PROVE  /\ RecordOf(i, t) \in Record
         /\ RecordOf(i, t).name = i
<1>1. DOMAIN t \subseteq Keys /\ DOMAIN t # {}
  BY TableFacts DEF NoTable
<1>2. IsFiniteSet(DOMAIN t) /\ DOMAIN t \subseteq Nat
  BY <1>1, FS_Subset DEF KeysAssumption
<1>3. Min(DOMAIN t) \in DOMAIN t /\ Max(DOMAIN t) \in DOMAIN t
  BY <1>1, <1>2, MinOf, MaxOf
<1> QED BY <1>1, <1>3 DEF RecordOf, Record

\* A nonempty set of records has a first one.
LEMMA FirstRecord ==
  ASSUME KeysAssumption, NEW R \in SUBSET Record, R # {}
  PROVE  \E r \in R : \A s \in R \ {r} : RecordBefore(r, s)
<1>1. \A r \in R : r.min \in Nat /\ r.max \in Nat /\ r.name \in Nat
  BY DEF Record, KeysAssumption
<1> DEFINE A  == {r.min : r \in R}
<1>a. A \in SUBSET Nat /\ A # {}
  BY <1>1
<1>2. PICK a \in A : \A x \in A : a <= x
  BY <1>a, LeastExists
<1> DEFINE RA == {r \in R : r.min = a}
           B  == {r.max : r \in RA}
<1>b. B \in SUBSET Nat /\ B # {}
  BY <1>1, <1>2
<1>3. PICK b \in B : \A x \in B : b <= x
  BY <1>b, LeastExists
<1> DEFINE RB == {r \in RA : r.max = b}
           C  == {r.name : r \in RB}
<1>c. C \in SUBSET Nat /\ C # {}
  BY <1>1, <1>3
<1>4. PICK c \in C : \A x \in C : c <= x
  BY <1>c, LeastExists
<1>5. PICK r \in RB : r.name = c
  BY <1>4
<1>6. \A s \in R : s = r \/ RecordBefore(r, s)
  <2> TAKE s \in R
  <2>1. CASE s.min # a
    BY <1>1, <1>2, <1>5, <2>1 DEF RecordBefore
  <2>2. CASE s.min = a /\ s.max # b
    BY <1>1, <1>3, <1>5, <2>2 DEF RecordBefore
  <2>3. CASE s.min = a /\ s.max = b /\ s.name # c
    BY <1>1, <1>4, <1>5, <2>3 DEF RecordBefore
  <2>4. CASE s.min = a /\ s.max = b /\ s.name = c
    BY <1>5, <2>4 DEF Record
  <2> QED BY <2>1, <2>2, <2>3, <2>4
<1> QED BY <1>5, <1>6

-----------------------------------------------------------------------------
(* compact() builds tables.                                                *)

LEMMA MergedTable ==
  ASSUME KeysAssumption, ManiFestTypeOK, NEW l \in Levels, l + 1 \in Levels,
         NEW victim \in levels_files[l], victim.name \in DOMAIN disk[l],
         NEW files \in SUBSET levels_files[l + 1],
         {r.name : r \in files} \subseteq DOMAIN disk[l + 1]
  PROVE  Merged(l, victim, files) \in Table
<1> DEFINE own      == disk[l][victim.name]
           with(k)  == {r \in files : k \in DOMAIN disk[l + 1][r.name]}
           first(k) == CHOOSE r \in with(k) : \A s \in with(k) \ {r} : RecordBefore(r, s)
           all      == DOMAIN own \cup UNION {DOMAIN disk[l + 1][r.name] : r \in files}
           entry(k) == IF k \in DOMAIN own THEN own[k] ELSE disk[l + 1][first(k).name][k]
           kept     == {k \in all : ~(NewLevel(l) /\ entry(k) = Deleted)}
           t        == Merged(l, victim, files)
<1>1. own \in Table /\ \A r \in files : disk[l + 1][r.name] \in Table
  BY DEF ManiFestTypeOK, IsFiles
<1>2. files \subseteq Record
  BY DEF ManiFestTypeOK
<1>3. all \subseteq Keys
  BY <1>1, TableFacts
<1>4. \A k \in all : entry(k) \in Entry
  <2> TAKE k \in all
  <2>1. CASE k \in DOMAIN own
    BY <1>1, <2>1, TableFacts
  <2>2. CASE k \notin DOMAIN own
    <3>1. with(k) # {} /\ with(k) \in SUBSET Record
      BY <1>2, <2>2
    <3> HIDE DEF with
    <3>2. first(k) \in with(k)
      BY <3>1, FirstRecord
    <3>3. first(k) \in files /\ k \in DOMAIN disk[l + 1][first(k).name]
      BY <3>2 DEF with
    <3> QED BY <1>1, <2>2, <3>3, TableFacts
  <2> QED BY <2>1, <2>2
<1>5. t = [k \in kept |-> entry(k)]
  BY DEF Merged
<1> HIDE DEF entry, all, t
<1>6. DOMAIN t = kept /\ t = [k \in DOMAIN t |-> t[k]] /\ \A k \in kept : t[k] = entry(k)
  BY <1>5
<1>7. t \in Table
  BY <1>3, <1>4, <1>6, TableIntro
<1> QED BY <1>7 DEF t

LEMMA OutputsAreFiles ==
  ASSUME SizesAssumption, NEW l, NEW merged \in Table, NEW out \in Outputs(l, merged)
  PROVE  IsFiles(out)
<1> DEFINE D   == DOMAIN merged
           m   == (Cardinality(D) + SstSize - 1) \div SstSize
           ids == AbsentIds(l, m)
<1>1. PICK c \in Cuts(D, ids) :
        out = [i \in ids |-> [k \in {j \in D : c[j] = i} |-> merged[k]]]
  BY DEF Outputs
<1>2. ids \subseteq Nat
  BY DEF AbsentIds
<1>3. \A i \in ids : out[i] \in Table \ {NoTable}
  <2> TAKE i \in ids
  <2> DEFINE S == {j \in D : c[j] = i}
  <2>1. Cardinality(S) # 0
    BY <1>1 DEF Cuts, SizesAssumption
  <2>2. S # {}
    BY <2>1, FS_EmptySet
  <2>3. out[i] = [k \in S |-> merged[k]]
    BY <1>1
  <2> HIDE DEF S
  <2>4. DOMAIN out[i] = S /\ out[i] = [k \in DOMAIN out[i] |-> out[i][k]]
        /\ \A k \in S : out[i][k] = merged[k]
    BY <2>3
  <2>5. S \subseteq D
    BY DEF S
  <2>6. out[i] \in Table
    BY <2>4, <2>5, TableFacts, TableIntro
  <2>7. out[i] # NoTable
    BY <2>2, <2>4 DEF NoTable
  <2> QED BY <2>6, <2>7
<1>4. DOMAIN out = ids /\ out = [i \in DOMAIN out |-> out[i]]
  BY <1>1
<1> QED BY <1>2, <1>3, <1>4 DEF IsFiles

-----------------------------------------------------------------------------
(* Type correctness.                                                       *)

ConstantsOK == /\ KeysAssumption /\ EntriesAssumption /\ SizesAssumption
               /\ PowersAssumption /\ RingAssumption

\* What CompactLevel does to the files, under the names its guard uses.
Compacts(victim, files, out) ==
  LET gone == {r.name : r \in files}
  IN  /\ victim \in Victims(lev)
      /\ files = CrossIntersect(lev, victim)
      /\ victim.name \in DOMAIN disk[lev] /\ gone \subseteq DOMAIN disk[lev + 1]
      /\ out \in Outputs(lev + 1, Merged(lev, victim, files))
      /\ disk' = [disk EXCEPT ![lev]     = Without(@, {victim.name}),
                              ![lev + 1] = Without(Overwrite(@, out), gone)]
      /\ levels_files' =
           [levels_files EXCEPT
              ![lev]     = @ \ {victim},
              ![lev + 1] = (@ \cup {RecordOf(i, out[i]) : i \in DOMAIN out}) \ files]
      /\ intact' = (intact /\ Overlapping(lev, victim) \subseteq files)

LEMMA CompactLevelPicks ==
  ASSUME CompactLevel
  PROVE  \E victim, files, out : Compacts(victim, files, out)
BY DEF CompactLevel, Compacts

\* The files taken from the next level are recorded there, the victim here.
LEMMA CompactsTypes ==
  ASSUME ConstantsOK, ManiFestTypeOK, lev < MaxLevel,
         NEW victim, NEW files, NEW out, Compacts(victim, files, out)
  PROVE  /\ lev \in Levels /\ lev + 1 \in Levels /\ lev + 1 # lev
         /\ victim \in levels_files[lev]
         /\ files \in SUBSET levels_files[lev + 1]
         /\ IsFiles(out)
<1>1. lev \in Levels /\ lev + 1 \in Levels /\ lev + 1 # lev
  BY DEF ManiFestTypeOK, Levels, ConstantsOK, SizesAssumption
<1>2. victim \in levels_files[lev]
  BY DEF Compacts, Victims
<1>3. files \in SUBSET levels_files[lev + 1]
  BY DEF Compacts, CrossIntersect
<1>4. Merged(lev, victim, files) \in Table
  BY <1>1, <1>2, <1>3, MergedTable DEF Compacts, ConstantsOK
<1>5. IsFiles(out)
  BY <1>4, OutputsAreFiles DEF Compacts, ConstantsOK
<1> QED BY <1>1, <1>2, <1>3, <1>5

LEMMA CompactLevelTypes ==
  ASSUME ConstantsOK, ManiFestTypeOK, CompactLevel
  PROVE  ManiFestTypeOK'
<1>1. PICK victim, files, out : Compacts(victim, files, out)
  BY CompactLevelPicks
<1>2. lev < MaxLevel
  BY DEF CompactLevel
<1>3. /\ lev \in Levels /\ lev + 1 \in Levels /\ lev + 1 # lev
      /\ victim \in levels_files[lev]
      /\ files \in SUBSET levels_files[lev + 1]
      /\ IsFiles(out)
  BY <1>1, <1>2, CompactsTypes
<1> DEFINE recorded == {RecordOf(i, out[i]) : i \in DOMAIN out}
           gone     == {r.name : r \in files}
<1>4. recorded \subseteq Record
  BY <1>3, RecordOfTable DEF IsFiles, ConstantsOK
<1>5. levels_files' \in [Levels -> SUBSET Record]
  <2>1. levels_files' = [levels_files EXCEPT
                           ![lev]     = @ \ {victim},
                           ![lev + 1] = (@ \cup recorded) \ files]
    BY <1>1 DEF Compacts
  <2> HIDE DEF recorded
  <2> QED BY <1>3, <1>4, <2>1 DEF ManiFestTypeOK
<1>6. DOMAIN disk' = Levels /\ \A l \in Levels : IsFiles(disk'[l])
  <2>1. disk' = [disk EXCEPT ![lev]     = Without(@, {victim.name}),
                             ![lev + 1] = Without(Overwrite(@, out), gone)]
    BY <1>1 DEF Compacts
  <2>2. DOMAIN disk = Levels /\ \A l \in Levels : IsFiles(disk[l])
    BY DEF ManiFestTypeOK
  <2>3. /\ IsFiles(Without(disk[lev], {victim.name}))
        /\ IsFiles(Without(Overwrite(disk[lev + 1], out), gone))
    BY <1>3, <2>2, OverwriteFiles, WithoutFiles
  <2> HIDE DEF gone
  <2> QED BY <1>3, <2>1, <2>2, <2>3
<1>7. levels_size' \in Nat
  <2>1. levels_size \in Nat /\ lev + 2 \in Nat
    BY <1>3 DEF ManiFestTypeOK, Levels
  <2>2. IsFiniteSet({levels_size, lev + 2})
    BY TwoFinite
  <2>3. Max({levels_size, lev + 2}) \in {levels_size, lev + 2}
    BY <2>1, <2>2, MaxOf
  <2> QED BY <2>1, <2>3 DEF CompactLevel
<1>8. dirs' \subseteq Levels /\ lev' \in Levels /\ intact' \in BOOLEAN
  BY <1>1, <1>3 DEF CompactLevel, Compacts, ManiFestTypeOK
<1>9. UNCHANGED <<insert_file_id, wal_manifest, wal_open, manifest_log, stage, sst, newest>>
  BY DEF CompactLevel
<1> QED BY <1>5, <1>6, <1>7, <1>8, <1>9 DEF ManiFestTypeOK

LEMMA WriteTableTypes ==
  ASSUME ConstantsOK, ManiFestTypeOK, WriteTable, sst # NoTable
  PROVE  ManiFestTypeOK'
<1> DEFINE i == PrevId(insert_file_id)
<1>1. i \in 1..Ring /\ i \in Nat
  BY DEF PrevId, ManiFestTypeOK, ConstantsOK, RingAssumption
<1>2. 0 \in Levels
  BY DEF Levels, ConstantsOK, SizesAssumption
<1>3. sst \in Table \ {NoTable}
  BY DEF ManiFestTypeOK
<1>4. RecordOf(i, sst) \in Record
  BY <1>1, <1>3, RecordOfTable DEF ConstantsOK
<1>5. IsFiles(Overwrite(disk[0], [j \in {i} |-> sst]))
  BY <1>1, <1>2, <1>3, OneFile, OverwriteFiles DEF ManiFestTypeOK
<1>6. /\ disk' = [disk EXCEPT ![0] = Overwrite(disk[0], [j \in {i} |-> sst])]
      /\ levels_files' = [levels_files EXCEPT ![0] = levels_files[0] \cup {RecordOf(i, sst)}]
  BY DEF WriteTable
<1> HIDE DEF i
<1>7. DOMAIN disk' = Levels /\ \A l \in Levels : IsFiles(disk'[l])
  BY <1>2, <1>5, <1>6 DEF ManiFestTypeOK
<1>8. levels_files' \in [Levels -> SUBSET Record]
  BY <1>2, <1>4, <1>6 DEF ManiFestTypeOK
<1>9. dirs' \subseteq Levels /\ lev' \in Levels /\ stage' \in Stages /\ sst' \in Table
  BY <1>2, NoTableFacts DEF WriteTable, ManiFestTypeOK, Stages
<1> QED BY <1>7, <1>8, <1>9 DEF WriteTable, ManiFestTypeOK

LEMMA OpenTypes ==
  ASSUME ConstantsOK, ManiFestTypeOK, Open
  PROVE  ManiFestTypeOK'
<1> DEFINE used == {l \in Levels : manifest_log.files[l] # {}}
<1>1. levels_size' \in Nat
  <2>1. CASE used = {}
    BY <2>1 DEF Open
  <2>2. CASE used # {}
    <3>1. IsFiniteSet(Levels) /\ Levels \subseteq Nat
      BY FS_Interval DEF Levels, ConstantsOK, SizesAssumption
    <3>a. used \subseteq Levels
      OBVIOUS
    <3> HIDE DEF used
    <3>b. IsFiniteSet(used)
      BY <3>1, <3>a, FS_Subset
    <3>2. IsFiniteSet(used) /\ used \subseteq Int
      BY <3>1, <3>a, <3>b
    <3>3. Max(used) \in used
      BY <2>2, <3>2, MaxOf
    <3>4. levels_size' = Max(used) + 1
      BY <2>2 DEF Open, used
    <3>5. Max(used) \in Nat
      BY <3>1, <3>3, <3>a
    <3> QED BY <3>4, <3>5
  <2> QED BY <2>1, <2>2
<1>2. 0 \in Levels
  BY DEF Levels, ConstantsOK, SizesAssumption
<1> QED BY <1>1, <1>2, NoTableFacts DEF Open, ManiFestTypeOK, Stages

\* Type correctness is inductive once put() is known to hold a table between
\* taking the id and writing the file.
TypeInv == ManiFestTypeOK /\ (stage = "write" => sst # NoTable)

LEMMA TypeInit ==
  ASSUME ConstantsOK, ManiFestInit
  PROVE  TypeInv
<1>1. 0 \in Levels /\ 1 \in 1..Ring
  BY DEF Levels, ConstantsOK, SizesAssumption, RingAssumption
<1> QED BY <1>1, NoTableFacts
       DEF ManiFestInit, TypeInv, ManiFestTypeOK, NoFiles, EmptyLog, Stages

LEMMA TypeStep ==
  ASSUME ConstantsOK, TypeInv, [ManiFestNext]_mvars
  PROVE  TypeInv'
<1> USE DEF TypeInv
<1>1. ASSUME NEW t \in Flushed, PutTable(t)
      PROVE  TypeInv'
  <2>1. insert_file_id' \in 1..Ring
    BY <1>1 DEF PutTable, NextId, ManiFestTypeOK, ConstantsOK, RingAssumption
  <2>2. newest' \in Table
    BY <1>1, OverwriteTable DEF PutTable, ManiFestTypeOK, Flushed
  <2> QED BY <1>1, <2>1, <2>2 DEF PutTable, ManiFestTypeOK, Stages, Flushed
<1>2. CASE WriteTable
  BY <1>2, WriteTableTypes DEF WriteTable
<1>3. CASE CompactLevel
  BY <1>3, CompactLevelTypes DEF CompactLevel
<1>4. CASE NoVictim
  BY <1>4 DEF NoVictim, ManiFestTypeOK, Stages
<1>5. CASE CompactThrows
  BY <1>5 DEF CompactThrows, ManiFestTypeOK, Stages
<1>6. CASE PutDone
  BY <1>6 DEF PutDone, ManiFestTypeOK, Stages, Levels, ConstantsOK, SizesAssumption
<1>7. CASE FlushClear
  BY <1>7 DEF FlushClear, ManiFestTypeOK, Stages
<1>8. CASE FlushLog
  BY <1>8 DEF FlushLog, Snapshot, ManiFestTypeOK, Stages
<1>9. CASE Crash
  BY <1>9 DEF Crash, ManiFestTypeOK, Stages
<1>10. CASE Open
  BY <1>10, OpenTypes DEF Open
<1>11. CASE OpenAborts
  BY <1>11 DEF OpenAborts, ManiFestTypeOK, Stages
<1>12. CASE UNCHANGED mvars
  BY <1>12 DEF mvars, ManiFestTypeOK
<1> QED BY <1>1, <1>2, <1>3, <1>4, <1>5, <1>6, <1>7, <1>8, <1>9, <1>10, <1>11, <1>12
       DEF ManiFestNext, ManiFestStep

\* Whatever is put, merged, flushed or lost in a crash, every variable keeps
\* its type; in particular no table that is empty reaches a file.
THEOREM StoreTypeCorrect == ManiFestSpec => []ManiFestTypeOK
<1>1. ConstantsOK
  BY KeysAssumption, EntriesAssumption, SizesAssumption, PowersAssumption, RingAssumption
     DEF ConstantsOK
<1>2. ManiFestInit => TypeInv
  BY <1>1, TypeInit
<1>3. TypeInv /\ [ManiFestNext]_mvars => TypeInv'
  BY <1>1, TypeStep
<1>4. TypeInv => ManiFestTypeOK
  BY DEF TypeInv
<1> QED BY <1>2, <1>3, <1>4, PTL DEF ManiFestSpec

-----------------------------------------------------------------------------
(* The ring of level-0 ids.                                                *)

\* The level-0 ids in use are a first run 1..id-1 that never turned the ring,
\* or, once it turned, all of them but the next.
RingShape(names, id) == names = 1..(id - 1) \/ names = (1..Ring) \ {id}

NamesOf(R)  == {r.name : r \in R}
Distinct(R) == IsFiniteSet(R) /\ \A r, s \in R : r.name = s.name => r = s

\* The shape holds between operations and below level 0, is one put ahead
\* before the file is written, and is full or a run in the round of level 0.
\* manifest.log has it too, or a session reopened over it would not.
RingInv ==
  /\ TypeInv
  /\ Distinct(levels_files[0]) /\ Distinct(manifest_log.files[0])
  /\ RingShape(NamesOf(manifest_log.files[0]), manifest_log.id)
  /\ stage \in {"idle", "log"} \/ (stage = "level" /\ lev # 0) =>
       RingShape(Names(0), insert_file_id)
  /\ stage = "write" => RingShape(Names(0), PrevId(insert_file_id))
  /\ stage = "level" /\ lev = 0 =>
       Names(0) = 1..PrevId(insert_file_id) \/ Names(0) = 1..Ring

LEMMA DistinctCardinality ==
  ASSUME NEW R, Distinct(R)
  PROVE  IsFiniteSet(NamesOf(R)) /\ Cardinality(NamesOf(R)) = Cardinality(R)
<1> DEFINE f == [r \in R |-> r.name]
<1>1. f \in Bijection(R, NamesOf(R))
  BY DEF Bijection, Injection, IsInjective, Surjection, Distinct, NamesOf
<1>2. ExistsBijection(R, NamesOf(R))
  BY <1>1 DEF ExistsBijection
<1> QED BY <1>2, FS_Bijection DEF Distinct

\* A level-0 that overflows uses every id; one that does not leaves one free.
LEMMA FullRing ==
  ASSUME ConstantsOK, NEW R, Distinct(R), NEW n \in 0..Ring,
         NamesOf(R) = 1..n
  PROVE  Cardinality(R) > Level0Limit <=> n = Ring
<1>1. Cardinality(R) = Cardinality(1..n)
  BY DistinctCardinality
<1>2. n \in Int /\ Ring \in Nat /\ 1 \in Int /\ n <= Ring /\ 0 <= n
  BY DEF ConstantsOK, RingAssumption
<1>3. Cardinality(1..n) = n
  <2>1. Cardinality(1..n) = IF 1 > n THEN 0 ELSE n - 1 + 1
    BY <1>2, FS_Interval
  <2> QED BY <1>2, <2>1
<1> QED BY <1>1, <1>2, <1>3 DEF ConstantsOK, RingAssumption

LEMMA AddDistinct ==
  ASSUME NEW R, Distinct(R), NEW r, r.name \notin NamesOf(R)
  PROVE  Distinct(R \cup {r}) /\ NamesOf(R \cup {r}) = NamesOf(R) \cup {r.name}
<1>1. IsFiniteSet(R \cup {r})
  BY FS_AddElement DEF Distinct
<1> QED BY <1>1 DEF Distinct, NamesOf

LEMMA RemoveDistinct ==
  ASSUME NEW R, Distinct(R), NEW r \in R
  PROVE  Distinct(R \ {r}) /\ NamesOf(R \ {r}) = NamesOf(R) \ {r.name}
<1>1. IsFiniteSet(R \ {r})
  BY FS_RemoveElement DEF Distinct
<1> QED BY <1>1 DEF Distinct, NamesOf

LEMMA EmptyDistinct == Distinct({}) /\ NamesOf({}) = {}
BY FS_EmptySet DEF Distinct, NamesOf

LEMMA RingInit ==
  ASSUME ConstantsOK, ManiFestInit
  PROVE  RingInv
<1>1. 0 \in Levels
  BY DEF Levels, ConstantsOK, SizesAssumption
<1>2. levels_files[0] = {} /\ manifest_log.files[0] = {} /\ manifest_log.id = 1
  BY <1>1 DEF ManiFestInit, NoFiles, EmptyLog
<1>3. RingShape({}, 1)
  BY DEF RingShape
<1>4. Names(0) = {}
  BY <1>2 DEF Names
<1> QED BY <1>2, <1>3, <1>4, TypeInit, EmptyDistinct DEF RingInv, ManiFestInit

\* Steps of put(), one by one; the other variables of RingInv are unchanged.
LEMMA RingPutTable ==
  ASSUME ConstantsOK, RingInv, NEW t \in Flushed, PutTable(t)
  PROVE  RingInv'
<1>1. TypeInv'
  BY TypeStep DEF RingInv, ManiFestNext
<1>2. insert_file_id \in 1..Ring /\ insert_file_id' = NextId(insert_file_id)
  BY DEF RingInv, TypeInv, ManiFestTypeOK, PutTable
<1>3. PrevId(insert_file_id') = insert_file_id
  BY <1>2 DEF PrevId, NextId, ConstantsOK, RingAssumption
<1>4. RingShape(Names(0), insert_file_id)
  BY DEF RingInv, PutTable
<1>5. Names(0)' = Names(0)
  BY DEF PutTable, Names
<1> QED BY <1>1, <1>3, <1>4, <1>5 DEF RingInv, PutTable

LEMMA RingWriteTable ==
  ASSUME ConstantsOK, RingInv, WriteTable
  PROVE  RingInv'
<1> DEFINE i == PrevId(insert_file_id)
           r == RecordOf(i, sst)
<1>1. TypeInv'
  BY TypeStep DEF RingInv, ManiFestNext, ManiFestStep
<1>2. 0 \in Levels /\ levels_files \in [Levels -> SUBSET Record]
  BY DEF RingInv, TypeInv, ManiFestTypeOK, Levels, ConstantsOK, SizesAssumption
<1>3. i \in 1..Ring
  BY DEF PrevId, RingInv, TypeInv, ManiFestTypeOK, ConstantsOK, RingAssumption
<1>4. RingShape(NamesOf(levels_files[0]), i)
  BY DEF RingInv, WriteTable, Names, NamesOf
<1>5. r.name = i
  BY DEF RecordOf
<1>6. i \notin NamesOf(levels_files[0])
  BY <1>3, <1>4 DEF RingShape, ConstantsOK, RingAssumption
<1>7. levels_files'[0] = levels_files[0] \cup {r}
  BY <1>2 DEF WriteTable
<1> HIDE DEF r, i
<1>8. /\ Distinct(levels_files'[0])
      /\ NamesOf(levels_files'[0]) = NamesOf(levels_files[0]) \cup {i}
  BY <1>5, <1>6, <1>7, AddDistinct DEF RingInv
<1>9. NamesOf(levels_files'[0]) = 1..i \/ NamesOf(levels_files'[0]) = 1..Ring
  BY <1>3, <1>4, <1>8 DEF RingShape, ConstantsOK, RingAssumption
<1>10. insert_file_id' = insert_file_id /\ stage' = "level" /\ manifest_log' = manifest_log
  BY DEF WriteTable
<1>11. Names(0)' = 1..PrevId(insert_file_id') \/ Names(0)' = 1..Ring
  BY <1>9, <1>10 DEF Names, NamesOf, i
<1>12. lev' = 0
  BY DEF WriteTable
<1> QED BY <1>1, <1>8, <1>10, <1>11, <1>12 DEF RingInv

LEMMA RingCompactLevel ==
  ASSUME ConstantsOK, RingInv, CompactLevel
  PROVE  RingInv'
<1>1. TypeInv'
  BY TypeStep DEF RingInv, ManiFestNext, ManiFestStep
<1>2. PICK victim, files, out : Compacts(victim, files, out)
  BY CompactLevelPicks
<1>3. /\ lev \in Levels /\ lev + 1 \in Levels /\ lev + 1 # lev
      /\ victim \in levels_files[lev]
  BY <1>2, CompactsTypes DEF RingInv, TypeInv, CompactLevel
<1>4. 0 \in Levels /\ levels_files \in [Levels -> SUBSET Record] /\ lev \in Nat
  BY <1>3 DEF RingInv, TypeInv, ManiFestTypeOK, Levels, ConstantsOK, SizesAssumption
<1> DEFINE below == (levels_files[lev + 1] \cup {RecordOf(i, out[i]) : i \in DOMAIN out}) \ files
<1>5. levels_files' = [levels_files EXCEPT ![lev]     = levels_files[lev] \ {victim},
                                           ![lev + 1] = below]
  BY <1>2, <1>3, <1>4 DEF Compacts
<1> HIDE DEF below
<1>6. /\ UNCHANGED <<insert_file_id, manifest_log, stage>>
      /\ stage = "level" /\ lev' = lev + 1
  BY DEF CompactLevel
<1>7. /\ Distinct(levels_files'[0])
      /\ RingShape(NamesOf(levels_files'[0]), insert_file_id)
  <2>1. CASE lev # 0
    <3>1. levels_files'[0] = levels_files[0]
      BY <1>4, <1>5, <2>1
    <3> QED BY <1>6, <2>1, <3>1 DEF RingInv, Names, NamesOf
  <2>2. CASE lev = 0
    <3> DEFINE id == insert_file_id
               R  == levels_files[0]
    <3>1. id \in 1..Ring /\ Ring \in Nat
      BY DEF RingInv, TypeInv, ManiFestTypeOK, ConstantsOK, RingAssumption
    <3>2. NamesOf(R) = 1..PrevId(id) \/ NamesOf(R) = 1..Ring
      BY <1>6, <2>2 DEF RingInv, Names, NamesOf
    <3>3. PrevId(id) \in 0..Ring /\ Ring \in 0..Ring
      BY <3>1 DEF PrevId
    <3>4. Cardinality(R) > Level0Limit
      BY <2>2 DEF CompactLevel, Overflows, Limit
    <3>5. Distinct(R)
      BY DEF RingInv
    <3>6. NamesOf(R) = 1..Ring
      BY <3>2, <3>3, <3>4, <3>5, FullRing
    <3>7. PICK r \in R : r.name = id
      BY <3>1, <3>6 DEF NamesOf
    <3>8. victim.name = id
      BY <1>2, <2>2, <3>7 DEF Compacts, Victims
    <3>9. levels_files'[0] = R \ {victim}
      BY <1>3, <1>4, <1>5, <2>2
    <3>a. victim \in R
      BY <1>3, <2>2
    <3> HIDE DEF R
    <3>b. Distinct(R \ {victim}) /\ NamesOf(R \ {victim}) = NamesOf(R) \ {victim.name}
      BY <3>5, <3>a, RemoveDistinct
    <3>10. /\ Distinct(levels_files'[0])
           /\ NamesOf(levels_files'[0]) = (1..Ring) \ {id}
      BY <3>6, <3>8, <3>9, <3>b
    <3> QED BY <3>10 DEF RingShape
  <2> QED BY <2>1, <2>2
<1>8. Names(0)' = NamesOf(levels_files'[0])
  BY DEF Names, NamesOf
<1>9. lev' # 0
  BY <1>4, <1>6
<1> QED BY <1>1, <1>6, <1>7, <1>8, <1>9 DEF RingInv

LEMMA RingPutDone ==
  ASSUME ConstantsOK, RingInv, PutDone
  PROVE  RingInv'
<1>1. TypeInv'
  BY TypeStep DEF RingInv, ManiFestNext, ManiFestStep
<1> DEFINE id == insert_file_id
           R  == levels_files[0]
<1>2. RingShape(NamesOf(R), id)
  <2>1. CASE lev # 0
    BY <2>1 DEF RingInv, PutDone, Names, NamesOf
  <2>2. CASE lev = 0
    <3>1. id \in 1..Ring /\ Ring \in Nat
      BY DEF RingInv, TypeInv, ManiFestTypeOK, ConstantsOK, RingAssumption
    <3>2. NamesOf(R) = 1..PrevId(id) \/ NamesOf(R) = 1..Ring
      BY <2>2 DEF RingInv, PutDone, Names, NamesOf
    <3>3. PrevId(id) \in 0..Ring /\ Ring \in 0..Ring
      BY <3>1 DEF PrevId
    <3>4. ~(Cardinality(R) > Level0Limit)
      BY <2>2 DEF PutDone, Overflows, Limit
    <3>5. Distinct(R)
      BY DEF RingInv
    <3>6. NamesOf(R) = 1..PrevId(id) /\ PrevId(id) # Ring
      BY <3>2, <3>3, <3>4, <3>5, FullRing
    <3>7. PrevId(id) = id - 1
      BY <3>6 DEF PrevId
    <3> QED BY <3>6, <3>7 DEF RingShape
  <2> QED BY <2>1, <2>2
<1>3. Names(0)' = NamesOf(R)
  BY DEF Names, NamesOf, PutDone
<1> QED BY <1>1, <1>2, <1>3 DEF RingInv, PutDone

LEMMA RingStep ==
  ASSUME ConstantsOK, RingInv, [ManiFestNext]_mvars
  PROVE  RingInv'
<1>0. TypeInv'
  BY TypeStep DEF RingInv
<1>1. ASSUME NEW t \in Flushed, PutTable(t)
      PROVE  RingInv'
  BY <1>1, RingPutTable
<1>2. CASE WriteTable
  BY <1>2, RingWriteTable
<1>3. CASE CompactLevel
  BY <1>3, RingCompactLevel
<1>4. CASE NoVictim
  BY <1>0, <1>4 DEF NoVictim, RingInv
<1>5. CASE CompactThrows
  BY <1>0, <1>5 DEF CompactThrows, RingInv
<1>6. CASE PutDone
  BY <1>6, RingPutDone
<1>7. CASE FlushClear
  BY <1>0, <1>7 DEF FlushClear, RingInv, Names
<1>8. CASE FlushLog
  BY <1>0, <1>8 DEF FlushLog, Snapshot, RingInv, Names, NamesOf
<1>9. CASE Crash
  BY <1>0, <1>9 DEF Crash, RingInv
<1>10. CASE Open
  BY <1>0, <1>10 DEF Open, RingInv, Names, NamesOf
<1>11. CASE OpenAborts
  BY <1>0, <1>11 DEF OpenAborts, RingInv
<1>12. CASE UNCHANGED mvars
  BY <1>0, <1>12 DEF mvars, RingInv, Names
<1> QED BY <1>1, <1>2, <1>3, <1>4, <1>5, <1>6, <1>7, <1>8, <1>9, <1>10, <1>11, <1>12
       DEF ManiFestNext, ManiFestStep

\* put() never hands out the id of a level-0 file that is still listed: the
\* ring is longer than the level-0 limit by one, through any sequence of
\* puts, compactions, flushes, crashes and reopenings.
THEOREM RingNeverOverwrites == ManiFestSpec => []RingSlotFree
<1>1. ConstantsOK
  BY KeysAssumption, EntriesAssumption, SizesAssumption, PowersAssumption, RingAssumption
     DEF ConstantsOK
<1>2. ManiFestInit => RingInv
  BY <1>1, RingInit
<1>3. RingInv /\ [ManiFestNext]_mvars => RingInv'
  BY <1>1, RingStep
<1>4. RingInv => RingSlotFree
  <2> SUFFICES ASSUME RingInv
               PROVE  RingSlotFree
    OBVIOUS
  <2>1. insert_file_id \in 1..Ring /\ PrevId(insert_file_id) \in 1..Ring
    BY <1>1 DEF RingInv, TypeInv, ManiFestTypeOK, PrevId, ConstantsOK, RingAssumption
  <2>2. \A i \in 1..Ring : RingShape(Names(0), i) => i \notin Names(0)
    BY <1>1 DEF RingShape, ConstantsOK, RingAssumption
  <2> QED BY <2>1, <2>2 DEF RingInv, RingSlotFree
<1> QED BY <1>2, <1>3, <1>4, PTL DEF ManiFestSpec

-----------------------------------------------------------------------------
(* How many files a compaction leaves.                                     *)

\* Finitely many sets of at most n elements have at most n times as many.
LEMMA UnionBound ==
  ASSUME NEW n \in Nat, NEW F, IsFiniteSet(F),
         \A S \in F : IsFiniteSet(S) /\ Cardinality(S) <= n
  PROVE  IsFiniteSet(UNION F) /\ Cardinality(UNION F) <= n * Cardinality(F)
<1> DEFINE Good(G) == Cardinality(UNION G) <= n * Cardinality(G)
           Bad     == {G \in SUBSET F : ~Good(G)}
<1>1. IsFiniteSet(UNION F)
  BY FS_UNION
<1> SUFFICES ASSUME Bad # {}
             PROVE  FALSE
  BY <1>1
<1>2. IsWellFoundedOn(StrictSubsetOrdering(F), SUBSET F)
  BY FS_StrictSubsetOrderingWellFounded, FS_FiniteSubsetsOfFinite
<1>3. PICK G \in Bad : \A H \in Bad : <<H, G>> \notin StrictSubsetOrdering(F)
  BY <1>2, WFMin
<1>4. \A H \in SUBSET F : H \subseteq G /\ H # G => Good(H)
  BY <1>3 DEF StrictSubsetOrdering
<1>5. G \in SUBSET F /\ ~Good(G)
  BY <1>3
<1>6. CASE G = {}
  <2>1. UNION G = {}
    BY <1>6
  <2>2. Cardinality(UNION G) = 0 /\ Cardinality(G) = 0
    BY <1>6, <2>1, FS_EmptySet
  <2> QED BY <1>5, <2>2
<1>7. CASE G # {}
  <2>1. PICK S \in G : TRUE
    BY <1>7
  <2> DEFINE H == G \ {S}
             k == Cardinality(H)
  <2>2. IsFiniteSet(G) /\ IsFiniteSet(H) /\ k \in Nat /\ Cardinality(G) = k + 1
    <3>1. IsFiniteSet(G)
      BY <1>5, FS_Subset
    <3>2. IsFiniteSet(H) /\ k = Cardinality(G) - 1
      BY <2>1, <3>1, FS_RemoveElement
    <3> QED BY <3>1, <3>2, FS_CardinalityType
  <2>3. Cardinality(UNION H) <= n * k
    BY <1>4, <1>5, <2>1
  <2>4. IsFiniteSet(UNION H)
    BY <1>5, <2>2, FS_UNION
  <2>5. UNION G = (UNION H) \cup S
    BY <2>1
  <2>6. IsFiniteSet(S) /\ Cardinality(S) <= n /\ Cardinality(S) \in Nat
    BY <1>5, <2>1, FS_CardinalityType
  <2>7. Cardinality((UNION H) \cup S) =
          Cardinality(UNION H) + Cardinality(S) - Cardinality((UNION H) \cap S)
    BY <2>4, <2>6, FS_Union
  <2>8. Cardinality((UNION H) \cap S) \in Nat /\ Cardinality(UNION H) \in Nat
    BY <2>4, FS_Intersection, FS_CardinalityType
  <2>9. PICK p : p = n * k
    OBVIOUS
  <2>10. p \in Nat /\ n * (k + 1) = p + n
    BY <2>2, <2>9
  <2>11. Cardinality(UNION H) <= p
    BY <2>3, <2>9
  <2> HIDE DEF H, k
  <2>12. Cardinality((UNION H) \cup S) <= p + n
    BY <2>6, <2>7, <2>8, <2>10, <2>11
  <2>13. Good(G)
    BY <2>2, <2>5, <2>10, <2>12
  <2> QED BY <1>5, <2>13
<1> QED BY <1>6, <1>7

\* Naming things does not make them more.
LEMMA ImageBound ==
  ASSUME NEW S, IsFiniteSet(S), NEW f, DOMAIN f = S
  PROVE  /\ IsFiniteSet({f[x] : x \in S})
         /\ Cardinality({f[x] : x \in S}) <= Cardinality(S)
<1> DEFINE T == {f[x] : x \in S}
           g == [x \in S |-> f[x]]
<1>1. g \in Surjection(S, T)
  BY DEF Surjection
<1> QED BY <1>1, FS_Surjection

\* min_absend_fileid returns ids the level does not have, and no more of them
\* than it was asked for.
LEMMA AbsentIdsFacts ==
  ASSUME NEW l, IsFiniteSet(Names(l)), NEW m \in Nat
  PROVE  /\ AbsentIds(l, m) \subseteq Nat \ Names(l)
         /\ IsFiniteSet(AbsentIds(l, m)) /\ Cardinality(AbsentIds(l, m)) <= m
<1> DEFINE free     == (1..(Cardinality(Names(l)) + m)) \ Names(l)
           below(i) == {j \in free : j < i}
           ids      == AbsentIds(l, m)
<1>1. ids = {i \in free : Cardinality(below(i)) < m}
  BY DEF AbsentIds
<1>2. IsFiniteSet(free) /\ free \subseteq Nat
  <2>1. Cardinality(Names(l)) + m \in Int
    BY FS_CardinalityType
  <2>2. IsFiniteSet(1..(Cardinality(Names(l)) + m))
    BY <2>1, FS_Interval
  <2>3. free \subseteq 1..(Cardinality(Names(l)) + m) /\ free \subseteq Nat
    BY <2>1
  <2> QED BY <2>2, <2>3, FS_Subset
<1> HIDE DEF free
<1>3. ids \subseteq Nat \ Names(l)
  BY <1>1, <1>2 DEF free
<1>4. IsFiniteSet(ids) /\ Cardinality(ids) \in Nat
  BY <1>1, <1>2, FS_Subset, FS_CardinalityType
<1>5. CASE ids = {}
  BY <1>3, <1>4, <1>5, FS_EmptySet
<1>6. CASE ids # {}
  <2>1. PICK i \in ids : \A j \in ids : i >= j
    BY <1>3, <1>4, <1>6, GreatestExists
  <2>2. ids \ {i} \subseteq below(i)
    <3>1. \A j \in ids : j \in free /\ j \in Nat
      BY <1>1, <1>2
    <3> HIDE DEF ids
    <3> QED BY <2>1, <3>1
  <2>3. IsFiniteSet(below(i))
    BY <1>2, FS_Subset
  <2>4. Cardinality(ids \ {i}) <= Cardinality(below(i))
    BY <2>2, <2>3, FS_Subset
  <2>5. Cardinality(ids \ {i}) = Cardinality(ids) - 1
    BY <1>4, <2>1, FS_RemoveElement
  <2>6. Cardinality(below(i)) < m /\ Cardinality(below(i)) \in Nat
    BY <1>1, <2>1, <2>3, FS_CardinalityType
  <2> HIDE DEF below, ids
  <2>7. Cardinality(ids) <= m
    BY <1>4, <2>4, <2>5, <2>6
  <2> QED BY <1>3, <1>4, <2>7 DEF ids
<1> QED BY <1>5, <1>6

\* What compact() writes: new ids, the merged entries once each, in order, and
\* no more than a table's worth of them in a file.
LEMMA OutputsFacts ==
  ASSUME SizesAssumption, NEW l, IsFiniteSet(Names(l)), NEW merged \in Table,
         IsFiniteSet(DOMAIN merged), NEW out \in Outputs(l, merged)
  PROVE  /\ DOMAIN out \subseteq Nat \ Names(l) /\ IsFiniteSet(DOMAIN out)
         /\ Cardinality(DOMAIN out) <= (Cardinality(DOMAIN merged) + SstSize - 1) \div SstSize
         /\ \A i \in DOMAIN out :
              /\ DOMAIN out[i] \subseteq DOMAIN merged /\ DOMAIN out[i] # {}
              /\ Cardinality(DOMAIN out[i]) <= SstSize
              /\ \A k \in DOMAIN out[i] : out[i][k] = merged[k]
         /\ \A k \in DOMAIN merged : \E i \in DOMAIN out : k \in DOMAIN out[i]
         /\ \A i, j \in DOMAIN out : \A a \in DOMAIN out[i], b \in DOMAIN out[j] :
              /\ i < j => a < b
              /\ a = b => i = j
<1> DEFINE D   == DOMAIN merged
           m   == (Cardinality(D) + SstSize - 1) \div SstSize
           ids == AbsentIds(l, m)
<1>1. PICK c \in Cuts(D, ids) :
        out = [i \in ids |-> [k \in {j \in D : c[j] = i} |-> merged[k]]]
  BY DEF Outputs
<1>2. m \in Nat
  <2>1. Cardinality(D) \in Nat
    BY FS_CardinalityType
  <2> QED BY <2>1 DEF SizesAssumption
<1>3. ids \subseteq Nat \ Names(l) /\ IsFiniteSet(ids) /\ Cardinality(ids) <= m
  <2> HIDE DEF m
  <2> QED BY <1>2, AbsentIdsFacts
<1>4. /\ DOMAIN out = ids
      /\ \A i \in ids : /\ DOMAIN out[i] = {j \in D : c[j] = i}
                        /\ \A k \in DOMAIN out[i] : out[i][k] = merged[k]
  BY <1>1
<1>5. c \in [D -> ids] /\ \A j, k \in D : j < k => c[j] <= c[k]
  BY <1>1 DEF Cuts
<1>6. \A i \in ids : Cardinality(DOMAIN out[i]) <= SstSize /\ DOMAIN out[i] # {}
  <2> TAKE i \in ids
  <2>1. Cardinality(DOMAIN out[i]) \in 1..SstSize
    BY <1>1, <1>4 DEF Cuts, SizesAssumption
  <2>2. Cardinality(DOMAIN out[i]) <= SstSize /\ Cardinality(DOMAIN out[i]) # 0
    BY <2>1 DEF SizesAssumption
  <2>3. DOMAIN out[i] = {} => Cardinality(DOMAIN out[i]) = 0
    BY FS_EmptySet
  <2> QED BY <2>2, <2>3
<1>7. D \subseteq Nat \/ ~KeysAssumption
  BY TableFacts DEF KeysAssumption
<1>8. D \subseteq Nat
  BY <1>7, KeysAssumption
<1> HIDE DEF D, ids, m
<1>9. \A k \in D : c[k] \in ids /\ k \in DOMAIN out[c[k]]
  BY <1>4, <1>5
<1>10. \A i, j \in ids : \A a \in DOMAIN out[i], b \in DOMAIN out[j] :
         /\ i < j => a < b
         /\ a = b => i = j
  <2> TAKE i, j \in ids
  <2> TAKE a \in DOMAIN out[i], b \in DOMAIN out[j]
  <2>1. a \in D /\ b \in D /\ c[a] = i /\ c[b] = j /\ a \in Nat /\ b \in Nat
    BY <1>4, <1>8
  <2>2. i \in Nat /\ j \in Nat
    BY <1>3
  <2> QED BY <1>5, <2>1, <2>2
<1> QED BY <1>3, <1>4, <1>6, <1>9, <1>10 DEF D, ids, m

\* Tables of n keys in all need no more than n / SstSize files, rounded up.
LEMMA Ceiling ==
  ASSUME NEW size \in Nat \ {0}, NEW q \in Nat, NEW n \in Nat, n <= size * (q + 1)
  PROVE  (n + size - 1) \div size <= q + 1
<1> DEFINE a == n + size - 1
           m == a \div size
<1>1. a \in Nat /\ m \in Nat
  OBVIOUS
<1>2. size * m <= a
  BY <1>1
<1>3. ASSUME m >= q + 2
      PROVE  FALSE
  <2>1. size * m >= size * (q + 2)
    BY <1>1, <1>3
  <2>2. size * (q + 2) = size * (q + 1) + size
    OBVIOUS
  <2>3. size * (q + 1) \in Nat
    OBVIOUS
  <2> QED BY <1>1, <1>2, <2>1, <2>2, <2>3
<1> HIDE DEF a, m
<1>4. m <= q + 1
  BY <1>1, <1>3
<1> QED BY <1>4 DEF a, m

\* What compact() merges: the victim's entries, and those of the merged files
\* for the keys the victim does not have; tombstones may go in a new level.
LEMMA MergedFacts ==
  ASSUME KeysAssumption, ManiFestTypeOK, NEW l \in Levels, l + 1 \in Levels,
         NEW victim, NEW files \in SUBSET levels_files[l + 1]
  PROVE  LET own    == disk[l][victim.name]
             merged == Merged(l, victim, files)
             with(k) == {r \in files : k \in DOMAIN disk[l + 1][r.name]}
         IN  /\ DOMAIN merged \subseteq
                  DOMAIN own \cup UNION {DOMAIN disk[l + 1][r.name] : r \in files}
             /\ \A k \in DOMAIN own :
                  IF k \in DOMAIN merged THEN merged[k] = own[k]
                  ELSE NewLevel(l) /\ own[k] = Deleted
             /\ \A k : k \notin DOMAIN own /\ with(k) # {} =>
                  IF k \in DOMAIN merged
                  THEN \E r \in with(k) : merged[k] = disk[l + 1][r.name][k]
                  ELSE NewLevel(l)
<1> DEFINE own      == disk[l][victim.name]
           with(k)  == {r \in files : k \in DOMAIN disk[l + 1][r.name]}
           first(k) == CHOOSE r \in with(k) : \A s \in with(k) \ {r} : RecordBefore(r, s)
           all      == DOMAIN own \cup UNION {DOMAIN disk[l + 1][r.name] : r \in files}
           entry(k) == IF k \in DOMAIN own THEN own[k] ELSE disk[l + 1][first(k).name][k]
           kept     == {k \in all : ~(NewLevel(l) /\ entry(k) = Deleted)}
           merged   == Merged(l, victim, files)
<1>1. merged = [k \in kept |-> entry(k)]
  BY DEF Merged
<1>2. files \subseteq Record
  BY DEF ManiFestTypeOK
<1> HIDE DEF merged, entry
<1>3. DOMAIN merged = kept /\ \A k \in kept : merged[k] = entry(k)
  BY <1>1
<1>4. \A k \in DOMAIN own : k \in all /\ entry(k) = own[k]
  BY DEF entry
<1>5. ASSUME NEW k, k \notin DOMAIN own, with(k) # {}
      PROVE  k \in all /\ \E r \in with(k) : entry(k) = disk[l + 1][r.name][k]
  <2>1. k \in all
    BY <1>5
  <2>2. with(k) \in SUBSET Record
    BY <1>2
  <2>3. first(k) \in with(k)
    <3> HIDE DEF with
    <3> QED BY <1>5, <2>2, FirstRecord
  <2>4. entry(k) = disk[l + 1][first(k).name][k]
    BY <1>5 DEF entry
  <2> HIDE DEF with, first
  <2> QED BY <2>1, <2>3, <2>4
<1>6. ASSUME NEW k, k \notin DOMAIN own, with(k) # {}
      PROVE  IF k \in DOMAIN merged THEN \E r \in with(k) : merged[k] = disk[l + 1][r.name][k]
             ELSE NewLevel(l)
  <2> HIDE DEF with
  <2> QED BY <1>3, <1>5, <1>6
<1>7. \A k \in DOMAIN own :
         IF k \in DOMAIN merged THEN merged[k] = own[k] ELSE NewLevel(l) /\ own[k] = Deleted
  BY <1>3, <1>4
<1>8. DOMAIN merged \subseteq all
  BY <1>3
<1> QED BY <1>6, <1>7, <1>8 DEF merged

-----------------------------------------------------------------------------
(* Levels within their limits.                                             *)

Within(files) == \A l \in Levels : Cardinality(files[l]) <= Limit(l)

\* One round of put() takes a file from its level and leaves at most one more
\* in the next, because no file has more keys than the code cuts at.
LimitInv ==
  /\ RingInv
  /\ \A l \in Levels : Distinct(levels_files[l]) /\ Distinct(manifest_log.files[l])
  /\ \A l \in Levels : \A i \in DOMAIN disk[l] : Cardinality(DOMAIN disk[l][i]) <= SstSize
  /\ Cardinality(DOMAIN sst) <= SstSize
  /\ Within(manifest_log.files)
  /\ stage \in {"idle", "log", "write"} => Within(levels_files)
  /\ stage = "level" =>
       \A l \in Levels : Cardinality(levels_files[l]) <= Limit(l) + (IF l = lev THEN 1 ELSE 0)

LEMMA LimitType ==
  ASSUME ConstantsOK, NEW l \in Levels
  PROVE  Limit(l) \in Nat
BY DEF ConstantsOK, PowersAssumption, RingAssumption, Levels, Limit

LEMMA TableFinite ==
  ASSUME ConstantsOK, NEW t \in Table
  PROVE  IsFiniteSet(DOMAIN t) /\ DOMAIN t \subseteq Nat /\ Cardinality(DOMAIN t) \in Nat
<1>1. DOMAIN t \subseteq Keys
  BY TableFacts
<1> QED BY <1>1, FS_Subset, FS_CardinalityType DEF ConstantsOK, KeysAssumption

LEMMA MergedSize ==
  ASSUME ConstantsOK, LimitInv, NEW l \in Levels, l + 1 \in Levels,
         NEW victim, victim.name \in DOMAIN disk[l],
         NEW files \in SUBSET levels_files[l + 1],
         {r.name : r \in files} \subseteq DOMAIN disk[l + 1]
  PROVE  /\ IsFiniteSet(files) /\ Cardinality(files) \in Nat
         /\ IsFiniteSet(DOMAIN Merged(l, victim, files))
         /\ Cardinality(DOMAIN Merged(l, victim, files)) <= SstSize * (Cardinality(files) + 1)
<1> DEFINE own  == DOMAIN disk[l][victim.name]
           f    == [r \in files |-> DOMAIN disk[l + 1][r.name]]
           F    == {f[r] : r \in files}
           D    == DOMAIN Merged(l, victim, files)
           q    == Cardinality(files)
<1>0. ManiFestTypeOK /\ KeysAssumption /\ SstSize \in Nat
  BY DEF LimitInv, RingInv, TypeInv, ConstantsOK, SizesAssumption
<1>1. IsFiniteSet(files) /\ q \in Nat
  BY FS_Subset, FS_CardinalityType DEF LimitInv, Distinct
<1>2. IsFiniteSet(F) /\ Cardinality(F) <= q /\ Cardinality(F) \in Nat
  <2> HIDE DEF f
  <2>1. DOMAIN f = files
    BY DEF f
  <2> QED BY <1>1, <2>1, ImageBound, FS_CardinalityType
<1>3. \A r \in files : /\ IsFiniteSet(DOMAIN disk[l + 1][r.name])
                       /\ Cardinality(DOMAIN disk[l + 1][r.name]) <= SstSize
  BY <1>0, TableFinite DEF LimitInv, ManiFestTypeOK, IsFiles
<1>4. IsFiniteSet(UNION F) /\ Cardinality(UNION F) <= SstSize * Cardinality(F)
  <2>1. \A S \in F : IsFiniteSet(S) /\ Cardinality(S) <= SstSize
    BY <1>3
  <2> HIDE DEF F
  <2> QED BY <1>0, <1>2, <2>1, UnionBound
<1>5. IsFiniteSet(own) /\ Cardinality(own) <= SstSize /\ Cardinality(own) \in Nat
  BY <1>0, TableFinite DEF LimitInv, ManiFestTypeOK, IsFiles
<1>6. D \subseteq own \cup UNION F
  <2>1. D \subseteq own \cup UNION {DOMAIN disk[l + 1][r.name] : r \in files}
    BY <1>0, MergedFacts
  <2>2. F = {DOMAIN disk[l + 1][r.name] : r \in files}
    OBVIOUS
  <2> QED BY <2>1, <2>2
<1> HIDE DEF own, F, D, q
<1>7. /\ IsFiniteSet(own \cup UNION F)
      /\ Cardinality(own \cup UNION F) <= Cardinality(own) + Cardinality(UNION F)
  <2>1. Cardinality(own \cup UNION F) =
          Cardinality(own) + Cardinality(UNION F) - Cardinality(own \cap UNION F)
    BY <1>4, <1>5, FS_Union
  <2>2. Cardinality(own \cap UNION F) \in Nat /\ Cardinality(UNION F) \in Nat
    BY <1>4, <1>5, FS_Intersection, FS_CardinalityType
  <2> QED BY <1>4, <1>5, <2>1, <2>2, FS_Union
<1>8. /\ IsFiniteSet(D) /\ Cardinality(D) <= Cardinality(own \cup UNION F)
      /\ Cardinality(D) \in Nat /\ Cardinality(UNION F) \in Nat
      /\ Cardinality(own \cup UNION F) \in Nat
  BY <1>4, <1>6, <1>7, FS_Subset, FS_CardinalityType
<1>9. Cardinality(D) <= SstSize * (q + 1)
  <2>1. SstSize * Cardinality(F) <= SstSize * q
    BY <1>0, <1>1, <1>2
  <2>2. SstSize * (q + 1) = SstSize * q + SstSize
    BY <1>0, <1>1
  <2>3. SstSize * q \in Nat /\ SstSize * Cardinality(F) \in Nat
    BY <1>0, <1>1, <1>2
  <2> QED BY <1>0, <1>4, <1>5, <1>7, <1>8, <2>1, <2>2, <2>3
<1> QED BY <1>1, <1>8, <1>9 DEF D, q

LEMMA LimitInit ==
  ASSUME ConstantsOK, ManiFestInit
  PROVE  LimitInv
<1>1. RingInv
  BY RingInit
<1>2. \A l \in Levels : levels_files[l] = {} /\ manifest_log.files[l] = {} /\ DOMAIN disk[l] = {}
  BY DEF ManiFestInit, NoFiles, EmptyLog, NoTable
<1>3. Cardinality({}) = 0 /\ DOMAIN sst = {}
  BY FS_EmptySet DEF ManiFestInit, NoTable
<1>4. \A l \in Levels : Limit(l) \in Nat
  BY LimitType
<1>5. Within(levels_files) /\ Within(manifest_log.files)
  <2>1. \A l \in Levels : /\ Cardinality(levels_files[l]) = 0
                          /\ Cardinality(manifest_log.files[l]) = 0
    BY <1>2, <1>3
  <2> QED BY <1>4, <2>1 DEF Within
<1>6. Cardinality(DOMAIN sst) <= SstSize
  BY <1>3 DEF ConstantsOK, SizesAssumption
<1> QED BY <1>1, <1>2, <1>5, <1>6, EmptyDistinct DEF LimitInv, ManiFestInit

RecordsOf(out) == {RecordOf(i, out[i]) : i \in DOMAIN out}

\* A file of a compaction's output has a record of its own.
LEMMA AddOutputs ==
  ASSUME NEW R, Distinct(R), NEW out, IsFiniteSet(DOMAIN out),
         DOMAIN out \cap NamesOf(R) = {}, NEW files \in SUBSET R, NEW new,
         new = RecordsOf(out), NEW rest, rest = (R \cup new) \ files
  PROVE  /\ Distinct(rest) /\ rest = (R \ files) \cup new
         /\ Cardinality(rest) <= Cardinality(R) - Cardinality(files) + Cardinality(DOMAIN out)
         /\ Cardinality(rest) \in Nat
         /\ Cardinality(R) \in Nat /\ Cardinality(files) \in Nat /\ Cardinality(DOMAIN out) \in Nat
<1> DEFINE f == [i \in DOMAIN out |-> RecordOf(i, out[i])]
<1>1. new = {f[i] : i \in DOMAIN out} /\ DOMAIN f = DOMAIN out
  BY DEF RecordsOf
<1>2. \A i \in DOMAIN out : f[i].name = i
  BY DEF RecordOf
<1> HIDE DEF f
<1>3. IsFiniteSet(new) /\ Cardinality(new) <= Cardinality(DOMAIN out)
  BY <1>1, ImageBound
<1>4. \A r \in new : r.name \in DOMAIN out /\ r = f[r.name]
  BY <1>1, <1>2
<1>5. new \cap R = {}
  BY <1>4 DEF NamesOf
<1>6. rest = (R \ files) \cup new
  BY <1>5
<1>7. /\ IsFiniteSet(R) /\ IsFiniteSet(files) /\ IsFiniteSet(R \ files)
      /\ Cardinality(R \ files) = Cardinality(R) - Cardinality(files)
      /\ Cardinality(R) \in Nat /\ Cardinality(files) \in Nat /\ Cardinality(DOMAIN out) \in Nat
      /\ Cardinality(new) \in Nat
  <2>1. IsFiniteSet(R) /\ IsFiniteSet(files)
    BY FS_Subset DEF Distinct
  <2>2. R \cap files = files
    OBVIOUS
  <2>3. IsFiniteSet(R \ files) /\ Cardinality(R \ files) = Cardinality(R) - Cardinality(R \cap files)
    BY <2>1, FS_Difference
  <2> QED BY <1>3, <2>1, <2>2, <2>3, FS_CardinalityType
<1>8. /\ IsFiniteSet(rest) /\ Cardinality(rest) \in Nat
      /\ Cardinality(rest) <= Cardinality(R \ files) + Cardinality(new)
  <2>1. (R \ files) \cap new = {}
    BY <1>5
  <2>2. Cardinality({}) = 0
    BY FS_EmptySet
  <2>3. Cardinality((R \ files) \cup new) =
          Cardinality(R \ files) + Cardinality(new) - Cardinality((R \ files) \cap new)
    BY <1>3, <1>7, FS_Union
  <2>4. Cardinality((R \ files) \cap new) = 0
    BY <2>1, <2>2
  <2>5. IsFiniteSet(rest) /\ Cardinality(rest) \in Nat
    <3>1. IsFiniteSet((R \ files) \cup new)
      BY <1>3, <1>7, FS_Union
    <3>2. IsFiniteSet(rest)
      BY <1>6, <3>1, Zenon
    <3> QED BY <3>2, FS_CardinalityType
  <2>6. Cardinality(rest) = Cardinality(R \ files) + Cardinality(new)
    <3>1. Cardinality(rest) =
            Cardinality(R \ files) + Cardinality(new) - Cardinality((R \ files) \cap new)
      BY <1>6, <2>3, Zenon
    <3> QED BY <1>7, <2>4, <3>1
  <2>7. Cardinality(R \ files) + Cardinality(new) \in Int
    BY <1>7
  <2> QED BY <2>5, <2>6, <2>7
<1>9. Distinct(rest)
  <2>1. \A r \in R : r.name \in NamesOf(R)
    BY DEF NamesOf
  <2>2. \A r \in R \ files, s \in new : r.name # s.name
    BY <1>4, <2>1
  <2>3. \A r, s \in R \ files : r.name = s.name => r = s
    BY DEF Distinct
  <2>4. \A r, s \in new : r.name = s.name => r = s
    BY <1>4
  <2> QED BY <1>6, <1>8, <2>2, <2>3, <2>4 DEF Distinct
<1> QED BY <1>3, <1>6, <1>7, <1>8, <1>9

\* The sizes of what a compaction leaves.
LEMMA CompactsSizes ==
  ASSUME ConstantsOK, LimitInv, lev < MaxLevel,
         NEW victim, NEW files, NEW out, Compacts(victim, files, out)
  PROVE  /\ IsFiniteSet(files) /\ IsFiniteSet(DOMAIN out)
         /\ Cardinality(DOMAIN out) <= Cardinality(files) + 1
         /\ DOMAIN out \cap NamesOf(levels_files[lev + 1]) = {}
         /\ \A i \in DOMAIN out : Cardinality(DOMAIN out[i]) <= SstSize
<1> DEFINE merged == Merged(lev, victim, files)
<1>0. ManiFestTypeOK
  BY DEF LimitInv, RingInv, TypeInv
<1>1. /\ lev \in Levels /\ lev + 1 \in Levels
      /\ victim \in levels_files[lev] /\ files \in SUBSET levels_files[lev + 1]
  BY <1>0, CompactsTypes
<1>2. /\ victim.name \in DOMAIN disk[lev]
      /\ {r.name : r \in files} \subseteq DOMAIN disk[lev + 1]
      /\ out \in Outputs(lev + 1, merged)
  BY DEF Compacts
<1>3. merged \in Table
  BY <1>0, <1>1, <1>2, MergedTable DEF ConstantsOK
<1>4. /\ IsFiniteSet(files) /\ Cardinality(files) \in Nat
      /\ IsFiniteSet(DOMAIN merged)
      /\ Cardinality(DOMAIN merged) <= SstSize * (Cardinality(files) + 1)
  BY <1>1, <1>2, MergedSize
<1>5. Names(lev + 1) = NamesOf(levels_files[lev + 1]) /\ IsFiniteSet(Names(lev + 1))
  BY <1>1, DistinctCardinality DEF LimitInv, Names, NamesOf
<1> HIDE DEF merged
<1>6. /\ DOMAIN out \subseteq Nat \ Names(lev + 1) /\ IsFiniteSet(DOMAIN out)
      /\ Cardinality(DOMAIN out) <= (Cardinality(DOMAIN merged) + SstSize - 1) \div SstSize
      /\ \A i \in DOMAIN out : Cardinality(DOMAIN out[i]) <= SstSize
  BY <1>2, <1>3, <1>4, <1>5, OutputsFacts DEF ConstantsOK
<1>7. Cardinality(DOMAIN merged) \in Nat /\ Cardinality(DOMAIN out) \in Nat
  BY <1>4, <1>6, FS_CardinalityType
<1>8. SstSize \in Nat \ {0}
  BY DEF ConstantsOK, SizesAssumption
<1>9. (Cardinality(DOMAIN merged) + SstSize - 1) \div SstSize <= Cardinality(files) + 1
  BY <1>4, <1>7, <1>8, Ceiling
<1>10. (Cardinality(DOMAIN merged) + SstSize - 1) \div SstSize \in Int
  BY <1>7, <1>8
<1>11. Cardinality(DOMAIN out) <= Cardinality(files) + 1
  BY <1>4, <1>6, <1>7, <1>9, <1>10
<1> QED BY <1>4, <1>5, <1>6, <1>11

LEMMA LimitCompactLevel ==
  ASSUME ConstantsOK, LimitInv, CompactLevel
  PROVE  LimitInv'
<1>0. RingInv'
  BY RingCompactLevel DEF LimitInv
<1>1. PICK victim, files, out : Compacts(victim, files, out)
  BY CompactLevelPicks
<1>2. /\ lev < MaxLevel /\ stage = "level" /\ lev' = lev + 1
      /\ UNCHANGED <<manifest_log, stage, sst>>
  BY DEF CompactLevel
<1>3. /\ lev \in Levels /\ lev + 1 \in Levels /\ lev + 1 # lev
      /\ victim \in levels_files[lev] /\ files \in SUBSET levels_files[lev + 1]
      /\ levels_files \in [Levels -> SUBSET Record] /\ DOMAIN disk = Levels
  BY <1>1, <1>2, CompactsTypes DEF LimitInv, RingInv, TypeInv, ManiFestTypeOK
<1>4. /\ IsFiniteSet(files) /\ IsFiniteSet(DOMAIN out)
      /\ Cardinality(DOMAIN out) <= Cardinality(files) + 1
      /\ DOMAIN out \cap NamesOf(levels_files[lev + 1]) = {}
      /\ \A i \in DOMAIN out : Cardinality(DOMAIN out[i]) <= SstSize
  BY <1>1, <1>2, CompactsSizes
<1> DEFINE new == RecordsOf(out)
           R   == levels_files[lev + 1]
           R2  == (R \cup new) \ files
<1>5. /\ levels_files'[lev] = levels_files[lev] \ {victim}
      /\ levels_files'[lev + 1] = R2
      /\ \A l \in Levels : l # lev /\ l # lev + 1 => levels_files'[l] = levels_files[l]
  BY <1>1, <1>3 DEF Compacts, RecordsOf
<1>6. /\ Distinct(R2) /\ Cardinality(R2) <= Cardinality(R) + 1
      /\ Cardinality(R2) \in Nat /\ Cardinality(R) \in Nat
  <2>1. Distinct(R)
    BY <1>3 DEF LimitInv
  <2>2. /\ Distinct(R2) /\ Cardinality(R2) <= Cardinality(R) - Cardinality(files) + Cardinality(DOMAIN out)
        /\ Cardinality(R) \in Nat /\ Cardinality(files) \in Nat /\ Cardinality(DOMAIN out) \in Nat
    <3> HIDE DEF R, new
    <3>1. files \in SUBSET R /\ DOMAIN out \cap NamesOf(R) = {}
      BY <1>3, <1>4 DEF R
    <3>2. new = RecordsOf(out)
      BY DEF new
    <3>3. PICK rest : rest = (R \cup new) \ files
      OBVIOUS
    <3>4. /\ Distinct(rest)
          /\ Cardinality(rest) <= Cardinality(R) - Cardinality(files) + Cardinality(DOMAIN out)
          /\ Cardinality(R) \in Nat /\ Cardinality(files) \in Nat
          /\ Cardinality(DOMAIN out) \in Nat
      BY <1>4, <2>1, <3>1, <3>2, <3>3, AddOutputs
    <3> QED BY <3>3, <3>4, Zenon
  <2> HIDE DEF R2, R
  <2>3. Cardinality(R2) \in Nat
    BY <2>2, FS_CardinalityType DEF Distinct
  <2> QED BY <1>4, <2>2, <2>3
<1>7. /\ Distinct(levels_files[lev] \ {victim})
      /\ Cardinality(levels_files[lev] \ {victim}) = Cardinality(levels_files[lev]) - 1
      /\ Cardinality(levels_files[lev]) \in Nat
  BY <1>3, RemoveDistinct, FS_RemoveElement, FS_CardinalityType DEF LimitInv, Distinct
<1>8. \A l \in Levels : Limit(l) \in Nat
  BY LimitType
<1>9. \A l \in Levels : Cardinality(levels_files[l]) <= Limit(l) + (IF l = lev THEN 1 ELSE 0)
  BY <1>2 DEF LimitInv
<1> HIDE DEF R2, new
<1>10. \A l \in Levels : Distinct(levels_files'[l])
  BY <1>3, <1>5, <1>6, <1>7 DEF LimitInv
<1>11. \A l \in Levels :
         Cardinality(levels_files'[l]) <= Limit(l) + (IF l = lev + 1 THEN 1 ELSE 0)
  <2> TAKE l \in Levels
  <2>1. CASE l = lev
    <3>1. Cardinality(levels_files[lev]) <= Limit(lev) + 1 /\ Limit(lev) \in Nat
      BY <1>3, <1>8, <1>9
    <3>2. Cardinality(levels_files'[lev]) = Cardinality(levels_files[lev]) - 1
      BY <1>5, <1>7
    <3> QED BY <1>3, <1>7, <2>1, <3>1, <3>2
  <2>2. CASE l = lev + 1
    <3>1. Cardinality(R) <= Limit(lev + 1) /\ Limit(lev + 1) \in Nat
      BY <1>3, <1>8, <1>9
    <3> QED BY <1>5, <1>6, <2>2, <3>1
  <2>3. CASE l # lev /\ l # lev + 1
    BY <1>5, <1>9, <2>3
  <2> QED BY <2>1, <2>2, <2>3
<1>12. \A l \in Levels : \A i \in DOMAIN disk'[l] : Cardinality(DOMAIN disk'[l][i]) <= SstSize
  <2>1. /\ disk'[lev] = Without(disk[lev], {victim.name})
        /\ disk'[lev + 1] = Without(Overwrite(disk[lev + 1], out), {r.name : r \in files})
        /\ \A l \in Levels : l # lev /\ l # lev + 1 => disk'[l] = disk[l]
    BY <1>1, <1>3 DEF Compacts
  <2> TAKE l \in Levels
  <2>2. CASE l = lev
    BY <2>1, <2>2 DEF Without, LimitInv
  <2>3. CASE l = lev + 1
    BY <1>3, <1>4, <2>1, <2>3 DEF Without, Overwrite, LimitInv
  <2>4. CASE l # lev /\ l # lev + 1
    BY <2>1, <2>4 DEF LimitInv
  <2> QED BY <2>2, <2>3, <2>4
<1> QED BY <1>0, <1>2, <1>10, <1>11, <1>12 DEF LimitInv

LEMMA LimitWriteTable ==
  ASSUME ConstantsOK, LimitInv, WriteTable
  PROVE  LimitInv'
<1>0. RingInv'
  BY RingWriteTable DEF LimitInv
<1>1. PICK i : i = PrevId(insert_file_id)
  OBVIOUS
<1>2. /\ disk' = [disk EXCEPT ![0] = Overwrite(@, [j \in {i} |-> sst])]
      /\ levels_files' = [levels_files EXCEPT ![0] = @ \cup {RecordOf(i, sst)}]
      /\ stage = "write" /\ stage' = "level" /\ lev' = 0 /\ sst' = NoTable
      /\ manifest_log' = manifest_log
  BY <1>1 DEF WriteTable
<1>3. 0 \in Levels /\ levels_files \in [Levels -> SUBSET Record] /\ DOMAIN disk = Levels
  BY DEF LimitInv, RingInv, TypeInv, ManiFestTypeOK, Levels, ConstantsOK, SizesAssumption
<1>4. \A l \in Levels : Limit(l) \in Nat
  BY LimitType
<1>5. PICK r : r = RecordOf(i, sst)
  OBVIOUS
<1>6. /\ levels_files'[0] = levels_files[0] \cup {r}
      /\ \A l \in Levels : l # 0 => levels_files'[l] = levels_files[l]
  BY <1>2, <1>3, <1>5
<1>7. /\ Cardinality(levels_files[0]) \in Nat
      /\ Cardinality(levels_files[0] \cup {r}) <= Cardinality(levels_files[0]) + 1
  <2>1. IsFiniteSet(levels_files[0])
    BY <1>3 DEF LimitInv, Distinct
  <2>2. Cardinality(levels_files[0] \cup {r}) =
          IF r \in levels_files[0] THEN Cardinality(levels_files[0])
          ELSE Cardinality(levels_files[0]) + 1
    BY <2>1, FS_AddElement
  <2> QED BY <2>1, <2>2, FS_CardinalityType
<1>8. \A l \in Levels : Distinct(levels_files'[l]) /\ Distinct(manifest_log'.files[l])
  BY <1>0, <1>2, <1>6 DEF LimitInv, RingInv
<1>9. \A l \in Levels :
        Cardinality(levels_files'[l]) <= Limit(l) + (IF l = 0 THEN 1 ELSE 0)
  <2>1. \A l \in Levels : Cardinality(levels_files[l]) <= Limit(l)
    BY <1>2 DEF LimitInv, Within
  <2>2. Cardinality(levels_files'[0]) \in Nat
    BY <1>3, <1>8, FS_CardinalityType DEF Distinct
  <2> TAKE l \in Levels
  <2>3. CASE l = 0
    <3>1. Cardinality(levels_files[0]) <= Limit(0) /\ Limit(0) \in Nat
      BY <1>3, <1>4, <2>1
    <3>2. Cardinality(levels_files'[0]) <= Cardinality(levels_files[0]) + 1
      BY <1>6, <1>7
    <3> QED BY <1>7, <2>2, <2>3, <3>1, <3>2
  <2>4. CASE l # 0
    BY <1>4, <1>6, <2>1, <2>4
  <2> QED BY <2>3, <2>4
<1>10. \A l \in Levels : \A j \in DOMAIN disk'[l] : Cardinality(DOMAIN disk'[l][j]) <= SstSize
  <2>1. /\ disk'[0] = Overwrite(disk[0], [j \in {i} |-> sst])
        /\ \A l \in Levels : l # 0 => disk'[l] = disk[l]
    BY <1>2, <1>3
  <2>2. \A j \in DOMAIN disk'[0] : Cardinality(DOMAIN disk'[0][j]) <= SstSize
    BY <1>3, <2>1 DEF LimitInv, Overwrite
  <2> QED BY <2>1, <2>2 DEF LimitInv
<1>11. Cardinality(DOMAIN sst') <= SstSize
  BY <1>2, FS_EmptySet DEF NoTable, ConstantsOK, SizesAssumption
<1> QED BY <1>0, <1>2, <1>8, <1>9, <1>10, <1>11 DEF LimitInv

LEMMA LimitStep ==
  ASSUME ConstantsOK, LimitInv, [ManiFestNext]_mvars
  PROVE  LimitInv'
<1>0. RingInv'
  BY RingStep DEF LimitInv
<1>1. ASSUME NEW t \in Flushed, PutTable(t)
      PROVE  LimitInv'
  BY <1>0, <1>1 DEF LimitInv, PutTable, Flushed, Within
<1>2. CASE WriteTable
  BY <1>2, LimitWriteTable
<1>3. CASE CompactLevel
  BY <1>3, LimitCompactLevel
<1>4. CASE NoVictim
  BY <1>0, <1>4 DEF NoVictim, LimitInv, Within
<1>5. CASE CompactThrows
  BY <1>0, <1>5 DEF CompactThrows, LimitInv, Within
<1>6. CASE PutDone
  <2>1. \A l \in Levels : Limit(l) \in Nat /\ Cardinality(levels_files[l]) \in Nat
    BY LimitType, FS_CardinalityType DEF LimitInv, Distinct
  <2>2. /\ stage = "level" /\ ~(Cardinality(levels_files[lev]) > Limit(lev))
        /\ UNCHANGED <<levels_files, disk, sst, manifest_log>>
    BY <1>6 DEF PutDone, Overflows
  <2>3. \A l \in Levels : Cardinality(levels_files[l]) <= Limit(l)
    BY <2>1, <2>2 DEF LimitInv
  <2> QED BY <1>0, <1>6, <2>2, <2>3 DEF PutDone, LimitInv, Within
<1>7. CASE FlushClear
  BY <1>0, <1>7 DEF FlushClear, LimitInv, Within
<1>8. CASE FlushLog
  BY <1>0, <1>8 DEF FlushLog, Snapshot, LimitInv, Within
<1>9. CASE Crash
  BY <1>0, <1>9 DEF Crash, LimitInv, Within
<1>10. CASE Open
  <2>1. DOMAIN NoTable = {} /\ Cardinality({}) = 0 /\ 0 <= SstSize
    BY FS_EmptySet DEF NoTable, ConstantsOK, SizesAssumption
  <2> QED BY <1>0, <1>10, <2>1 DEF Open, LimitInv, Within
<1>11. CASE OpenAborts
  BY <1>0, <1>11 DEF OpenAborts, LimitInv, Within
<1>12. CASE UNCHANGED mvars
  BY <1>0, <1>12 DEF mvars, LimitInv, Within
<1> QED BY <1>1, <1>2, <1>3, <1>4, <1>5, <1>6, <1>7, <1>8, <1>9, <1>10, <1>11, <1>12
       DEF ManiFestNext, ManiFestStep

\* When put() returns every level is within its limit, although it compacts
\* once a level: the file that went down costs the next level at most one
\* more, whatever tombstones and overlaps there were, and a session reopened
\* over manifest.log starts within the limits too.
THEOREM OneRoundIsEnough == ManiFestSpec => []LimitsRestored
<1>1. ConstantsOK
  BY KeysAssumption, EntriesAssumption, SizesAssumption, PowersAssumption, RingAssumption
     DEF ConstantsOK
<1>2. ManiFestInit => LimitInv
  BY <1>1, LimitInit
<1>3. LimitInv /\ [ManiFestNext]_mvars => LimitInv'
  BY <1>1, LimitStep
<1>4. LimitInv => LimitsRestored
  BY DEF LimitInv, LimitsRestored, Within
<1> QED BY <1>2, <1>3, <1>4, PTL DEF ManiFestSpec

-----------------------------------------------------------------------------
(* Files, records and levels agree.                                        *)

Listed(l) == levels_files[l] = {RecordOf(i, disk[l][i]) : i \in DOMAIN disk[l]}
Apart(R)  == \A r, s \in R : r # s => r.max < s.min \/ s.max < r.min

\* Deeper levels are used only once the ring has turned: then level 0 misses
\* one id, which get() does not look at.
Deeper(files) == \E l \in Levels \ {0} : files[l] # {}
Turned(names, id) == names = (1..Ring) \ {id}

TurnedInv ==
  /\ Deeper(manifest_log.files) => Turned(NamesOf(manifest_log.files[0]), manifest_log.id)
  /\ Deeper(levels_files) =>
       /\ stage \in {"idle", "log"} \/ (stage = "level" /\ lev # 0) =>
            Turned(Names(0), insert_file_id)
       /\ stage = "write" => Turned(Names(0), PrevId(insert_file_id))
       /\ stage = "level" /\ lev = 0 => Names(0) = 1..Ring

\* A level without a folder has no files, nor has one below it.
DirsInv ==
  /\ \A l \in Levels : DOMAIN disk[l] # {} => l \in dirs
  /\ \A l, m \in Levels : l < m /\ m \in dirs => l \in dirs

\* The folders hold what the manifest says, in ranges that do not meet, and so
\* they do for the manifest.log of a session that ended between operations.
StoreInv ==
  /\ LimitInv /\ TurnedInv /\ DirsInv
  /\ levels_files[0] # {} \/ stage = "write" => levels_size > 0
  /\ intact =>
       /\ \A l \in Levels : Listed(l)
       /\ \A l \in Levels \ {0} : Apart(levels_files[l])
       /\ stage \in {"down", "aborted"} => manifest_log = Snapshot

-----------------------------------------------------------------------------
(* Where the newest entry of a key is.                                     *)

At(k, l, i) == l \in Levels /\ i \in DOMAIN disk[l] /\ k \in DOMAIN disk[l][i]

\* How long ago the id of a level-0 file was given out.
Age(i) == IF i < insert_file_id THEN insert_file_id - i ELSE insert_file_id - i + Ring

Newer(l, i, m, j) == l < m \/ (l = 0 /\ m = 0 /\ Age(i) < Age(j))

\* The file that get() should find: its entry was stored last.
Leads(k, l, i) ==
  /\ At(k, l, i) /\ disk[l][i][k] = newest[k]
  /\ \A m \in Levels : \A j \in DOMAIN disk[m] :
       At(k, m, j) /\ ~(m = l /\ j = i) => Newer(l, i, m, j)

Settled(k) ==
  \/ /\ k \in DOMAIN newest => newest[k] = Deleted
     /\ \A l \in Levels : \A i \in DOMAIN disk[l] : ~At(k, l, i)
  \/ /\ k \in DOMAIN newest
     /\ \E l \in Levels : \E i \in DOMAIN disk[l] : Leads(k, l, i)

\* Every key is settled, but those of the table put() has not written yet.
NewestInv ==
  /\ StoreInv
  /\ intact => \A k \in Keys :
       IF stage = "write" /\ k \in DOMAIN sst THEN k \in DOMAIN newest /\ newest[k] = sst[k]
       ELSE Settled(k)

-----------------------------------------------------------------------------
(* Records of files.                                                       *)

\* The record of a file has the least and the greatest of its keys.
LEMMA RecordBounds ==
  ASSUME ConstantsOK, NEW i, NEW t \in Table \ {NoTable}, NEW r, r = RecordOf(i, t)
  PROVE  /\ r.name = i /\ r.min \in DOMAIN t /\ r.max \in DOMAIN t
         /\ \A k \in DOMAIN t : k \in Nat /\ r.min <= k /\ k <= r.max
<1>1. DOMAIN t # {} /\ IsFiniteSet(DOMAIN t) /\ DOMAIN t \subseteq Nat
  BY TableFinite, TableFacts DEF NoTable
<1>2. r.name = i /\ r.min = Min(DOMAIN t) /\ r.max = Max(DOMAIN t)
  BY DEF RecordOf
<1>3. /\ Min(DOMAIN t) \in DOMAIN t /\ \A k \in DOMAIN t : Min(DOMAIN t) <= k
      /\ Max(DOMAIN t) \in DOMAIN t /\ \A k \in DOMAIN t : Max(DOMAIN t) >= k
  BY <1>1, MinOf, MaxOf
<1> QED BY <1>1, <1>2, <1>3

LEMMA ListedFacts ==
  ASSUME ConstantsOK, ManiFestTypeOK, NEW l \in Levels, Listed(l)
  PROVE  /\ Names(l) = DOMAIN disk[l]
         /\ \A i \in DOMAIN disk[l] : RecordOf(i, disk[l][i]) \in levels_files[l]
         /\ \A r \in levels_files[l] :
              /\ r.name \in DOMAIN disk[l] /\ r = RecordOf(r.name, disk[l][r.name])
              /\ r.min \in DOMAIN disk[l][r.name] /\ r.max \in DOMAIN disk[l][r.name]
              /\ \A k \in DOMAIN disk[l][r.name] : k \in Nat /\ r.min <= k /\ k <= r.max
<1>1. \A i \in DOMAIN disk[l] : disk[l][i] \in Table \ {NoTable}
  BY DEF ManiFestTypeOK, IsFiles
<1>2. \A i \in DOMAIN disk[l] : RecordOf(i, disk[l][i]) \in levels_files[l]
  BY DEF Listed
<1>3. ASSUME NEW r \in levels_files[l]
      PROVE  /\ r.name \in DOMAIN disk[l] /\ r = RecordOf(r.name, disk[l][r.name])
             /\ r.min \in DOMAIN disk[l][r.name] /\ r.max \in DOMAIN disk[l][r.name]
             /\ \A k \in DOMAIN disk[l][r.name] : k \in Nat /\ r.min <= k /\ k <= r.max
  <2>1. PICK i \in DOMAIN disk[l] : r = RecordOf(i, disk[l][i])
    BY DEF Listed
  <2>2. /\ r.name = i /\ r.min \in DOMAIN disk[l][i] /\ r.max \in DOMAIN disk[l][i]
        /\ \A k \in DOMAIN disk[l][i] : k \in Nat /\ r.min <= k /\ k <= r.max
    BY <1>1, <2>1, RecordBounds
  <2> QED BY <2>1, <2>2
<1>4. \A i \in DOMAIN disk[l] : RecordOf(i, disk[l][i]).name = i
  BY DEF RecordOf
<1>5. Names(l) = DOMAIN disk[l]
  BY <1>2, <1>3, <1>4 DEF Names
<1> QED BY <1>2, <1>3, <1>5

LEMMA RecordsOrdered ==
  ASSUME KeysAssumption, NEW r \in Record, NEW s \in Record, r # s
  PROVE  /\ RecordBefore(r, s) \/ RecordBefore(s, r)
         /\ ~(RecordBefore(r, s) /\ RecordBefore(s, r))
<1>1. /\ r.min \in Nat /\ r.max \in Nat /\ r.name \in Nat
      /\ s.min \in Nat /\ s.max \in Nat /\ s.name \in Nat
  BY DEF Record, KeysAssumption
<1>2. r.name # s.name \/ r.min # s.min \/ r.max # s.max
  BY DEF Record
<1> QED BY <1>1, <1>2 DEF RecordBefore

\* A finite set of records has a last one.
LEMMA LastRecord ==
  ASSUME KeysAssumption, NEW R \in SUBSET Record, R # {}, IsFiniteSet(R)
  PROVE  LastOf(R) \in R /\ \A s \in R \ {LastOf(R)} : RecordBefore(s, LastOf(R))
<1> DEFINE Has(T) == \E r \in T : \A s \in T \ {r} : RecordBefore(s, r)
           Bad    == {T \in SUBSET R : T # {} /\ ~Has(T)}
<1>1. Bad = {}
  <2> SUFFICES ASSUME Bad # {}
               PROVE  FALSE
    OBVIOUS
  <2>1. IsWellFoundedOn(StrictSubsetOrdering(R), SUBSET R)
    BY FS_StrictSubsetOrderingWellFounded, FS_FiniteSubsetsOfFinite
  <2>2. PICK T \in Bad : \A U \in Bad : <<U, T>> \notin StrictSubsetOrdering(R)
    BY <2>1, WFMin
  <2>3. PICK x \in T : TRUE
    OBVIOUS
  <2>4. T \ {x} \notin Bad
    BY <2>2, <2>3 DEF StrictSubsetOrdering
  <2>5. CASE T \ {x} = {}
    BY <2>3, <2>5
  <2>6. CASE Has(T \ {x})
    <3>1. PICK m \in T \ {x} : \A s \in (T \ {x}) \ {m} : RecordBefore(s, m)
      BY <2>6
    <3>2. \A s \in T : s \in Record
      OBVIOUS
    <3>3. CASE RecordBefore(x, m)
      BY <3>1, <3>3
    <3>4. CASE RecordBefore(m, x)
      <4>1. \A s \in (T \ {x}) \ {m} : RecordBefore(s, x)
        <5> TAKE s \in (T \ {x}) \ {m}
        <5>1. RecordBefore(s, m) /\ s \in Record /\ m \in Record /\ x \in Record
          BY <3>1, <3>2
        <5>2. /\ s.min \in Nat /\ s.max \in Nat /\ s.name \in Nat
              /\ m.min \in Nat /\ m.max \in Nat /\ m.name \in Nat
              /\ x.min \in Nat /\ x.max \in Nat /\ x.name \in Nat
          BY <5>1 DEF Record, KeysAssumption
        <5> QED BY <3>4, <5>1, <5>2 DEF RecordBefore
      <4> QED BY <3>4, <4>1
    <3> QED BY <3>2, <3>3, <3>4, RecordsOrdered
  <2> QED BY <2>4, <2>5, <2>6
<1>2. \E r \in R : \A s \in R \ {r} : RecordBefore(s, r)
  BY <1>1
<1> QED BY <1>2 DEF LastOf

-----------------------------------------------------------------------------
(* Which files of the next level compact() takes.                          *)

\* The merged files are neighbours: a file of the next level that is not taken
\* lies below everything that is merged, or above it, if the victim meets no
\* file that was left out.
LEMMA LeftOutApart ==
  ASSUME ConstantsOK, ManiFestTypeOK, NEW l \in Levels, l + 1 \in Levels, Listed(l + 1),
         Apart(levels_files[l + 1]), IsFiniteSet(levels_files[l + 1]),
         NEW victim \in Record, NEW files, files = CrossIntersect(l, victim),
         Overlapping(l, victim) \subseteq files,
         NEW s \in levels_files[l + 1] \ files
  PROVE  \/ s.max < victim.min /\ \A r \in files : s.max < r.min
         \/ victim.max < s.min /\ \A r \in files : r.max < s.min
<1> DEFINE next    == levels_files[l + 1]
           below   == {r \in next : r.min < victim.min \/ (r.min = victim.min /\ r.max < victim.max)}
           from    == LastOf(below)
           upto(r) == {u \in next : (u = from \/ RecordBefore(from, u)) /\ RecordBefore(u, r)}
<1>1. \A r \in next : /\ r \in Record /\ r.min \in Nat /\ r.max \in Nat /\ r.name \in Nat
                      /\ r.min <= r.max /\ ~RecordBefore(r, r)
  <2>1. \A r \in next : r \in Record /\ r.min \in Nat /\ r.max \in Nat /\ r.min <= r.max
    BY ListedFacts DEF ManiFestTypeOK
  <2> QED BY <2>1 DEF Record, RecordBefore
<1>2. victim.min \in Nat /\ victim.max \in Nat
  BY DEF Record, ConstantsOK, KeysAssumption
<1>3. s.max < victim.min \/ victim.max < s.min
  BY <1>1, <1>2 DEF Overlapping
<1>4. files = IF below = {} THEN {}
              ELSE {r \in next : /\ r = from \/ RecordBefore(from, r)
                                 /\ \A u \in upto(r) : u.max < victim.max}
  BY DEF CrossIntersect
<1>5. CASE below = {}
  BY <1>3, <1>4, <1>5
<1>6. CASE below # {}
  <2>1. below \in SUBSET Record /\ IsFiniteSet(below)
    BY <1>1, FS_Subset
  <2>2. from \in below
    <3> HIDE DEF below
    <3> QED BY <1>6, <2>1, LastRecord DEF ConstantsOK
  <2>3. from \in next /\ from.min <= victim.min /\ s \in next
    BY <1>1, <1>2, <2>2
  <2> HIDE DEF next, below, from
  <2>4. \A r \in files : /\ r \in next /\ (r = from \/ RecordBefore(from, r))
                         /\ \A u \in upto(r) : u.max < victim.max
    BY <1>4, <1>6
  <2>5. \A r \in files : from.min <= r.min
    BY <1>1, <2>3, <2>4 DEF RecordBefore
  <2>6. Apart(next)
    BY DEF next
  <2>7. CASE RecordBefore(s, from)
    <3>1. s # from /\ s.min <= from.min
      BY <1>1, <2>3, <2>7 DEF RecordBefore
    <3>2. s.max < from.min
      BY <1>1, <2>3, <2>6, <3>1 DEF Apart
    <3> QED BY <1>1, <1>2, <2>3, <2>4, <2>5, <3>2
  <2>8. CASE s = from
    <3>1. upto(s) = {}
      BY <1>1, <2>3, <2>8 DEF RecordBefore, Record
    <3> QED BY <1>4, <1>6, <2>3, <2>8, <3>1
  <2>9. CASE s # from /\ RecordBefore(from, s)
    <3>1. PICK u \in upto(s) : ~(u.max < victim.max)
      BY <1>4, <1>6, <2>3, <2>9
    <3>2. u \in next /\ RecordBefore(u, s) /\ u # s
      BY <1>1, <2>3, <3>1 DEF RecordBefore
    <3>3. u.max < s.min
      BY <1>1, <2>3, <2>6, <3>2 DEF Apart, RecordBefore
    <3>4. victim.max < s.min
      BY <1>1, <1>2, <2>3, <3>1, <3>2, <3>3
    <3>5. ASSUME NEW r \in files
          PROVE  r.max < s.min
      <4>1. r \in next /\ r # s
        BY <2>4
      <4>2. CASE s.max < r.min
        <5>1. u.min < r.min
          BY <1>1, <2>3, <3>2, <3>3, <4>1, <4>2
        <5>2. u \in upto(r)
          BY <3>1, <5>1 DEF RecordBefore
        <5> QED BY <2>4, <3>1, <5>2
      <4> QED BY <2>3, <2>6, <4>1, <4>2 DEF Apart
    <3> QED BY <3>4, <3>5
  <2>10. s \in Record /\ from \in Record
    BY <1>1, <2>3
  <2> QED BY <2>7, <2>8, <2>9, <2>10, RecordsOrdered DEF ConstantsOK
<1> QED BY <1>5, <1>6

-----------------------------------------------------------------------------
(* What a compaction leaves in the folders and in the manifest.            *)

LEMMA CompactsFiles ==
  ASSUME ConstantsOK, LimitInv, lev < MaxLevel, NEW l, l = lev, NEW m, m = lev + 1, Listed(m),
         NEW victim, NEW files, NEW out, Compacts(victim, files, out)
  PROVE  /\ l \in Levels /\ m \in Levels /\ m = l + 1 /\ l # m
         /\ victim \in levels_files[l] /\ victim.name \in DOMAIN disk[l]
         /\ files \in SUBSET levels_files[m] /\ files = CrossIntersect(l, victim)
         /\ NamesOf(files) \subseteq DOMAIN disk[m]
         /\ IsFiles(out) /\ DOMAIN out \cap DOMAIN disk[m] = {}
         /\ levels_files'[l] = levels_files[l] \ {victim}
         /\ levels_files'[m] = (levels_files[m] \ files) \cup RecordsOf(out)
         /\ DOMAIN disk'[l] = DOMAIN disk[l] \ {victim.name}
         /\ \A i \in DOMAIN disk'[l] : disk'[l][i] = disk[l][i]
         /\ DOMAIN disk'[m] = (DOMAIN disk[m] \ NamesOf(files)) \cup DOMAIN out
         /\ \A i \in DOMAIN out : disk'[m][i] = out[i]
         /\ \A i \in DOMAIN disk[m] \ NamesOf(files) : disk'[m][i] = disk[m][i]
         /\ \A n \in Levels \ {l, m} : levels_files'[n] = levels_files[n] /\ disk'[n] = disk[n]
<1>1. /\ l \in Levels /\ m \in Levels /\ m = l + 1 /\ l # m /\ ManiFestTypeOK
      /\ victim \in levels_files[l] /\ files \in SUBSET levels_files[m] /\ IsFiles(out)
      /\ levels_files \in [Levels -> SUBSET Record] /\ DOMAIN disk = Levels
  BY CompactsTypes DEF LimitInv, RingInv, TypeInv, ManiFestTypeOK
<1>2. /\ IsFiniteSet(DOMAIN out)
      /\ DOMAIN out \cap NamesOf(levels_files[m]) = {}
  BY CompactsSizes
<1>3. NamesOf(levels_files[m]) = DOMAIN disk[m]
  BY <1>1, ListedFacts DEF Names, NamesOf
<1>4. /\ victim.name \in DOMAIN disk[l] /\ NamesOf(files) \subseteq DOMAIN disk[m]
      /\ files = CrossIntersect(l, victim)
  BY DEF Compacts, NamesOf
<1>5. PICK gone : gone = NamesOf(files)
  OBVIOUS
<1>6. /\ disk' = [disk EXCEPT ![l] = Without(disk[l], {victim.name}),
                              ![m] = Without(Overwrite(disk[m], out), gone)]
      /\ levels_files' = [levels_files EXCEPT ![l] = levels_files[l] \ {victim},
                                              ![m] = (levels_files[m] \cup RecordsOf(out)) \ files]
  BY <1>1, <1>5 DEF Compacts, NamesOf, RecordsOf
<1>7. /\ levels_files'[l] = levels_files[l] \ {victim}
      /\ levels_files'[m] = (levels_files[m] \cup RecordsOf(out)) \ files
      /\ disk'[l] = Without(disk[l], {victim.name})
      /\ disk'[m] = Without(Overwrite(disk[m], out), gone)
      /\ \A n \in Levels \ {l, m} : levels_files'[n] = levels_files[n] /\ disk'[n] = disk[n]
  BY <1>1, <1>6
<1>8. levels_files'[m] = (levels_files[m] \ files) \cup RecordsOf(out)
  <2>1. \A r \in RecordsOf(out) : r.name \in DOMAIN out
    BY DEF RecordsOf, RecordOf
  <2>2. \A r \in files : r.name \notin DOMAIN out
    BY <1>1, <1>2 DEF NamesOf
  <2> QED BY <1>7, <2>1, <2>2
<1>9. /\ DOMAIN disk'[l] = DOMAIN disk[l] \ {victim.name}
      /\ \A i \in DOMAIN disk'[l] : disk'[l][i] = disk[l][i]
  BY <1>7 DEF Without
<1>10. /\ DOMAIN disk'[m] = (DOMAIN disk[m] \ gone) \cup DOMAIN out
       /\ \A i \in DOMAIN out : disk'[m][i] = out[i]
       /\ \A i \in DOMAIN disk[m] \ gone : disk'[m][i] = disk[m][i]
  BY <1>2, <1>3, <1>4, <1>5, <1>7 DEF Without, Overwrite
<1> QED BY <1>1, <1>2, <1>3, <1>4, <1>5, <1>7, <1>8, <1>9, <1>10

\* The tables of the output, in terms of what was merged.
LEMMA CompactsTables ==
  ASSUME ConstantsOK, LimitInv, lev < MaxLevel, NEW l, l = lev, NEW m, m = lev + 1, Listed(m),
         NEW victim, NEW files, NEW out, Compacts(victim, files, out),
         NEW merged, merged = Merged(l, victim, files)
  PROVE  /\ \A i \in DOMAIN out :
              /\ DOMAIN out[i] \subseteq DOMAIN merged /\ DOMAIN out[i] # {}
              /\ \A k \in DOMAIN out[i] : out[i][k] = merged[k]
         /\ \A k \in DOMAIN merged : \E i \in DOMAIN out : k \in DOMAIN out[i]
         /\ \A i, j \in DOMAIN out : \A a \in DOMAIN out[i], b \in DOMAIN out[j] :
              /\ i < j => a < b
              /\ a = b => i = j
<1>1. /\ l \in Levels /\ m \in Levels /\ m = l + 1 /\ ManiFestTypeOK
      /\ victim \in levels_files[l] /\ victim.name \in DOMAIN disk[l]
      /\ files \in SUBSET levels_files[m] /\ {r.name : r \in files} \subseteq DOMAIN disk[m]
  BY CompactsFiles DEF LimitInv, RingInv, TypeInv, NamesOf
<1>2. merged \in Table /\ IsFiniteSet(DOMAIN merged)
  BY <1>1, MergedTable, TableFinite DEF ConstantsOK
<1>3. IsFiniteSet(Names(m))
  BY <1>1, DistinctCardinality DEF LimitInv, Names, NamesOf
<1>4. out \in Outputs(m, merged)
  BY <1>1 DEF Compacts
<1> QED BY <1>2, <1>3, <1>4, OutputsFacts DEF ConstantsOK

LEMMA CompactsListed ==
  ASSUME ConstantsOK, LimitInv, lev < MaxLevel, NEW l, l = lev, NEW m, m = lev + 1,
         \A n \in Levels : Listed(n),
         NEW victim, NEW files, NEW out, Compacts(victim, files, out)
  PROVE  \A n \in Levels : Listed(n)'
<1>0. m \in Levels /\ l \in Levels /\ ManiFestTypeOK
  BY CompactsTypes DEF LimitInv, RingInv, TypeInv
<1>1. /\ victim \in levels_files[l] /\ victim.name \in DOMAIN disk[l]
      /\ files \in SUBSET levels_files[m] /\ NamesOf(files) \subseteq DOMAIN disk[m]
      /\ DOMAIN out \cap DOMAIN disk[m] = {}
      /\ levels_files'[l] = levels_files[l] \ {victim}
      /\ levels_files'[m] = (levels_files[m] \ files) \cup RecordsOf(out)
      /\ DOMAIN disk'[l] = DOMAIN disk[l] \ {victim.name}
      /\ \A i \in DOMAIN disk'[l] : disk'[l][i] = disk[l][i]
      /\ DOMAIN disk'[m] = (DOMAIN disk[m] \ NamesOf(files)) \cup DOMAIN out
      /\ \A i \in DOMAIN out : disk'[m][i] = out[i]
      /\ \A i \in DOMAIN disk[m] \ NamesOf(files) : disk'[m][i] = disk[m][i]
      /\ \A n \in Levels \ {l, m} : levels_files'[n] = levels_files[n] /\ disk'[n] = disk[n]
  BY <1>0, CompactsFiles
<1>2. \A n \in {l, m} : \A r \in levels_files[n] :
        r.name \in DOMAIN disk[n] /\ r = RecordOf(r.name, disk[n][r.name])
  BY <1>0, ListedFacts
<1>3. \A i, t : RecordOf(i, t).name = i
  BY DEF RecordOf
<1>4. \A n \in {l, m} : \A i \in DOMAIN disk[n] : RecordOf(i, disk[n][i]) \in levels_files[n]
  BY <1>0, ListedFacts
<1>5. levels_files'[l] = {RecordOf(i, disk'[l][i]) : i \in DOMAIN disk'[l]}
  <2>1. \A r \in levels_files'[l] : r.name \in DOMAIN disk'[l] /\ r = RecordOf(r.name, disk'[l][r.name])
    <3> TAKE r \in levels_files'[l]
    <3>1. r \in levels_files[l] /\ r # victim
      BY <1>1
    <3>2. r.name # victim.name
      BY <1>1, <1>2, <3>1
    <3> QED BY <1>1, <1>2, <3>1, <3>2
  <2>2. \A i \in DOMAIN disk'[l] : RecordOf(i, disk'[l][i]) \in levels_files'[l]
    BY <1>1, <1>3, <1>4
  <2> QED BY <2>1, <2>2
<1>6. levels_files'[m] = {RecordOf(i, disk'[m][i]) : i \in DOMAIN disk'[m]}
  <2>1. \A r \in levels_files'[m] : r.name \in DOMAIN disk'[m] /\ r = RecordOf(r.name, disk'[m][r.name])
    <3> TAKE r \in levels_files'[m]
    <3>1. CASE r \in levels_files[m] \ files
      <4>1. r.name \notin NamesOf(files)
        BY <1>1, <1>2, <3>1 DEF NamesOf
      <4> QED BY <1>1, <1>2, <3>1, <4>1
    <3>2. CASE r \in RecordsOf(out)
      BY <1>1, <1>3, <3>2 DEF RecordsOf
    <3> QED BY <1>1, <3>1, <3>2
  <2>2. \A i \in DOMAIN disk'[m] : RecordOf(i, disk'[m][i]) \in levels_files'[m]
    <3> TAKE i \in DOMAIN disk'[m]
    <3>1. CASE i \in DOMAIN out
      BY <1>1, <3>1 DEF RecordsOf
    <3>2. CASE i \in DOMAIN disk[m] \ NamesOf(files)
      <4>1. RecordOf(i, disk[m][i]) \in levels_files[m] \ files
        BY <1>3, <1>4, <3>2 DEF NamesOf
      <4> QED BY <1>1, <3>2, <4>1
    <3> QED BY <1>1, <3>1, <3>2
  <2> QED BY <2>1, <2>2
<1>7. \A n \in Levels \ {l, m} : levels_files'[n] = {RecordOf(i, disk'[n][i]) : i \in DOMAIN disk'[n]}
  BY <1>1 DEF Listed
<1> QED BY <1>5, <1>6, <1>7 DEF Listed

\* The keys of the files compact() reads.
InputKeys(l, victim, files) ==
  DOMAIN disk[l][victim.name] \cup UNION {DOMAIN disk[l + 1][r.name] : r \in files}

\* What is merged lies on one side of every file that is left out.
LEMMA CompactsBetween ==
  ASSUME ConstantsOK, LimitInv, lev < MaxLevel, NEW l, l = lev, NEW m, m = lev + 1,
         \A n \in Levels : Listed(n), Apart(levels_files[m]),
         NEW victim, NEW files, NEW out, Compacts(victim, files, out),
         Overlapping(l, victim) \subseteq files,
         NEW all, all = InputKeys(l, victim, files)
  PROVE  \A s \in levels_files[m] \ files :
           (\A k \in all : s.max < k) \/ (\A k \in all : k < s.min)
<1>0. m \in Levels /\ l \in Levels /\ m = l + 1 /\ ManiFestTypeOK
  BY CompactsTypes DEF LimitInv, RingInv, TypeInv
<1>1. /\ victim \in levels_files[l] /\ files \in SUBSET levels_files[m]
      /\ files = CrossIntersect(l, victim)
  BY <1>0, CompactsFiles
<1>2. /\ \A r \in levels_files[l] : r \in Record
      /\ \A r \in levels_files[m] : r \in Record
      /\ IsFiniteSet(levels_files[m])
  BY <1>0 DEF ManiFestTypeOK, LimitInv, Distinct
<1>3. /\ \A k \in DOMAIN disk[l][victim.name] : k \in Nat /\ victim.min <= k /\ k <= victim.max
      /\ \A r \in files : \A k \in DOMAIN disk[m][r.name] : k \in Nat /\ r.min <= k /\ k <= r.max
  BY <1>0, <1>1, ListedFacts
<1>4. \A r \in Record : r.min \in Nat /\ r.max \in Nat
  BY DEF Record, ConstantsOK, KeysAssumption
<1> TAKE s \in levels_files[m] \ files
<1>5. \/ s.max < victim.min /\ \A r \in files : s.max < r.min
      \/ victim.max < s.min /\ \A r \in files : r.max < s.min
  BY <1>0, <1>1, <1>2, LeftOutApart
<1>6. /\ victim.min \in Nat /\ victim.max \in Nat /\ s.min \in Nat /\ s.max \in Nat
      /\ \A r \in files : r.min \in Nat /\ r.max \in Nat
  BY <1>1, <1>2, <1>4
<1>7. \A k \in all : \/ k \in DOMAIN disk[l][victim.name]
                     \/ \E r \in files : k \in DOMAIN disk[m][r.name]
  BY <1>0 DEF InputKeys
<1>8. CASE s.max < victim.min /\ \A r \in files : s.max < r.min
  <2>1. ASSUME NEW k \in all
        PROVE  s.max < k
    <3>1. CASE k \in DOMAIN disk[l][victim.name]
      <4>1. k \in Nat /\ victim.min <= k /\ k <= victim.max
        BY <1>3, <3>1
      <4> QED BY <1>6, <1>8, <4>1
    <3>2. ASSUME NEW r \in files, k \in DOMAIN disk[m][r.name]
          PROVE  s.max < k
      <4>1. k \in Nat /\ r.min <= k /\ k <= r.max /\ r.min \in Nat /\ r.max \in Nat
        BY <1>3, <1>6, <3>2
      <4> QED BY <1>6, <1>8, <4>1
    <3> QED BY <1>7, <3>1, <3>2
  <2> QED BY <2>1
<1>9. CASE victim.max < s.min /\ \A r \in files : r.max < s.min
  <2>1. ASSUME NEW k \in all
        PROVE  k < s.min
    <3>1. CASE k \in DOMAIN disk[l][victim.name]
      <4>1. k \in Nat /\ victim.min <= k /\ k <= victim.max
        BY <1>3, <3>1
      <4> QED BY <1>6, <1>9, <4>1
    <3>2. ASSUME NEW r \in files, k \in DOMAIN disk[m][r.name]
          PROVE  k < s.min
      <4>1. k \in Nat /\ r.min <= k /\ k <= r.max /\ r.min \in Nat /\ r.max \in Nat
        BY <1>3, <1>6, <3>2
      <4> QED BY <1>6, <1>9, <4>1
    <3> QED BY <1>7, <3>1, <3>2
  <2> QED BY <2>1
<1> QED BY <1>5, <1>8, <1>9

LEMMA CompactsApart ==
  ASSUME ConstantsOK, LimitInv, lev < MaxLevel, NEW l, l = lev, NEW m, m = lev + 1,
         \A n \in Levels : Listed(n), \A n \in Levels \ {0} : Apart(levels_files[n]),
         NEW victim, NEW files, NEW out, Compacts(victim, files, out),
         Overlapping(l, victim) \subseteq files
  PROVE  \A n \in Levels \ {0} : Apart(levels_files'[n])
<1>0. m \in Levels \ {0} /\ l \in Levels /\ m = l + 1 /\ ManiFestTypeOK
  BY CompactsTypes DEF LimitInv, RingInv, TypeInv, Levels
<1>1. /\ files \in SUBSET levels_files[m] /\ victim \in levels_files[l] /\ IsFiles(out)
      /\ levels_files'[l] = levels_files[l] \ {victim}
      /\ levels_files'[m] = (levels_files[m] \ files) \cup RecordsOf(out)
      /\ \A n \in Levels \ {l, m} : levels_files'[n] = levels_files[n]
  BY <1>0, CompactsFiles
<1>2. PICK merged : merged = Merged(l, victim, files)
  OBVIOUS
<1>3. PICK all : all = InputKeys(l, victim, files)
  OBVIOUS
<1>4. DOMAIN merged \subseteq all
  BY <1>0, <1>1, <1>2, <1>3, MergedFacts DEF ConstantsOK, InputKeys
<1>5. /\ \A i \in DOMAIN out : DOMAIN out[i] \subseteq DOMAIN merged
      /\ \A i, j \in DOMAIN out : \A a \in DOMAIN out[i], b \in DOMAIN out[j] : i < j => a < b
  BY <1>0, <1>2, CompactsTables
<1>6. \A r \in RecordsOf(out) :
        /\ r = RecordOf(r.name, out[r.name]) /\ r.name \in DOMAIN out
        /\ r.min \in DOMAIN out[r.name] /\ r.max \in DOMAIN out[r.name]
  <2> TAKE r \in RecordsOf(out)
  <2>1. PICK i \in DOMAIN out : r = RecordOf(i, out[i])
    BY DEF RecordsOf
  <2>2. out[i] \in Table \ {NoTable}
    BY <1>1 DEF IsFiles
  <2> QED BY <2>1, <2>2, RecordBounds
<1>7. Apart(levels_files[m])
  BY <1>0
<1>8. Apart(levels_files'[m])
  <2> SUFFICES ASSUME NEW r \in levels_files'[m], NEW s \in levels_files'[m], r # s
               PROVE  r.max < s.min \/ s.max < r.min
    BY DEF Apart
  <2>1. \A u \in levels_files[m] \ files : \A v \in RecordsOf(out) :
          u.max < v.min \/ v.max < u.min
    <3> TAKE u \in levels_files[m] \ files
    <3>1. (\A k \in all : u.max < k) \/ (\A k \in all : k < u.min)
      <4>1. \A s_ \in levels_files[m] \ files :
              (\A k \in all : s_.max < k) \/ (\A k \in all : k < s_.min)
        BY <1>3, <1>7, CompactsBetween
      <4> QED BY <4>1
    <3> TAKE v \in RecordsOf(out)
    <3>2. v.min \in all /\ v.max \in all
      BY <1>4, <1>5, <1>6
    <3> QED BY <3>1, <3>2
  <2>2. CASE r \in RecordsOf(out) /\ s \in RecordsOf(out)
    <3>1. r.name # s.name
      BY <1>6, <2>2
    <3>2. r.name \in Nat /\ s.name \in Nat
      BY <1>1, <1>6, <2>2 DEF IsFiles
    <3>3. r.name < s.name \/ s.name < r.name
      BY <3>1, <3>2
    <3> QED BY <1>5, <1>6, <2>2, <3>3
  <2>3. CASE r \in levels_files[m] \ files /\ s \in levels_files[m] \ files
    BY <1>7, <2>3 DEF Apart
  <2> QED BY <1>1, <2>1, <2>2, <2>3
<1>9. \A n \in Levels \ {0, m} : Apart(levels_files'[n])
  BY <1>0, <1>1 DEF Apart
<1> QED BY <1>8, <1>9

\* At level 0 put() merges the oldest file of a full ring.
LEMMA OldestVictim ==
  ASSUME ConstantsOK, RingInv, stage = "level", Overflows, lev = 0, NEW victim \in Victims(0)
  PROVE  Names(0) = 1..Ring /\ victim.name = insert_file_id /\ victim \in levels_files[0]
<1> DEFINE id == insert_file_id
           R  == levels_files[0]
<1>1. id \in 1..Ring /\ Ring \in Nat
  BY DEF RingInv, TypeInv, ManiFestTypeOK, ConstantsOK, RingAssumption
<1>2. NamesOf(R) = 1..PrevId(id) \/ NamesOf(R) = 1..Ring
  BY DEF RingInv, Names, NamesOf
<1>3. PrevId(id) \in 0..Ring /\ Ring \in 0..Ring
  BY <1>1 DEF PrevId
<1>4. Cardinality(R) > Level0Limit
  BY DEF Overflows, Limit
<1>5. Distinct(R)
  BY DEF RingInv
<1>6. NamesOf(R) = 1..Ring
  BY <1>2, <1>3, <1>4, <1>5, FullRing
<1>7. PICK r \in R : r.name = id
  BY <1>1, <1>6 DEF NamesOf
<1>8. victim.name = id /\ victim \in R
  BY <1>7 DEF Victims
<1> QED BY <1>6, <1>8 DEF Names, NamesOf

LEMMA PrevOfNext ==
  ASSUME ConstantsOK, NEW i \in 1..Ring
  PROVE  PrevId(i) \in 1..Ring /\ NextId(i) \in 1..Ring /\ PrevId(NextId(i)) = i
BY DEF PrevId, NextId, ConstantsOK, RingAssumption

LEMMA TurnedCompactLevel ==
  ASSUME ConstantsOK, RingInv, TurnedInv, CompactLevel
  PROVE  TurnedInv'
<1>1. PICK victim, files, out : Compacts(victim, files, out)
  BY CompactLevelPicks
<1>2. /\ lev \in Levels /\ lev + 1 \in Levels /\ lev + 1 # lev /\ lev + 1 # 0
      /\ victim \in levels_files[lev] /\ victim \in Victims(lev)
      /\ levels_files \in [Levels -> SUBSET Record] /\ 0 \in Levels
  <2>1. /\ lev \in Levels /\ lev + 1 \in Levels /\ lev + 1 # lev
        /\ victim \in levels_files[lev]
    BY <1>1, CompactsTypes DEF RingInv, TypeInv, CompactLevel
  <2>2. lev + 1 # 0 /\ 0 \in Levels
    BY <2>1 DEF Levels, ConstantsOK, SizesAssumption
  <2>3. victim \in Victims(lev) /\ levels_files \in [Levels -> SUBSET Record]
    BY <1>1 DEF Compacts, RingInv, TypeInv, ManiFestTypeOK
  <2> QED BY <2>1, <2>2, <2>3
<1>3. /\ UNCHANGED <<insert_file_id, manifest_log, stage>>
      /\ stage = "level" /\ Overflows /\ lev' = lev + 1
  BY DEF CompactLevel
<1>4. PICK rest : levels_files' = [levels_files EXCEPT ![lev]     = levels_files[lev] \ {victim},
                                                     ![lev + 1] = rest]
  BY <1>1, <1>2 DEF Compacts
<1>5. Names(0)' = NamesOf(levels_files'[0]) /\ Names(0) = NamesOf(levels_files[0])
  BY DEF Names, NamesOf
<1>6. Deeper(levels_files') => Turned(Names(0)', insert_file_id)
  <2>1. CASE lev # 0
    <3>1. levels_files'[0] = levels_files[0]
      BY <1>2, <1>4, <2>1
    <3>2. Deeper(levels_files)
      BY <1>2, <2>1 DEF Deeper
    <3> QED BY <1>3, <1>5, <2>1, <3>1, <3>2 DEF TurnedInv
  <2>2. CASE lev = 0
    <3>1. Names(0) = 1..Ring /\ victim.name = insert_file_id
      BY <1>2, <1>3, <2>2, OldestVictim
    <3>2. levels_files'[0] = levels_files[0] \ {victim}
      BY <1>2, <1>4, <2>2
    <3>3. Distinct(levels_files[0])
      BY DEF RingInv
    <3>4. NamesOf(levels_files'[0]) = NamesOf(levels_files[0]) \ {victim.name}
      <4>1. PICK R : R = levels_files[0]
        OBVIOUS
      <4>2. NamesOf(R \ {victim}) = NamesOf(R) \ {victim.name}
        BY <1>2, <2>2, <3>3, <4>1, RemoveDistinct
      <4> QED BY <3>2, <4>1, <4>2
    <3> QED BY <1>5, <3>1, <3>4 DEF Turned
  <2> QED BY <2>1, <2>2
<1> QED BY <1>2, <1>3, <1>6 DEF TurnedInv

LEMMA TurnedStep ==
  ASSUME ConstantsOK, RingInv, TurnedInv, [ManiFestNext]_mvars
  PROVE  TurnedInv'
<1>0. /\ insert_file_id \in 1..Ring /\ 0 \in Levels
      /\ levels_files \in [Levels -> SUBSET Record]
  BY DEF RingInv, TypeInv, ManiFestTypeOK, Levels, ConstantsOK, SizesAssumption
<1>n. /\ Names(0)' = NamesOf(levels_files'[0])
      /\ Names(0) = NamesOf(levels_files[0])
  BY DEF Names, NamesOf
<1>1. ASSUME NEW t \in Flushed, PutTable(t)
      PROVE  TurnedInv'
  <2>1. PrevId(insert_file_id') = insert_file_id
    BY <1>0, <1>1, PrevOfNext DEF PutTable
  <2> QED BY <1>1, <2>1 DEF PutTable, TurnedInv, Names
<1>2. CASE WriteTable
  <2>1. PICK i : i = PrevId(insert_file_id)
    OBVIOUS
  <2>2. i \in 1..Ring
    BY <1>0, <2>1, PrevOfNext
  <2>3. PICK r : r = RecordOf(i, sst)
    OBVIOUS
  <2>4. r.name = i
    BY <2>3 DEF RecordOf
  <2>5. /\ levels_files'[0] = levels_files[0] \cup {r}
        /\ \A l \in Levels \ {0} : levels_files'[l] = levels_files[l]
    BY <1>0, <1>2, <2>1, <2>3 DEF WriteTable
  <2>6. NamesOf(levels_files'[0]) = NamesOf(levels_files[0]) \cup {i}
    BY <2>4, <2>5 DEF NamesOf
  <2>7. Deeper(levels_files') => NamesOf(levels_files[0]) = (1..Ring) \ {i}
    BY <1>2, <1>n, <2>1, <2>5 DEF TurnedInv, Turned, Deeper, WriteTable
  <2>8. Deeper(levels_files') => Names(0)' = 1..Ring
    BY <1>n, <2>2, <2>6, <2>7
  <2> QED BY <1>2, <2>8 DEF TurnedInv, WriteTable
<1>3. CASE CompactLevel
  BY <1>3, TurnedCompactLevel
<1>4. CASE NoVictim
  BY <1>4 DEF NoVictim, TurnedInv
<1>5. CASE CompactThrows
  BY <1>5 DEF CompactThrows, TurnedInv
<1>6. CASE PutDone
  <2>1. lev = 0 => Names(0) # 1..Ring
    <3>1. SUFFICES ASSUME lev = 0, Names(0) = 1..Ring
                   PROVE  FALSE
      OBVIOUS
    <3>2. PICK R : R = levels_files[0]
      OBVIOUS
    <3>3. Distinct(R) /\ NamesOf(R) = 1..Ring
      BY <1>n, <3>1, <3>2 DEF RingInv
    <3>4. Ring \in 0..Ring
      BY DEF ConstantsOK, RingAssumption
    <3>5. Cardinality(R) > Level0Limit
      BY <3>3, <3>4, FullRing
    <3> QED BY <1>6, <3>1, <3>2, <3>5 DEF PutDone, Overflows, Limit
  <2>2. Names(0)' = Names(0)
    BY <1>6 DEF PutDone, Names
  <2> QED BY <1>6, <2>1, <2>2 DEF PutDone, TurnedInv
<1>7. CASE FlushClear
  BY <1>7 DEF FlushClear, TurnedInv, Names
<1>8. CASE FlushLog
  BY <1>8 DEF FlushLog, Snapshot, TurnedInv, Names, NamesOf
<1>9. CASE Crash
  BY <1>9 DEF Crash, TurnedInv
<1>10. CASE Open
  BY <1>10 DEF Open, TurnedInv, Names, NamesOf
<1>11. CASE OpenAborts
  BY <1>11 DEF OpenAborts, TurnedInv
<1>12. CASE UNCHANGED mvars
  BY <1>12 DEF mvars, TurnedInv, Names
<1> QED BY <1>1, <1>2, <1>3, <1>4, <1>5, <1>6, <1>7, <1>8, <1>9, <1>10, <1>11, <1>12
       DEF ManiFestNext, ManiFestStep

LEMMA DirsStep ==
  ASSUME ConstantsOK, LimitInv, DirsInv, [ManiFestNext]_mvars
  PROVE  DirsInv'
<1>0. 0 \in Levels /\ ManiFestTypeOK /\ DOMAIN disk = Levels
  BY DEF LimitInv, RingInv, TypeInv, ManiFestTypeOK, Levels, ConstantsOK, SizesAssumption
<1>1. CASE WriteTable
  <2>1. dirs' = dirs \cup {0} /\ \A l \in Levels \ {0} : disk'[l] = disk[l]
    BY <1>0, <1>1 DEF WriteTable
  <2>2. \A l \in Levels : l >= 0
    BY DEF Levels
  <2> QED BY <1>0, <2>1, <2>2 DEF DirsInv, Levels
<1>2. CASE CompactLevel
  <2>1. PICK victim, files, out : Compacts(victim, files, out)
    BY <1>2, CompactLevelPicks
  <2>2. /\ lev \in Levels /\ lev + 1 \in Levels /\ lev + 1 # lev
        /\ victim.name \in DOMAIN disk[lev] /\ dirs' = dirs \cup {lev + 1}
    BY <1>0, <1>2, <2>1, CompactsTypes DEF CompactLevel, Compacts
  <2>3. lev \in dirs
    BY <2>2 DEF DirsInv
  <2>4. \A l \in Levels \ {lev + 1} : DOMAIN disk'[l] \subseteq DOMAIN disk[l]
    <3>1. PICK rest : disk' = [disk EXCEPT ![lev]     = Without(disk[lev], {victim.name}),
                                           ![lev + 1] = rest]
      BY <1>0, <2>1, <2>2 DEF Compacts
    <3>2. DOMAIN Without(disk[lev], {victim.name}) \subseteq DOMAIN disk[lev]
      BY DEF Without
    <3> QED BY <1>0, <2>2, <3>1, <3>2
  <2>5. \A l \in Levels : DOMAIN disk'[l] # {} => l \in dirs'
    BY <2>2, <2>4 DEF DirsInv
  <2>6. \A l \in Levels : l < lev + 1 => l = lev \/ l < lev
    BY <2>2 DEF Levels
  <2>7. \A l, m \in Levels : l < m /\ m \in dirs' => l \in dirs'
    BY <2>2, <2>3, <2>6 DEF DirsInv
  <2> QED BY <2>5, <2>7 DEF DirsInv
<1>3. ASSUME NEW t \in Flushed, PutTable(t)
      PROVE  DirsInv'
  BY <1>3 DEF PutTable, DirsInv
<1>4. CASE UNCHANGED <<disk, dirs>>
  BY <1>4 DEF DirsInv
<1> QED BY <1>1, <1>2, <1>3, <1>4
       DEF ManiFestNext, ManiFestStep, NoVictim, CompactThrows, PutDone, FlushClear,
           FlushLog, Crash, Open, OpenAborts, mvars

-----------------------------------------------------------------------------
(* The manifest and the folders agree.                                     *)

LEMMA StoreInit ==
  ASSUME ConstantsOK, ManiFestInit
  PROVE  StoreInv
<1>1. LimitInv
  BY LimitInit
<1>2. \A l \in Levels : levels_files[l] = {} /\ manifest_log.files[l] = {} /\ DOMAIN disk[l] = {}
  BY DEF ManiFestInit, NoFiles, EmptyLog, NoTable
<1>3. 0 \in Levels
  BY DEF Levels, ConstantsOK, SizesAssumption
<1>4. TurnedInv
  BY <1>2 DEF TurnedInv, Deeper
<1>5. DirsInv
  BY <1>2 DEF DirsInv, ManiFestInit
<1>6. \A l \in Levels : Listed(l) /\ Apart(levels_files[l])
  BY <1>2 DEF Listed, Apart
<1> QED BY <1>1, <1>2, <1>3, <1>4, <1>5, <1>6 DEF StoreInv, ManiFestInit

LEMMA StoreWriteTable ==
  ASSUME ConstantsOK, StoreInv, intact, WriteTable
  PROVE  /\ \A l \in Levels : Listed(l)'
         /\ \A l \in Levels \ {0} : Apart(levels_files'[l])
<1>1. PICK i : i = PrevId(insert_file_id)
  OBVIOUS
<1>2. ManiFestTypeOK /\ 0 \in Levels /\ RingShape(Names(0), i) /\ i \in 1..Ring
  <2>1. ManiFestTypeOK /\ RingShape(Names(0), i)
    BY <1>1 DEF StoreInv, LimitInv, RingInv, TypeInv, WriteTable
  <2>2. insert_file_id \in 1..Ring
    BY <2>1 DEF ManiFestTypeOK
  <2>3. 0 \in Levels
    BY DEF Levels, ConstantsOK, SizesAssumption
  <2> QED BY <1>1, <2>1, <2>2, <2>3, PrevOfNext
<1>3. /\ levels_files'[0] = levels_files[0] \cup {RecordOf(i, sst)}
      /\ disk'[0] = Overwrite(disk[0], [j \in {i} |-> sst])
      /\ \A l \in Levels \ {0} : levels_files'[l] = levels_files[l] /\ disk'[l] = disk[l]
  BY <1>1, <1>2 DEF WriteTable, ManiFestTypeOK
<1>4. i \notin DOMAIN disk[0]
  <2>1. i \notin Names(0)
    BY <1>2 DEF RingShape, ConstantsOK, RingAssumption
  <2>2. Listed(0)
    BY <1>2 DEF StoreInv
  <2> QED BY <1>2, <2>1, <2>2, ListedFacts
<1>5. /\ DOMAIN disk'[0] = DOMAIN disk[0] \cup {i} /\ disk'[0][i] = sst
      /\ \A j \in DOMAIN disk[0] : disk'[0][j] = disk[0][j]
  BY <1>3, <1>4 DEF Overwrite
<1>6. Listed(0)'
  <2>1. levels_files[0] = {RecordOf(j, disk[0][j]) : j \in DOMAIN disk[0]}
    BY <1>2 DEF StoreInv, Listed
  <2>2. levels_files'[0] = {RecordOf(j, disk'[0][j]) : j \in DOMAIN disk'[0]}
    BY <1>3, <1>4, <1>5, <2>1
  <2> QED BY <2>2 DEF Listed
<1>7. \A l \in Levels \ {0} : Listed(l)' /\ Apart(levels_files'[l])
  BY <1>3 DEF StoreInv, Listed
<1> QED BY <1>6, <1>7

LEMMA StoreCompactLevel ==
  ASSUME ConstantsOK, StoreInv, intact', CompactLevel
  PROVE  /\ \A l \in Levels : Listed(l)'
         /\ \A l \in Levels \ {0} : Apart(levels_files'[l])
<1>1. PICK victim, files, out : Compacts(victim, files, out)
  BY CompactLevelPicks
<1>2. PICK l, m : l = lev /\ m = lev + 1
  OBVIOUS
<1>3. lev < MaxLevel /\ LimitInv
  BY DEF CompactLevel, StoreInv
<1>4. intact /\ Overlapping(l, victim) \subseteq files
  BY <1>1, <1>2 DEF Compacts
<1>5. /\ \A n \in Levels : Listed(n)
      /\ \A n \in Levels \ {0} : Apart(levels_files[n])
  BY <1>4 DEF StoreInv
<1>6. \A n \in Levels : Listed(n)'
  BY <1>1, <1>2, <1>3, <1>5, CompactsListed
<1>7. \A n \in Levels \ {0} : Apart(levels_files'[n])
  BY <1>1, <1>2, <1>3, <1>4, <1>5, CompactsApart
<1> QED BY <1>6, <1>7

LEMMA StoreStep ==
  ASSUME ConstantsOK, StoreInv, [ManiFestNext]_mvars
  PROVE  StoreInv'
<1>1. LimitInv' /\ TurnedInv' /\ DirsInv'
  BY LimitStep, TurnedStep, DirsStep DEF StoreInv, LimitInv
<1>2. 0 \in Levels /\ ManiFestTypeOK /\ levels_size \in Nat
  BY DEF StoreInv, LimitInv, RingInv, TypeInv, ManiFestTypeOK, Levels, ConstantsOK, SizesAssumption
<1>3. ASSUME NEW t \in Flushed, PutTable(t)
      PROVE  StoreInv'
  <2>1. levels_size' \in Nat /\ levels_size' > 0
    BY <1>2, <1>3 DEF PutTable
  <2> QED BY <1>1, <1>3, <2>1 DEF PutTable, StoreInv, Listed, Stages
<1>4. CASE WriteTable
  <2>1. levels_size' > 0
    BY <1>4 DEF WriteTable, StoreInv
  <2>2. intact' => /\ \A l \in Levels : Listed(l)'
                   /\ \A l \in Levels \ {0} : Apart(levels_files'[l])
    BY <1>4, StoreWriteTable DEF WriteTable
  <2> QED BY <1>1, <1>4, <2>1, <2>2 DEF StoreInv, WriteTable
<1>5. CASE CompactLevel
  <2>1. levels_size' > 0
    <3>a. lev \in Nat
      BY <1>2 DEF ManiFestTypeOK, Levels
    <3>1. lev \in Nat /\ IsFiniteSet({levels_size, lev + 2})
      BY <3>a, TwoFinite
    <3>2. levels_size' >= lev + 2 /\ levels_size' \in Nat
      <4>1. {levels_size, lev + 2} \subseteq Int
        BY <1>2, <3>1
      <4>2. Max({levels_size, lev + 2}) >= lev + 2
        BY <3>1, <4>1, MaxOf
      <4>3. levels_size' \in Nat
        BY <1>1 DEF LimitInv, RingInv, TypeInv, ManiFestTypeOK
      <4> QED BY <1>5, <4>2, <4>3 DEF CompactLevel
    <3> QED BY <3>1, <3>2
  <2>2. intact' => /\ \A l \in Levels : Listed(l)'
                   /\ \A l \in Levels \ {0} : Apart(levels_files'[l])
    BY <1>5, StoreCompactLevel
  <2>3. stage' = "level"
    BY <1>5 DEF CompactLevel
  <2> QED BY <1>1, <2>1, <2>2, <2>3 DEF StoreInv
<1>6. CASE NoVictim \/ CompactThrows \/ PutDone \/ FlushClear
  BY <1>1, <1>6 DEF NoVictim, CompactThrows, PutDone, FlushClear, StoreInv, Listed
<1>7. CASE FlushLog
  BY <1>1, <1>7 DEF FlushLog, StoreInv, Listed
<1>8. CASE Crash
  BY <1>1, <1>8 DEF Crash, StoreInv, Listed, Snapshot
<1>9. CASE Open
  <2>1. levels_files'[0] # {} => levels_size' > 0
    <3> SUFFICES ASSUME levels_files'[0] # {}
                 PROVE  levels_size' > 0
      OBVIOUS
    <3>1. PICK used : used = {l \in Levels : manifest_log.files[l] # {}}
      OBVIOUS
    <3>2. 0 \in used /\ used # {}
      BY <1>2, <1>9, <3>1 DEF Open
    <3>3. levels_size' = Max(used) + 1
      BY <1>9, <3>1, <3>2 DEF Open
    <3>4. IsFiniteSet(Levels) /\ Levels \subseteq Int
      BY FS_Interval DEF Levels, ConstantsOK, SizesAssumption
    <3>5. IsFiniteSet(used) /\ used \subseteq Int
      BY <3>1, <3>4, FS_Subset
    <3>6. Max(used) >= 0 /\ Max(used) \in Int
      BY <3>2, <3>5, MaxOf
    <3> QED BY <3>3, <3>6
  <2>2. intact' => levels_files' = levels_files /\ intact /\ disk' = disk
    BY <1>9 DEF Open, StoreInv, Snapshot
  <2>3. stage' = "idle"
    BY <1>9 DEF Open
  <2> QED BY <1>1, <2>1, <2>2, <2>3 DEF StoreInv, Listed
<1>10. CASE OpenAborts
  BY <1>1, <1>10 DEF OpenAborts, StoreInv, Listed, Snapshot
<1>11. CASE UNCHANGED mvars
  BY <1>1, <1>11 DEF mvars, StoreInv, Listed, Snapshot
<1> QED BY <1>3, <1>4, <1>5, <1>6, <1>7, <1>8, <1>9, <1>10, <1>11 DEF ManiFestNext, ManiFestStep

LEMMA StoreAlways == ManiFestSpec => []StoreInv
<1>1. ConstantsOK
  BY KeysAssumption, EntriesAssumption, SizesAssumption, PowersAssumption, RingAssumption
     DEF ConstantsOK
<1>2. ManiFestInit => StoreInv
  BY <1>1, StoreInit
<1>3. StoreInv /\ [ManiFestNext]_mvars => StoreInv'
  BY <1>1, StoreStep
<1> QED BY <1>2, <1>3, PTL DEF ManiFestSpec

\* The manifest lists exactly the files of the folders, under their bounds:
\* the ids compact() gives its outputs are free in the level, and the id of a
\* put is free in the ring, so no file is overwritten while it is listed.  For
\* histories in which no compaction missed a file (CrossIntersectComplete) and
\* no crash left an older manifest over newer folders.
THEOREM ManifestIsTheDisk == ManiFestSpec => []ManifestMatchesDisk
<1>1. StoreInv => ManifestMatchesDisk
  BY DEF StoreInv, ManifestMatchesDisk, Listed
<1> QED BY <1>1, StoreAlways, PTL

\* Below level 0 no two files of a level have a key range in common, as long
\* as every compaction took all the files its victim intersects: the files it
\* takes are neighbours, so what it writes lies where they were.
THEOREM RangesNeverMeet == ManiFestSpec => []LevelsDisjoint
<1>1. StoreInv => LevelsDisjoint
  BY DEF StoreInv, LevelsDisjoint, Apart
<1> QED BY <1>1, StoreAlways, PTL

-----------------------------------------------------------------------------
(* The newest entry of a key leads through every step.                     *)

LEMMA AgeFacts ==
  ASSUME ConstantsOK, NEW id \in 1..Ring, id = insert_file_id
  PROVE  /\ \A i \in 1..Ring : Age(i) \in 1..Ring
         /\ Age(id) = Ring /\ Age(PrevId(id)) = 1
         /\ \A i, j \in 1..Ring : Age(i) = Age(j) => i = j
<1>1. Ring \in Nat /\ id \in Nat /\ 1 <= id /\ id <= Ring
  BY DEF ConstantsOK, RingAssumption
<1>2. \A i \in 1..Ring : Age(i) = IF i < id THEN id - i ELSE id - i + Ring
  BY DEF Age
<1>3. \A i \in 1..Ring : Age(i) \in 1..Ring
  BY <1>1, <1>2
<1>4. Age(id) = Ring
  BY <1>1, <1>2
<1>5. PrevId(id) = (IF id = 1 THEN Ring ELSE id - 1) /\ PrevId(id) \in 1..Ring
  BY <1>1 DEF PrevId
<1>6. Age(PrevId(id)) = 1
  BY <1>1, <1>2, <1>5
<1>7. \A i, j \in 1..Ring : Age(i) = Age(j) => i = j
  BY <1>1, <1>2
<1> QED BY <1>3, <1>4, <1>6, <1>7

\* The files of level 0 are named in the ring.
LEMMA RingFiles ==
  ASSUME ConstantsOK, StoreInv, intact
  PROVE  /\ insert_file_id \in 1..Ring /\ PrevId(insert_file_id) \in 1..Ring
         /\ stage \in {"idle", "write", "log", "level"} => DOMAIN disk[0] \subseteq 1..Ring
         /\ stage \in {"idle", "log"} => insert_file_id \notin DOMAIN disk[0]
         /\ stage = "write" => PrevId(insert_file_id) \notin DOMAIN disk[0]
<1>1. ManiFestTypeOK /\ RingInv
  BY DEF StoreInv, LimitInv, RingInv, TypeInv
<1>2. /\ insert_file_id \in 1..Ring /\ PrevId(insert_file_id) \in 1..Ring
      /\ Ring \in Nat /\ 0 \in Levels
  <2>1. insert_file_id \in 1..Ring
    BY <1>1 DEF ManiFestTypeOK
  <2>2. Ring \in Nat /\ 0 \in Levels
    BY DEF Levels, ConstantsOK, SizesAssumption, RingAssumption
  <2> QED BY <2>1, <2>2, PrevOfNext
<1>3. Names(0) = DOMAIN disk[0]
  BY <1>1, <1>2, ListedFacts DEF StoreInv
<1>4. \A i \in 1..Ring : RingShape(Names(0), i) => Names(0) \subseteq 1..Ring /\ i \notin Names(0)
  BY <1>2 DEF RingShape
<1>5. stage = "level" /\ lev = 0 => Names(0) \subseteq 1..Ring
  BY <1>1, <1>2 DEF RingInv
<1>6. /\ stage \in {"idle", "log"} \/ (stage = "level" /\ lev # 0) =>
           RingShape(Names(0), insert_file_id)
      /\ stage = "write" => RingShape(Names(0), PrevId(insert_file_id))
  BY <1>1 DEF RingInv
<1> QED BY <1>2, <1>3, <1>4, <1>5, <1>6

LEMMA NewestPutTable ==
  ASSUME ConstantsOK, NewestInv, intact, NEW t \in Flushed, PutTable(t),
         NEW k \in Keys
  PROVE  IF k \in DOMAIN t THEN k \in DOMAIN newest' /\ newest'[k] = t[k]
         ELSE Settled(k)'
<1>1. StoreInv /\ stage = "idle" /\ Settled(k)
  BY DEF NewestInv, PutTable
<1>2. /\ insert_file_id \in 1..Ring /\ DOMAIN disk[0] \subseteq (1..Ring) \ {insert_file_id}
      /\ Ring \in Nat
  BY <1>1, RingFiles DEF ConstantsOK, RingAssumption
<1>3. /\ insert_file_id' = NextId(insert_file_id) /\ disk' = disk
      /\ newest' = Overwrite(newest, t)
  BY DEF PutTable
<1>4. ASSUME NEW i \in DOMAIN disk[0]
      PROVE  Age(i)' = Age(i) + 1 /\ Age(i) \in Int
  <2>1. i \in 1..Ring /\ i # insert_file_id
    BY <1>2
  <2>2. insert_file_id' = IF insert_file_id = Ring THEN 1 ELSE insert_file_id + 1
    BY <1>3 DEF NextId
  <2> QED BY <1>2, <2>1, <2>2 DEF Age
<1>5. \A i, j \in DOMAIN disk[0] : Age(i) < Age(j) => Age(i)' < Age(j)'
  BY <1>4
<1>6. CASE k \in DOMAIN t
  BY <1>3, <1>6 DEF Overwrite
<1>7. CASE k \notin DOMAIN t
  <2>1. /\ k \in DOMAIN newest' <=> k \in DOMAIN newest
        /\ k \in DOMAIN newest => newest'[k] = newest[k]
    BY <1>3, <1>7 DEF Overwrite
  <2>2. \A l, i : At(k, l, i)' <=> At(k, l, i)
    BY <1>3 DEF At
  <2>3. CASE /\ k \in DOMAIN newest => newest[k] = Deleted
             /\ \A l \in Levels : \A i \in DOMAIN disk[l] : ~At(k, l, i)
    BY <1>3, <1>7, <2>1, <2>2, <2>3 DEF Settled
  <2>4. ASSUME k \in DOMAIN newest, NEW l \in Levels, NEW i \in DOMAIN disk[l], Leads(k, l, i)
        PROVE  Settled(k)'
    <3>1. ASSUME NEW m \in Levels, NEW j \in DOMAIN disk[m], Newer(l, i, m, j)
          PROVE  Newer(l, i, m, j)'
      BY <1>5, <2>4, <3>1 DEF Newer
    <3>2. Leads(k, l, i)'
      BY <1>3, <2>1, <2>2, <2>4, <3>1 DEF Leads
    <3> QED BY <1>3, <2>1, <2>4, <3>2 DEF Settled
  <2>5. \/ /\ k \in DOMAIN newest => newest[k] = Deleted
           /\ \A l \in Levels : \A i \in DOMAIN disk[l] : ~At(k, l, i)
        \/ k \in DOMAIN newest /\ \E l \in Levels : \E i \in DOMAIN disk[l] : Leads(k, l, i)
    BY <1>1 DEF Settled
  <2>6. Settled(k)'
    BY <1>7, <2>3, <2>4, <2>5
  <2> QED BY <1>7, <2>6
<1> QED BY <1>6, <1>7

LEMMA NewestWriteTable ==
  ASSUME ConstantsOK, NewestInv, intact, WriteTable, NEW k \in Keys
  PROVE  Settled(k)'
<1>1. StoreInv /\ stage = "write"
  BY DEF NewestInv, WriteTable
<1>2. PICK i : i = PrevId(insert_file_id)
  OBVIOUS
<1>3. /\ insert_file_id \in 1..Ring /\ i \in 1..Ring /\ i \notin DOMAIN disk[0]
      /\ DOMAIN disk[0] \subseteq 1..Ring
  BY <1>1, <1>2, RingFiles
<1>4. 0 \in Levels /\ DOMAIN disk = Levels
  BY <1>1 DEF StoreInv, LimitInv, RingInv, TypeInv, ManiFestTypeOK, Levels,
              ConstantsOK, SizesAssumption
<1>5. /\ disk'[0] = Overwrite(disk[0], [j \in {i} |-> sst])
      /\ \A l \in Levels \ {0} : disk'[l] = disk[l]
      /\ insert_file_id' = insert_file_id /\ newest' = newest
  BY <1>2, <1>4 DEF WriteTable
<1>6. /\ DOMAIN disk'[0] = DOMAIN disk[0] \cup {i} /\ disk'[0][i] = sst
      /\ \A j \in DOMAIN disk[0] : disk'[0][j] = disk[0][j]
  BY <1>3, <1>5 DEF Overwrite
<1>7. \A l, a, m, b : Newer(l, a, m, b)' <=> Newer(l, a, m, b)
  BY <1>5 DEF Newer, Age
<1>8. \A l, j : ~(l = 0 /\ j = i) => /\ At(k, l, j)' <=> At(k, l, j)
                                     /\ At(k, l, j) => disk'[l][j] = disk[l][j]
  BY <1>4, <1>5, <1>6 DEF At
<1>9. CASE k \in DOMAIN sst
  <2>1. k \in DOMAIN newest /\ newest[k] = sst[k]
    BY <1>1, <1>9 DEF NewestInv
  <2>2. At(k, 0, i)' /\ disk'[0][i][k] = newest[k]
    BY <1>4, <1>6, <1>9, <2>1 DEF At
  <2>3. \A j \in DOMAIN disk[0] : Age(i) < Age(j)
    <3>1. Age(i) = 1 /\ \A j \in 1..Ring : Age(j) \in 1..Ring /\ (Age(j) = Age(i) => j = i)
      BY <1>2, <1>3, AgeFacts
    <3> TAKE j \in DOMAIN disk[0]
    <3>2. Age(j) \in 1..Ring /\ Age(j) # 1
      BY <1>3, <3>1
    <3> QED BY <3>1, <3>2
  <2>4. ASSUME NEW m \in Levels, NEW j \in DOMAIN disk'[m], ~(m = 0 /\ j = i)
        PROVE  Newer(0, i, m, j)
    <3>1. CASE m = 0
      BY <1>6, <2>3, <2>4, <3>1 DEF Newer
    <3>2. CASE m # 0
      BY <3>2 DEF Newer, Levels
    <3> QED BY <3>1, <3>2
  <2>5. Leads(k, 0, i)'
    BY <1>5, <1>7, <2>2, <2>4 DEF Leads
  <2> QED BY <1>4, <1>5, <1>6, <2>1, <2>5 DEF Settled
<1>10. CASE k \notin DOMAIN sst
  <2>1. ~At(k, 0, i)' /\ ~At(k, 0, i)
    BY <1>3, <1>6, <1>10 DEF At
  <2>2. \A l, j : /\ At(k, l, j)' <=> At(k, l, j)
                  /\ At(k, l, j) => disk'[l][j] = disk[l][j]
    BY <1>8, <2>1
  <2>3. Settled(k)
    BY <1>1, <1>10 DEF NewestInv
  <2>4. CASE /\ k \in DOMAIN newest => newest[k] = Deleted
             /\ \A l \in Levels : \A j \in DOMAIN disk[l] : ~At(k, l, j)
    BY <1>5, <2>2, <2>4 DEF Settled, At
  <2>5. ASSUME k \in DOMAIN newest, NEW l \in Levels, NEW j \in DOMAIN disk[l], Leads(k, l, j)
        PROVE  Settled(k)'
    <3>1. Leads(k, l, j)'
      BY <1>5, <1>7, <2>2, <2>5 DEF Leads, At
    <3> QED BY <1>5, <2>5, <3>1 DEF Settled, Leads, At
  <2> QED BY <2>3, <2>4, <2>5 DEF Settled
<1> QED BY <1>9, <1>10

\* Where the entries of one key go in a compaction of file v of level l with
\* the files in gone of level m: those that are merged go to one output file,
\* all others stay where they are.
Moved(k, l, m, v, gone, out, merged) ==
  /\ \A n, j : At(k, n, j) /\ ~(n = l /\ j = v) /\ ~(n = m /\ j \in gone) =>
       At(k, n, j)' /\ disk'[n][j] = disk[n][j]
  /\ \A n, j : At(k, n, j)' =>
       \/ At(k, n, j) /\ ~(n = l /\ j = v) /\ ~(n = m /\ j \in gone)
       \/ n = m /\ j \in DOMAIN out /\ k \in DOMAIN merged
  /\ \A i \in DOMAIN out : k \in DOMAIN out[i] =>
       At(k, m, i)' /\ disk'[m][i][k] = merged[k]
  /\ \A i, j \in DOMAIN out : At(k, m, i)' /\ At(k, m, j)' => i = j
  /\ k \in DOMAIN merged => \E i \in DOMAIN out : k \in DOMAIN out[i]
  /\ k \in DOMAIN merged => At(k, l, v) \/ \E j \in gone : At(k, m, j)
  /\ \A i, j : At(k, m, i) /\ i \notin gone =>
       ~At(k, l, v) /\ ~(At(k, m, j) /\ j \in gone)

LEMMA CompactsMoves ==
  ASSUME ConstantsOK, StoreInv, intact, lev < MaxLevel, NEW l, l = lev, NEW m, m = lev + 1,
         NEW victim, NEW files, NEW out, Compacts(victim, files, out),
         Overlapping(l, victim) \subseteq files,
         NEW merged, merged = Merged(l, victim, files),
         NEW gone, gone = NamesOf(files), NEW v, v = victim.name, NEW k
  PROVE  Moved(k, l, m, v, gone, out, merged)
<1>0. /\ l \in Levels /\ m \in Levels /\ m = l + 1 /\ l # m /\ LimitInv /\ ManiFestTypeOK
      /\ \A n \in Levels : Listed(n)
      /\ Apart(levels_files[m])
  <2>1. LimitInv /\ ManiFestTypeOK /\ \A n \in Levels : Listed(n)
    BY DEF StoreInv, LimitInv, RingInv, TypeInv
  <2>2. l \in Levels /\ m \in Levels /\ m = l + 1 /\ l # m
    BY <2>1, CompactsTypes
  <2>3. m # 0
    BY <2>2 DEF Levels
  <2> QED BY <2>1, <2>2, <2>3 DEF StoreInv
<1>1. /\ victim \in levels_files[l] /\ v \in DOMAIN disk[l]
      /\ files \in SUBSET levels_files[m] /\ gone \subseteq DOMAIN disk[m]
      /\ IsFiles(out) /\ DOMAIN out \cap DOMAIN disk[m] = {}
      /\ DOMAIN disk'[l] = DOMAIN disk[l] \ {v}
      /\ \A i \in DOMAIN disk'[l] : disk'[l][i] = disk[l][i]
      /\ DOMAIN disk'[m] = (DOMAIN disk[m] \ gone) \cup DOMAIN out
      /\ \A i \in DOMAIN out : disk'[m][i] = out[i]
      /\ \A i \in DOMAIN disk[m] \ gone : disk'[m][i] = disk[m][i]
      /\ \A n \in Levels \ {l, m} : disk'[n] = disk[n]
  BY <1>0, CompactsFiles
<1>2. /\ \A i \in DOMAIN out :
           /\ DOMAIN out[i] \subseteq DOMAIN merged
           /\ \A j \in DOMAIN out[i] : out[i][j] = merged[j]
      /\ \A j \in DOMAIN merged : \E i \in DOMAIN out : j \in DOMAIN out[i]
      /\ \A i, j \in DOMAIN out : \A a \in DOMAIN out[i], b \in DOMAIN out[j] : a = b => i = j
  BY <1>0, CompactsTables
<1>3. PICK all : all = InputKeys(l, victim, files)
  OBVIOUS
<1>4. DOMAIN merged \subseteq all
  BY <1>0, <1>1, <1>3, MergedFacts DEF ConstantsOK, InputKeys
<1>5. k \in all <=> At(k, l, v) \/ \E j \in gone : At(k, m, j)
  <2>1. k \in all <=> k \in DOMAIN disk[l][v] \/ \E r \in files : k \in DOMAIN disk[m][r.name]
    BY <1>0, <1>3 DEF InputKeys
  <2>2. (\E r \in files : k \in DOMAIN disk[m][r.name]) <=> \E j \in gone : k \in DOMAIN disk[m][j]
    BY DEF NamesOf
  <2> QED BY <1>0, <1>1, <2>1, <2>2 DEF At
<1>6. ASSUME NEW i, At(k, m, i), i \notin gone
      PROVE  k \notin all
  <2>1. PICK s : s = RecordOf(i, disk[m][i])
    OBVIOUS
  <2>2. /\ s \in levels_files[m] /\ s.name = i
        /\ k \in Nat /\ s.min <= k /\ k <= s.max
    <3>1. s \in levels_files[m] /\ s.name = i
      BY <1>0, <1>6, <2>1, ListedFacts DEF At, RecordOf
    <3> QED BY <1>0, <1>6, <3>1, ListedFacts DEF At
  <2>3. s \notin files
    BY <1>6, <2>2 DEF NamesOf
  <2>4. s.min \in Nat /\ s.max \in Nat
    <3>1. s \in Record
      BY <1>0, <2>2 DEF ManiFestTypeOK
    <3> QED BY <3>1 DEF Record, ConstantsOK, KeysAssumption
  <2>5. (\A j \in all : s.max < j) \/ (\A j \in all : j < s.min)
    <3>1. \A r \in levels_files[m] \ files :
            (\A j \in all : r.max < j) \/ (\A j \in all : j < r.min)
      BY <1>0, <1>3, CompactsBetween
    <3> QED BY <2>2, <2>3, <3>1
  <2> QED BY <2>2, <2>4, <2>5
<1>7. \A n, j : At(k, n, j) /\ ~(n = l /\ j = v) /\ ~(n = m /\ j \in gone) =>
        At(k, n, j)' /\ disk'[n][j] = disk[n][j]
  BY <1>0, <1>1 DEF At
<1>8. \A n, j : At(k, n, j)' =>
        \/ At(k, n, j) /\ ~(n = l /\ j = v) /\ ~(n = m /\ j \in gone)
        \/ n = m /\ j \in DOMAIN out /\ k \in DOMAIN merged
  <2> SUFFICES ASSUME NEW n, NEW j, At(k, n, j)'
               PROVE  \/ At(k, n, j) /\ ~(n = l /\ j = v) /\ ~(n = m /\ j \in gone)
                      \/ n = m /\ j \in DOMAIN out /\ k \in DOMAIN merged
    OBVIOUS
  <2>1. n \in Levels /\ j \in DOMAIN disk'[n] /\ k \in DOMAIN disk'[n][j]
    BY DEF At
  <2>2. CASE n = l
    BY <1>0, <1>1, <2>1, <2>2 DEF At
  <2>3. CASE n = m /\ j \in DOMAIN out
    BY <1>1, <1>2, <2>1, <2>3
  <2>4. CASE n = m /\ j \notin DOMAIN out
    <3>1. j \in DOMAIN disk[m] \ gone
      BY <1>1, <2>1, <2>4
    <3>2. k \in DOMAIN disk[m][j]
      BY <1>1, <2>1, <2>4, <3>1
    <3> QED BY <1>0, <2>4, <3>1, <3>2 DEF At
  <2>5. CASE n # l /\ n # m
    <3>1. disk'[n] = disk[n]
      BY <1>1, <2>1, <2>5
    <3>2. At(k, n, j)
      BY <2>1, <3>1 DEF At
    <3> QED BY <2>5, <3>2
  <2> QED BY <2>2, <2>3, <2>4, <2>5
<1>9. \A i \in DOMAIN out : k \in DOMAIN out[i] =>
        At(k, m, i)' /\ disk'[m][i][k] = merged[k]
  BY <1>0, <1>1, <1>2 DEF At
<1>10. \A i, j \in DOMAIN out : At(k, m, i)' /\ At(k, m, j)' => i = j
  BY <1>1, <1>2 DEF At
<1> QED BY <1>2, <1>4, <1>5, <1>6, <1>7, <1>8, <1>9, <1>10 DEF Moved

\* A compaction leaves every key settled.  If the victim's file led, what was
\* merged leads, or was a tombstone with nothing below; if a merged file led,
\* the victim does not have the key; any other leader stays where it is, above
\* what was merged.
LEMMA NewestCompactLevel ==
  ASSUME ConstantsOK, NewestInv, intact', CompactLevel, NEW k \in Keys
  PROVE  Settled(k)'
<1>1. PICK victim, files, out : Compacts(victim, files, out)
  BY CompactLevelPicks
<1>2. PICK l, m, v, gone, merged :
        /\ l = lev /\ m = lev + 1 /\ v = victim.name
        /\ gone = NamesOf(files) /\ merged = Merged(l, victim, files)
  OBVIOUS
<1>3. /\ StoreInv /\ stage = "level" /\ lev < MaxLevel /\ Settled(k)
      /\ intact /\ Overlapping(l, victim) \subseteq files
      /\ insert_file_id' = insert_file_id /\ newest' = newest
  BY <1>1, <1>2 DEF NewestInv, CompactLevel, Compacts
<1>4. /\ l \in Levels /\ m \in Levels /\ m = l + 1 /\ ManiFestTypeOK /\ RingInv /\ LimitInv
      /\ l \in Nat
  <2>1. ManiFestTypeOK /\ RingInv /\ LimitInv
    BY <1>3 DEF StoreInv, LimitInv, RingInv, TypeInv
  <2>2. l \in Levels /\ m \in Levels
    BY <1>1, <1>2, <1>3, <2>1, CompactsTypes
  <2> QED BY <1>2, <2>1, <2>2 DEF Levels
<1>5. /\ v \in DOMAIN disk[l] /\ files \in SUBSET levels_files[m]
      /\ gone \subseteq DOMAIN disk[m] /\ victim \in levels_files[l] /\ victim \in Victims(l)
  <2>1. files \in SUBSET levels_files[m] /\ victim \in levels_files[l]
    BY <1>1, <1>2, <1>3, <1>4, CompactsTypes
  <2>2. v \in DOMAIN disk[l] /\ gone \subseteq DOMAIN disk[m] /\ victim \in Victims(l)
    BY <1>1, <1>2 DEF Compacts, NamesOf
  <2> QED BY <2>1, <2>2
<1>6. /\ \A n, j : At(k, n, j) /\ ~(n = l /\ j = v) /\ ~(n = m /\ j \in gone) =>
           At(k, n, j)' /\ disk'[n][j] = disk[n][j]
      /\ \A n, j : At(k, n, j)' =>
           \/ At(k, n, j) /\ ~(n = l /\ j = v) /\ ~(n = m /\ j \in gone)
           \/ n = m /\ j \in DOMAIN out /\ k \in DOMAIN merged
      /\ \A i \in DOMAIN out : k \in DOMAIN out[i] =>
           At(k, m, i)' /\ disk'[m][i][k] = merged[k]
      /\ \A i, j \in DOMAIN out : At(k, m, i)' /\ At(k, m, j)' => i = j
      /\ k \in DOMAIN merged => \E i \in DOMAIN out : k \in DOMAIN out[i]
      /\ k \in DOMAIN merged => At(k, l, v) \/ \E j \in gone : At(k, m, j)
      /\ \A i, j : At(k, m, i) /\ i \notin gone =>
           ~At(k, l, v) /\ ~(At(k, m, j) /\ j \in gone)
  <2>1. Moved(k, l, m, v, gone, out, merged)
    BY <1>1, <1>2, <1>3, CompactsMoves
  <2> QED BY <2>1 DEF Moved
<1>7. /\ At(k, l, v) =>
           IF k \in DOMAIN merged THEN merged[k] = disk[l][v][k]
           ELSE m \notin dirs /\ disk[l][v][k] = Deleted
      /\ ~At(k, l, v) /\ (\E j \in gone : At(k, m, j)) =>
           IF k \in DOMAIN merged
           THEN \E j \in gone : At(k, m, j) /\ merged[k] = disk[m][j][k]
           ELSE m \notin dirs
  <2>1. /\ k \in DOMAIN disk[l][v] =>
             IF k \in DOMAIN merged THEN merged[k] = disk[l][v][k]
             ELSE NewLevel(l) /\ disk[l][v][k] = Deleted
        /\ k \notin DOMAIN disk[l][v] /\ {r \in files : k \in DOMAIN disk[m][r.name]} # {} =>
             IF k \in DOMAIN merged
             THEN \E r \in {r \in files : k \in DOMAIN disk[m][r.name]} :
                    merged[k] = disk[m][r.name][k]
             ELSE NewLevel(l)
    BY <1>2, <1>4, <1>5, MergedFacts DEF ConstantsOK
  <2>2. NewLevel(l) <=> m \notin dirs
    BY <1>4 DEF NewLevel
  <2>3. \A r \in files : r.name \in gone /\ (k \in DOMAIN disk[m][r.name] => At(k, m, r.name))
    BY <1>2, <1>4, <1>5 DEF NamesOf, At
  <2>4. \A j \in gone : At(k, m, j) => \E r \in files : r.name = j /\ k \in DOMAIN disk[m][r.name]
    BY <1>2 DEF NamesOf, At
  <2>5. At(k, l, v) <=> k \in DOMAIN disk[l][v]
    BY <1>4, <1>5 DEF At
  <2> QED BY <2>1, <2>2, <2>3, <2>4, <2>5
<1>8. \A n, a, q, b : Newer(n, a, q, b)' <=> Newer(n, a, q, b)
  BY <1>3 DEF Newer, Age
<1>9. \A n, j : At(k, n, j) => n \in Levels /\ n \in Nat /\ j \in DOMAIN disk[n] /\ n \in dirs
  BY <1>3 DEF At, StoreInv, DirsInv, Levels
<1>10. \A n, j : At(k, n, j)' => n \in Levels /\ j \in DOMAIN disk'[n]
  BY DEF At
\* Nothing at level 0 is older than the victim.
<1>11. \A j : At(k, l, j) => ~Newer(l, v, l, j)
  <2> SUFFICES ASSUME NEW j, At(k, l, j), Newer(l, v, l, j)
               PROVE  FALSE
    OBVIOUS
  <2>1. l = 0 /\ Age(v) < Age(j)
    BY <1>4 DEF Newer
  <2>2. v = insert_file_id
    BY <1>2, <1>3, <1>4, <1>5, <2>1, OldestVictim DEF CompactLevel
  <2>3. insert_file_id \in 1..Ring /\ j \in 1..Ring
    BY <1>3, <1>9, <2>1, RingFiles
  <2>4. Age(v) = Ring /\ Age(j) \in 1..Ring
    BY <2>2, <2>3, AgeFacts
  <2> QED BY <2>1, <2>4 DEF ConstantsOK, RingAssumption
<1>12. \A n, q : n \in Nat /\ q \in Nat /\ n > l /\ n # m => m < n
  BY <1>4
<1>13. m \in Nat /\ m > l /\ l # m /\ m # 0
  BY <1>4
<1>14. CASE /\ k \in DOMAIN newest => newest[k] = Deleted
            /\ \A n \in Levels : \A j \in DOMAIN disk[n] : ~At(k, n, j)
  <2>1. \A n, j : ~At(k, n, j)
    BY <1>9, <1>14
  <2>2. \A n, j : ~At(k, n, j)'
    BY <1>6, <2>1
  <2> QED BY <1>3, <1>14, <2>2 DEF Settled
<1>15. ASSUME k \in DOMAIN newest, NEW n \in Levels, NEW j \in DOMAIN disk[n], Leads(k, n, j)
       PROVE  Settled(k)'
  <2>1. /\ At(k, n, j) /\ disk[n][j][k] = newest[k] /\ n \in Nat
        /\ \A q, b : At(k, q, b) /\ ~(q = n /\ b = j) => Newer(n, j, q, b)
    BY <1>9, <1>15 DEF Leads
  <2>2. ASSUME NEW q, NEW i, At(k, q, i)', disk'[q][i][k] = newest[k],
               \A p, b : At(k, p, b)' /\ ~(p = q /\ b = i) => Newer(q, i, p, b)
        PROVE  Settled(k)'
    <3>1. Leads(k, q, i)'
      BY <1>3, <1>8, <2>2 DEF Leads
    <3> QED BY <1>3, <1>10, <1>15, <2>2, <3>1 DEF Settled
  <2>3. CASE n = l /\ j = v
    <3>1. \A q, b : At(k, q, b) /\ ~(q = l /\ b = v) => q > l /\ q \in Nat
      <4>1. \A q, b : At(k, q, b) /\ ~(q = l /\ b = v) => Newer(l, v, q, b) /\ q \in Nat
        BY <1>9, <2>1, <2>3
      <4>2. \A q, b : At(k, q, b) /\ ~(q = l /\ b = v) => q # l
        BY <1>11, <4>1
      <4> QED BY <1>4, <4>1, <4>2 DEF Newer
    <3>2. \A b : At(k, m, b) => b \in gone
      BY <1>6, <2>1, <2>3
    <3>3. \A q, b : At(k, q, b) /\ ~(q = l /\ b = v) /\ ~(q = m /\ b \in gone) => m < q /\ q \in Nat
      BY <1>4, <1>12, <3>1, <3>2
    <3>4. CASE k \in DOMAIN merged
      <4>1. PICK i \in DOMAIN out : k \in DOMAIN out[i]
        BY <1>6, <3>4
      <4>2. At(k, m, i)' /\ disk'[m][i][k] = newest[k]
        BY <1>6, <1>7, <2>1, <2>3, <3>4, <4>1
      <4>3. \A p, b : At(k, p, b)' /\ ~(p = m /\ b = i) => Newer(m, i, p, b)
        BY <1>6, <3>3, <4>1, <4>2 DEF Newer
      <4> QED BY <2>2, <4>2, <4>3
    <3>5. CASE k \notin DOMAIN merged
      <4>1. m \notin dirs /\ newest[k] = Deleted
        BY <1>7, <2>1, <2>3, <3>5
      <4>2. \A q \in Levels : m < q => q \notin dirs
        BY <1>3, <1>4, <4>1 DEF StoreInv, DirsInv
      <4>3. \A q, b : ~At(k, q, b)'
        BY <1>6, <1>9, <3>3, <3>5, <4>2
      <4> QED BY <1>3, <4>1, <4>3 DEF Settled
    <3> QED BY <3>4, <3>5
  <2>4. CASE n = m /\ j \in gone
    <3>1. \A q, b : At(k, q, b) /\ ~(q = m /\ b = j) => m < q /\ q \in Nat
      BY <1>9, <1>13, <2>1, <2>4 DEF Newer
    <3>2. ~At(k, l, v)
      BY <1>13, <1>4, <3>1
    <3>3. k \in DOMAIN merged
      BY <1>7, <1>9, <2>1, <2>4, <3>2
    <3>4. merged[k] = newest[k]
      <4>1. PICK b \in gone : At(k, m, b) /\ merged[k] = disk[m][b][k]
        BY <1>7, <2>1, <2>4, <3>2, <3>3
      <4>2. b = j
        BY <1>13, <3>1, <4>1
      <4> QED BY <2>1, <2>4, <4>1, <4>2
    <3>5. PICK i \in DOMAIN out : k \in DOMAIN out[i]
      BY <1>6, <3>3
    <3>6. At(k, m, i)' /\ disk'[m][i][k] = newest[k]
      BY <1>6, <3>4, <3>5
    <3>7. \A p, b : At(k, p, b)' /\ ~(p = m /\ b = i) => Newer(m, i, p, b)
      BY <1>6, <2>4, <3>1, <3>5, <3>6 DEF Newer
    <3> QED BY <2>2, <3>6, <3>7
  <2>5. CASE ~(n = l /\ j = v) /\ ~(n = m /\ j \in gone)
    <3>1. At(k, n, j)' /\ disk'[n][j][k] = newest[k]
      BY <1>6, <2>1, <2>5
    <3>2. k \in DOMAIN merged => n < m
      <4>1. At(k, l, v) => n < m
        <5>1. At(k, l, v) => Newer(n, j, l, v)
          BY <2>1, <2>5
        <5> QED BY <1>4, <2>1, <5>1 DEF Newer
      <4>2. \A b \in gone : At(k, m, b) => n < m
        <5>1. \A b \in gone : At(k, m, b) => Newer(n, j, m, b)
          BY <2>1, <2>5
        <5> QED BY <1>13, <5>1 DEF Newer
      <4> QED BY <1>6, <4>1, <4>2
    <3>3. \A p, b : At(k, p, b)' /\ ~(p = n /\ b = j) => Newer(n, j, p, b)
      BY <1>6, <2>1, <3>2 DEF Newer
    <3> QED BY <2>2, <3>1, <3>3
  <2> QED BY <2>3, <2>4, <2>5
<1>16. \/ /\ k \in DOMAIN newest => newest[k] = Deleted
          /\ \A n \in Levels : \A j \in DOMAIN disk[n] : ~At(k, n, j)
       \/ k \in DOMAIN newest /\ \E n \in Levels : \E j \in DOMAIN disk[n] : Leads(k, n, j)
  BY <1>3 DEF Settled
<1> QED BY <1>14, <1>15, <1>16

LEMMA NewestInit ==
  ASSUME ConstantsOK, ManiFestInit
  PROVE  NewestInv
<1>1. StoreInv /\ stage = "idle" /\ DOMAIN newest = {}
  BY StoreInit DEF ManiFestInit, NoTable
<1>2. \A l \in Levels : DOMAIN disk[l] = {}
  BY DEF ManiFestInit, NoTable
<1> QED BY <1>1, <1>2 DEF NewestInv, Settled

LEMMA NewestStep ==
  ASSUME ConstantsOK, NewestInv, [ManiFestNext]_mvars
  PROVE  NewestInv'
<1>1. StoreInv'
  BY StoreStep DEF NewestInv
<1>2. ASSUME NEW t \in Flushed, PutTable(t)
      PROVE  NewestInv'
  <2>1. /\ intact' = intact /\ stage' = "write" /\ sst' = t
    BY <1>2 DEF PutTable
  <2>2. intact => \A k \in Keys : IF k \in DOMAIN t THEN k \in DOMAIN newest' /\ newest'[k] = t[k]
                                  ELSE Settled(k)'
    BY <1>2, NewestPutTable
  <2> QED BY <1>1, <2>1, <2>2 DEF NewestInv
<1>3. CASE WriteTable
  <2>1. intact' = intact /\ stage' = "level"
    BY <1>3 DEF WriteTable
  <2>2. intact => \A k \in Keys : Settled(k)'
    BY <1>3, NewestWriteTable
  <2> QED BY <1>1, <2>1, <2>2 DEF NewestInv
<1>4. CASE CompactLevel
  <2>1. stage' = "level"
    BY <1>4 DEF CompactLevel
  <2>2. intact' => \A k \in Keys : Settled(k)'
    BY <1>4, NewestCompactLevel
  <2> QED BY <1>1, <2>1, <2>2 DEF NewestInv
<1>5. ASSUME UNCHANGED <<insert_file_id, disk, newest>>, intact' => intact,
             intact' => stage # "write" /\ stage' # "write"
      PROVE  NewestInv'
  <2>1. \A k : Settled(k) => Settled(k)'
    BY <1>5 DEF Settled, Leads, Newer, Age, At
  <2> QED BY <1>1, <1>5, <2>1 DEF NewestInv
<1>6. CASE NoVictim \/ CompactThrows \/ PutDone \/ FlushClear \/ FlushLog \/ OpenAborts
  BY <1>5, <1>6 DEF NoVictim, CompactThrows, PutDone, FlushClear, FlushLog, OpenAborts
\* manifest.log never shows the ring as put() leaves it before the file is
\* written, so a crash there loses the put and is known to.
<1>7. CASE Crash
  <2>1. stage = "write" => manifest_log # Snapshot
    <3> SUFFICES ASSUME stage = "write", manifest_log = Snapshot
                 PROVE  FALSE
      OBVIOUS
    <3>1. PICK id, i, N : id = insert_file_id /\ i = PrevId(id) /\ N = Names(0)
      OBVIOUS
    <3>2. RingInv /\ ManiFestTypeOK
      BY DEF NewestInv, StoreInv, LimitInv, RingInv, TypeInv
    <3>3. RingShape(N, id) /\ RingShape(N, i)
      BY <3>1, <3>2 DEF RingInv, Snapshot, Names, NamesOf
    <3>4. id \in 1..Ring /\ Ring \in Nat /\ Ring > 1
      BY <3>1, <3>2 DEF ManiFestTypeOK, ConstantsOK, RingAssumption
    <3>5. i \in 1..Ring /\ i # id /\ (id > 1 => i = id - 1) /\ (id = 1 => i = Ring)
      BY <3>1, <3>4 DEF PrevId
    <3>6. i \notin N
      BY <3>3, <3>5 DEF RingShape
    <3>7. id = 1 /\ N = {} /\ i = Ring
      BY <3>3, <3>4, <3>5, <3>6 DEF RingShape
    <3>8. 1 \in N
      BY <3>3, <3>4, <3>7 DEF RingShape
    <3> QED BY <3>7, <3>8
  <2> QED BY <1>5, <1>7, <2>1 DEF Crash
<1>8. CASE Open
  <2>1. intact => insert_file_id' = insert_file_id
    BY <1>8 DEF Open, NewestInv, StoreInv, Snapshot
  <2>2. intact' = intact /\ stage = "down" /\ stage' = "idle" /\ disk' = disk /\ newest' = newest
    BY <1>8 DEF Open
  <2>3. CASE intact
    BY <1>5, <2>1, <2>2, <2>3
  <2>4. CASE ~intact
    BY <1>1, <2>2, <2>4 DEF NewestInv
  <2> QED BY <2>3, <2>4
<1>9. CASE UNCHANGED mvars
  <2>1. \A k : Settled(k) => Settled(k)'
    BY <1>9 DEF mvars, Settled, Leads, Newer, Age, At
  <2> QED BY <1>1, <1>9, <2>1 DEF mvars, NewestInv
<1> QED BY <1>2, <1>3, <1>4, <1>6, <1>7, <1>8, <1>9 DEF ManiFestNext, ManiFestStep

-----------------------------------------------------------------------------
(* get() finds the leading entry.                                          *)

\* The ids get() looks at are those of the ring but the next, newest first.
LEMMA SlotFacts ==
  ASSUME ConstantsOK, NEW id \in 1..Ring, id = insert_file_id
  PROVE  /\ \A a \in Ages : Slot(a) \in (1..Ring) \ {id} /\ Age(Slot(a)) = a
         /\ \A i \in (1..Ring) \ {id} : Age(i) \in Ages /\ Slot(Age(i)) = i
         /\ \A a \in Ages : a < id => Slot(a) = id - a
         /\ Ages \subseteq Nat
<1>1. Ring \in Nat /\ id \in Nat /\ 1 <= id /\ id <= Ring
  BY DEF ConstantsOK, RingAssumption
<1>2. \A i \in 1..Ring : Age(i) = IF i < id THEN id - i ELSE id - i + Ring
  BY DEF Age
<1>3. \A a \in Ages : a \in Nat /\ 1 <= a /\ a <= Ring - 1
  BY <1>1 DEF Ages
<1>4. \A a \in Ages : Slot(a) = IF id - a >= 1 THEN id - a ELSE id - a + Ring
  BY DEF Slot
<1>5. \A a \in Ages : Slot(a) \in (1..Ring) \ {id}
  BY <1>1, <1>3, <1>4
<1>6. \A a \in Ages : Age(Slot(a)) = a
  BY <1>1, <1>2, <1>3, <1>4, <1>5
<1>7. \A i \in (1..Ring) \ {id} : Age(i) \in Ages
  BY <1>1, <1>2 DEF Ages
<1>8. \A i \in (1..Ring) \ {id} : Slot(Age(i)) = i
  BY <1>1, <1>2, <1>3, <1>4, <1>7
<1>9. \A a \in Ages : a < id => Slot(a) = id - a
  BY <1>1, <1>3, <1>4
<1> QED BY <1>3, <1>5, <1>6, <1>7, <1>8, <1>9

LEMMA Level0Reads ==
  ASSUME ConstantsOK, StoreInv, intact, stage \in {"idle", "log"}, NEW k
  PROVE  /\ \A i : At(k, 0, i) => Age(i) \in Level0Hits(k) /\ Slot(Age(i)) = i
         /\ \A a \in Level0Hits(k) : At(k, 0, Slot(a)) /\ Age(Slot(a)) = a
         /\ Level0Hits(k) \in SUBSET Nat /\ Level0Hits(k) \subseteq Ages
         /\ Holds(0, k) <=> Level0Hits(k) # {}
<1>1. /\ insert_file_id \in 1..Ring /\ DOMAIN disk[0] \subseteq (1..Ring) \ {insert_file_id}
  BY RingFiles
<1>2. 0 \in Levels /\ ManiFestTypeOK
  BY DEF StoreInv, LimitInv, RingInv, TypeInv, Levels, ConstantsOK, SizesAssumption
<1>3. /\ \A a \in Ages : Slot(a) \in (1..Ring) \ {insert_file_id} /\ Age(Slot(a)) = a
      /\ \A i \in (1..Ring) \ {insert_file_id} : Age(i) \in Ages /\ Slot(Age(i)) = i
      /\ Ages \subseteq Nat
  BY <1>1, SlotFacts
<1>4. \A i : At(k, 0, i) => Age(i) \in Level0Hits(k) /\ Slot(Age(i)) = i
  BY <1>1, <1>3 DEF At, Level0Hits
<1>5. \A a \in Level0Hits(k) : At(k, 0, Slot(a)) /\ Age(Slot(a)) = a
  BY <1>2, <1>3 DEF At, Level0Hits
<1>6. Level0Hits(k) \subseteq Ages
  BY DEF Level0Hits
<1>7. Level0Hits(k) # {} => levels_size > 0
  <2>1. Level0Hits(k) # {} => DOMAIN disk[0] # {}
    BY DEF Level0Hits
  <2>2. DOMAIN disk[0] # {} => levels_files[0] # {}
    BY <1>2, ListedFacts DEF StoreInv
  <2> QED BY <2>1, <2>2 DEF StoreInv
<1> QED BY <1>3, <1>4, <1>5, <1>6, <1>7 DEF Holds

LEMMA DeepReads ==
  ASSUME ConstantsOK, StoreInv, intact, stage \in {"idle", "log"}, NEW k \in Keys,
         NEW l \in Levels \ {0}
  PROVE  /\ Covers(l, k) => Stored(l, k)
         /\ Holds(l, k) => At(k, l, Candidate(l, k).name)
         /\ \A i : At(k, l, i) => Holds(l, k) /\ Candidate(l, k).name = i
<1>1. /\ ManiFestTypeOK /\ Listed(l) /\ Apart(levels_files[l]) /\ IsFiniteSet(levels_files[l])
      /\ k \in Nat
  BY DEF StoreInv, LimitInv, RingInv, TypeInv, Distinct, ConstantsOK, KeysAssumption
<1>2. PICK R : R = Candidates(l, k)
  OBVIOUS
<1>3. /\ R \in SUBSET Record /\ R \subseteq levels_files[l] /\ IsFiniteSet(R)
      /\ \A r \in levels_files[l] : r \in R <=> r.min <= k
  <2>1. R \subseteq levels_files[l] /\ \A r \in levels_files[l] : r \in R <=> r.min <= k
    BY <1>2 DEF Candidates
  <2>2. levels_files[l] \in SUBSET Record
    BY <1>1 DEF ManiFestTypeOK
  <2> QED BY <1>1, <2>1, <2>2, FS_Subset
<1>4. PICK c : c = Candidate(l, k)
  OBVIOUS
<1>5. R # {} => c \in R /\ \A s \in R \ {c} : RecordBefore(s, c)
  BY <1>2, <1>3, <1>4, LastRecord DEF Candidate, ConstantsOK
<1>6. Covers(l, k) <=> R # {} /\ k <= c.max
  BY <1>2, <1>4 DEF Covers
<1>7. Covers(l, k) => Stored(l, k)
  BY <1>1, <1>3, <1>4, <1>5, <1>6, ListedFacts DEF Stored
<1>8. Holds(l, k) <=> Covers(l, k) /\ Stored(l, k) /\ k \in DOMAIN disk[l][c.name]
  BY <1>4 DEF Holds
<1>9. Holds(l, k) => At(k, l, c.name)
  BY <1>4, <1>8 DEF At, Stored
<1>10. ASSUME NEW i, At(k, l, i)
       PROVE  Holds(l, k) /\ c.name = i
  <2>1. PICK s : s = RecordOf(i, disk[l][i])
    OBVIOUS
  <2>2. s \in levels_files[l] /\ s.name = i
    BY <1>1, <1>10, <2>1, ListedFacts DEF At, RecordOf
  <2>3. s.min <= k /\ k <= s.max
    BY <1>1, <1>10, <2>2, ListedFacts DEF At
  <2>4. s \in R /\ c \in R
    BY <1>3, <1>5, <2>2, <2>3
  <2>5. c = s
    <3> SUFFICES ASSUME c # s
                 PROVE  FALSE
      OBVIOUS
    <3>1. RecordBefore(s, c) /\ c.min <= k
      BY <1>3, <1>5, <2>4
    <3>2. s.max < c.min \/ c.max < s.min
      BY <1>1, <1>3, <2>2, <2>4 DEF Apart
    <3>3. /\ c.min \in Nat /\ c.max \in Nat /\ s.min \in Nat /\ s.max \in Nat
      BY <1>3, <2>4 DEF Record, ConstantsOK, KeysAssumption
    <3>4. c.min <= c.max
      BY <1>1, <1>3, <2>4, ListedFacts
    <3>5. s.min <= c.min
      BY <3>1, <3>3 DEF RecordBefore
    <3> QED BY <1>1, <2>3, <3>1, <3>2, <3>3, <3>4, <3>5
  <2>6. Covers(l, k)
    BY <1>6, <2>3, <2>4, <2>5
  <2> QED BY <1>7, <1>8, <1>10, <2>2, <2>5, <2>6 DEF At
<1> QED BY <1>4, <1>7, <1>9, <1>10

\* What get() answers for a key that has a leading entry, or none at all.
LEMMA ReadsLeader ==
  ASSUME ConstantsOK, StoreInv, intact, stage \in {"idle", "log"}, NEW k \in Keys,
         NEW l \in Levels, NEW i \in DOMAIN disk[l], Leads(k, l, i)
  PROVE  Lookup(k) = newest[k] /\ ~Throws(k)
<1>1. /\ At(k, l, i) /\ disk[l][i][k] = newest[k]
      /\ \A m, j : At(k, m, j) /\ ~(m = l /\ j = i) => Newer(l, i, m, j)
  BY DEF Leads, At
<1>2. /\ \A m \in Levels : m \in Nat
      /\ insert_file_id \in 1..Ring /\ Ring \in Nat /\ 0 \in Levels
      /\ ManiFestTypeOK /\ RingInv /\ TurnedInv /\ Listed(0)
  <2>1. insert_file_id \in 1..Ring
    BY RingFiles
  <2>2. \A m \in Levels : m \in Nat
    BY DEF Levels
  <2>3. ManiFestTypeOK /\ RingInv /\ TurnedInv
    BY DEF StoreInv, LimitInv, RingInv, TypeInv
  <2>4. 0 \in Levels /\ Ring \in Nat
    BY DEF Levels, ConstantsOK, SizesAssumption, RingAssumption
  <2> QED BY <2>1, <2>2, <2>3, <2>4 DEF StoreInv
<1>3. PICK hits : hits = Level0Hits(k)
  OBVIOUS
<1>4. /\ \A j : At(k, 0, j) => Age(j) \in hits /\ Slot(Age(j)) = j
      /\ \A a \in hits : At(k, 0, Slot(a)) /\ Age(Slot(a)) = a
      /\ hits \in SUBSET Nat /\ hits \subseteq Ages
      /\ Holds(0, k) <=> hits # {}
  BY <1>3, Level0Reads
<1>5. \A m \in Levels \ {0} :
        /\ Covers(m, k) => Stored(m, k)
        /\ Holds(m, k) => At(k, m, Candidate(m, k).name)
        /\ \A j : At(k, m, j) => Holds(m, k) /\ Candidate(m, k).name = j
  BY DeepReads
<1>6. Holds(l, k)
  BY <1>1, <1>4, <1>5
<1>7. \A m \in Levels : Holds(m, k) => l <= m
  <2> SUFFICES ASSUME NEW m \in Levels, Holds(m, k)
               PROVE  l <= m
    OBVIOUS
  <2>1. CASE m = 0
    <3>1. PICK a \in hits : At(k, 0, Slot(a))
      BY <1>4, <2>1
    <3>2. l = 0 \/ Newer(l, i, 0, Slot(a))
      BY <1>1, <3>1
    <3> QED BY <1>2, <2>1, <3>2 DEF Newer
  <2>2. CASE m # 0
    <3>1. PICK j : At(k, m, j)
      BY <1>5, <2>2
    <3>2. l = m \/ Newer(l, i, m, j)
      BY <1>1, <3>1
    <3> QED BY <1>2, <2>2, <3>2 DEF Newer
  <2> QED BY <2>1, <2>2
<1>8. Holding(k) # {} /\ Min(Holding(k)) = l
  <2>1. PICK H : H = Holding(k)
    OBVIOUS
  <2>2. l \in H /\ H \in SUBSET Nat /\ \A m \in H : l <= m
    BY <1>2, <1>6, <1>7, <2>1 DEF Holding
  <2>3. Min(H) \in H /\ \A m \in H : Min(H) <= m
    BY <2>2, MinOf
  <2>4. Min(H) \in Nat /\ l \in Nat /\ Min(H) <= l /\ l <= Min(H)
    BY <2>2, <2>3
  <2>5. Min(H) = l
    BY <2>4
  <2> QED BY <2>1, <2>2, <2>5
<1>9. l = 0 => Min(hits) = Age(i) /\ Age(i) \in hits
  <2> SUFFICES ASSUME l = 0
               PROVE  Min(hits) = Age(i) /\ Age(i) \in hits
    OBVIOUS
  <2>1. Age(i) \in hits
    BY <1>1, <1>4
  <2>2. \A a \in hits : Age(i) <= a
    <3> TAKE a \in hits
    <3>1. At(k, 0, Slot(a)) /\ Age(Slot(a)) = a /\ a \in Nat /\ Age(i) \in Nat
      BY <1>4, <2>1
    <3>2. Slot(a) = i \/ Age(i) < a
      BY <1>1, <3>1 DEF Newer
    <3> QED BY <3>1, <3>2
  <2>3. Min(hits) \in hits /\ \A a \in hits : Min(hits) <= a
    BY <1>4, <2>1, MinOf
  <2>4. Min(hits) \in Nat /\ Age(i) \in Nat
    BY <1>4, <2>1, <2>3
  <2> QED BY <2>1, <2>2, <2>3, <2>4
<1>10. ValueAt(l, k) = newest[k]
  <2>1. CASE l = 0
    <3>1. Slot(Min(hits)) = i
      BY <1>1, <1>4, <1>9, <2>1
    <3> QED BY <1>1, <1>3, <2>1, <3>1 DEF ValueAt
  <2>2. CASE l # 0
    BY <1>1, <1>5, <2>2 DEF ValueAt
  <2> QED BY <2>1, <2>2
<1>11. Lookup(k) = newest[k]
  BY <1>8, <1>10 DEF Lookup
\* No file get() opens on its way is missing.
<1>12. ~\E a \in Ages : Slot(a) \notin DOMAIN disk[0] /\ \A h \in hits : a < h
  <2> SUFFICES ASSUME NEW a \in Ages, Slot(a) \notin DOMAIN disk[0], \A h \in hits : a < h
               PROVE  FALSE
    OBVIOUS
  <2>1. PICK id : id = insert_file_id
    OBVIOUS
  <2>2. /\ Slot(a) \in (1..Ring) \ {id} /\ a \in Nat /\ (a < id => Slot(a) = id - a)
    BY <1>2, <2>1, SlotFacts
  <2>3. Names(0) = DOMAIN disk[0]
    BY <1>2, ListedFacts
  <2>4. Names(0) # (1..Ring) \ {id}
    BY <2>2, <2>3
  <2>5. Names(0) = 1..(id - 1)
    BY <1>2, <2>1, <2>4 DEF RingInv, RingShape
  <2>6. ~Deeper(levels_files)
    BY <1>2, <2>1, <2>4 DEF TurnedInv, Turned
  <2>7. l = 0
    <3> SUFFICES ASSUME l # 0
                 PROVE  FALSE
      OBVIOUS
    <3>1. Listed(l)
      BY DEF StoreInv
    <3>2. levels_files[l] # {}
      BY <1>2, <3>1, ListedFacts
    <3> QED BY <2>6, <3>2 DEF Deeper
  <2>8. i \in 1..(id - 1)
    BY <2>3, <2>5, <2>7
  <2>9. Age(i) = id - i /\ a < Age(i)
    BY <1>2, <1>9, <2>1, <2>7, <2>8 DEF Age
  <2>10. Slot(a) \in 1..(id - 1)
    BY <1>2, <2>1, <2>2, <2>8, <2>9
  <2> QED BY <2>3, <2>5, <2>10
<1>13. ~Throws(k)
  BY <1>3, <1>5, <1>12 DEF Throws
<1> QED BY <1>11, <1>13

\* get() finds the entry stored last, whatever was flushed and merged since
\* and in whatever session; a deleted key never shows an older value.
THEOREM ReadsFindNewest == ManiFestSpec => []ReadsNewest
<1>1. ConstantsOK
  BY KeysAssumption, EntriesAssumption, SizesAssumption, PowersAssumption, RingAssumption
     DEF ConstantsOK
<1>2. ManiFestInit => NewestInv
  BY <1>1, NewestInit
<1>3. NewestInv /\ [ManiFestNext]_mvars => NewestInv'
  BY <1>1, NewestStep
<1>4. NewestInv => ReadsNewest
  <2> SUFFICES ASSUME NewestInv, intact, stage \in {"idle", "log"}, NEW k \in Keys
               PROVE  IF k \in DOMAIN newest /\ newest[k] # Deleted
                      THEN Lookup(k) = newest[k] /\ ~Throws(k)
                      ELSE Lookup(k) \in {Absent, Deleted}
    BY DEF ReadsNewest
  <2>1. StoreInv /\ Settled(k)
    BY DEF NewestInv
  <2>2. CASE /\ k \in DOMAIN newest => newest[k] = Deleted
             /\ \A l \in Levels : \A i \in DOMAIN disk[l] : ~At(k, l, i)
    <3>1. \A l, i : ~At(k, l, i)
      BY <2>2 DEF At
    <3>2. ~Holds(0, k)
      BY <1>1, <2>1, <3>1, Level0Reads
    <3>3. \A l \in Levels \ {0} : ~Holds(l, k)
      BY <1>1, <2>1, <3>1, DeepReads
    <3>4. Lookup(k) = Absent
      BY <3>2, <3>3 DEF Lookup, Holding
    <3> QED BY <2>2, <3>4
  <2>3. ASSUME k \in DOMAIN newest,
               NEW l \in Levels, NEW i \in DOMAIN disk[l], Leads(k, l, i)
        PROVE  Lookup(k) = newest[k] /\ ~Throws(k)
    BY <1>1, <2>1, <2>3, ReadsLeader
  <2>4. \/ /\ k \in DOMAIN newest => newest[k] = Deleted
           /\ \A l \in Levels : \A i \in DOMAIN disk[l] : ~At(k, l, i)
        \/ /\ k \in DOMAIN newest
           /\ \E l \in Levels : \E i \in DOMAIN disk[l] : Leads(k, l, i)
    BY <2>1 DEF Settled
  <2> QED BY <2>2, <2>3, <2>4
<1> QED BY <1>2, <1>3, <1>4, PTL DEF ManiFestSpec

=============================================================================
