-------------------------------- MODULE Logs --------------------------------
(***************************************************************************)
(* The bytes of WAL_memtable.log, WAL_manifest.log (src/wal/wal.cpp) and   *)
(* manifest.log (src/lsmtree/manifest.cpp), written and read back.  A      *)
(* reader that fails an assertion ends its process.                        *)
(***************************************************************************)
EXTENDS Coding

\* A string with its length in front.
Text(s) == SetFixed(Len(s)) \o s

HasText(s, at)   == HasFixed(s, at) /\ at + FixedLen - 1 + GetFixed(s, at) <= Len(s)
TextAt(s, at)    == SubSeq(s, at + FixedLen, at + FixedLen - 1 + GetFixed(s, at))
AfterText(s, at) == at + FixedLen + GetFixed(s, at)

-----------------------------------------------------------------------------
(* WAL_MEMTABLE *)

\* Mutant: the value without its length.
PairRowBare(key, value) == Text(key) \o value

\* putElement().
PairRow(key, value) == Text(key) \o Text(value)

\* getElements().
Pairs(s) ==
  LET from[at \in 1..(Len(s) + 1)] ==
        IF at > Len(s) THEN <<>>
        ELSE IF ~HasText(s, at) THEN <<Aborted>>
        ELSE IF ~HasText(s, AfterText(s, at)) THEN <<Aborted>>
        ELSE <<[key |-> TextAt(s, at), value |-> TextAt(s, AfterText(s, at))]>>
             \o from[AfterText(s, AfterText(s, at))]
  IN  from[1]

-----------------------------------------------------------------------------
(* _manifest_record *)

\* toString().
RecordBytes(rec) ==
  SetFixed(rec.level) \o Text(rec.name) \o Text(rec.min) \o Text(rec.max)

NameAt(at)    == at + FixedLen
MinAt(s, at)  == AfterText(s, NameAt(at))
MaxAt(s, at)  == AfterText(s, MinAt(s, at))

HasRecord(s, at) ==
  /\ HasFixed(s, at)
  /\ HasText(s, NameAt(at)) /\ HasText(s, MinAt(s, at)) /\ HasText(s, MaxAt(s, at))

\* The constructor that eats a record.
RecordAt(s, at) ==
  [level |-> GetFixed(s, at), name |-> TextAt(s, NameAt(at)),
   min |-> TextAt(s, MinAt(s, at)), max |-> TextAt(s, MaxAt(s, at))]

AfterRecord(s, at) == AfterText(s, MaxAt(s, at))

-----------------------------------------------------------------------------
(* WAL_MANIFEST *)

\* putElement() of a record that is listed (0) or removed (1).
RecordRow(ope, rec) == <<ope>> \o Text(RecordBytes(rec))

\* putElement() of a turn of the ring: no length before the id, as there is in
\* the other rows.
RingRow(id) == <<2>> \o SetFixed(id)

\* getElements().
Events(s) ==
  LET from[at \in 1..(Len(s) + 1)] ==
        IF at > Len(s) THEN <<>>
        ELSE IF ~HasText(s, at + 1) THEN <<Aborted>>
        ELSE <<[ope |-> s[at], text |-> TextAt(s, at + 1)]>> \o from[AfterText(s, at + 1)]
  IN  from[1]

\* The loop of ManiFest's constructor over the events cannot digest this one.
Indigestible(event) ==
  \/ event = Aborted
  \/ IF event.ope \in {0, 1} THEN ~HasRecord(event.text, 1) ELSE ~HasFixed(event.text, 1)

ReplayAborts(s) == \E i \in DOMAIN Events(s) : Indigestible(Events(s)[i])

-----------------------------------------------------------------------------
(* manifest.log *)

\* ManiFest::flush(): the records, then the ring's id as one byte.
ManifestBytes(records, id) ==
  LET upto[i \in 0..Len(records)] ==
        IF i = 0 THEN <<>> ELSE upto[i - 1] \o RecordBytes(records[i])
  IN  upto[Len(records)] \o <<id>>

\* ManiFest's constructor: records while more than one byte is left, then the
\* id, 1 if there is none.
ManifestRead(s) ==
  LET from[at \in 1..(Len(s) + 1)] ==
        IF at >= Len(s) THEN [records |-> <<>>, id |-> IF at > Len(s) THEN 1 ELSE s[at]]
        ELSE IF ~HasRecord(s, at) THEN [records |-> <<Aborted>>, id |-> 1]
        ELSE LET rest == from[AfterRecord(s, at)]
             IN  [records |-> <<RecordAt(s, at)>> \o rest.records, id |-> rest.id]
  IN  from[1]

=============================================================================
