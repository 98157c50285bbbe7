------------------------------- MODULE Strings -------------------------------
(***************************************************************************)
(* Keys, sequences of bytes, in the two orders the code puts them in:      *)
(* std::string compares unsigned bytes, Slice::compare (src/sst/slice.cpp) *)
(* chars, which are signed here, so the bytes of a character outside ASCII *)
(* are below every other.  The bytes 0x7f and 0xff do not occur.           *)
(***************************************************************************)
EXTENDS Integers, FiniteSets, SequencesExt

CONSTANT HighBit   \* 0x80, the least byte that is negative as a char

\* std::string's operator <.
Less(s, t) ==
  \E i \in 1..Len(t) : /\ i <= Len(s) + 1
                       /\ SubSeq(s, 1, i - 1) = SubSeq(t, 1, i - 1)
                       /\ i <= Len(s) => s[i] < t[i]

LessEq(s, t) == s = t \/ Less(s, t)

Greatest(S) == CHOOSE s \in S : \A t \in S : LessEq(t, s)
Least(S)    == CHOOSE s \in S : \A t \in S : LessEq(s, t)

AsChars(s) == [i \in DOMAIN s |-> IF s[i] < HighBit THEN s[i] ELSE s[i] - 2 * HighBit]

\* Slice::compare(), and with it Entry's operator <.
SliceLess(s, t) == Less(AsChars(s), AsChars(t))

\* std::sort by key, the keys being distinct: of keys, and of entries.
SortedKeys(S) ==
  [i \in 1..Cardinality(S) |-> CHOOSE s \in S : Cardinality({t \in S : SliceLess(t, s)}) = i - 1]

SortedByKey(entries) ==
  LET keys == SortedKeys({entries[i].key : i \in DOMAIN entries})
  IN  [i \in DOMAIN entries |-> entries[CHOOSE j \in DOMAIN entries : entries[j].key = keys[i]]]

=============================================================================
