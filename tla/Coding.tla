------------------------------- MODULE Coding -------------------------------
(***************************************************************************)
(* Unsigned integers as bytes (src/utils/utils.cpp): fixed width, least    *)
(* byte first, and variable width, where the highest bit of a byte says    *)
(* that more follow.  A reader takes a position in the bytes where the     *)
(* code takes a Slice and cuts it.                                         *)
(***************************************************************************)
EXTENDS Integers, Sequences

CONSTANTS
  ByteSize,    \* 256
  FixedLen,    \* bytes of a word: 4 or 8
  VarintLen,   \* length of the buffer of a variable-width integer: 5 or 10
  Aborted      \* what a reader is left with when it fails an assertion

ASSUME CodingAssumption ==
  /\ ByteSize \in Nat /\ ByteSize > 2 /\ ByteSize % 2 = 0
  /\ FixedLen \in Nat \ {0} /\ VarintLen \in Nat \ {0}

Half == ByteSize \div 2

\* The value, and what is left of it after each shift by a digit.
Shifted(value, base, n) ==
  LET left[i \in 1..n] == IF i = 1 THEN value ELSE left[i - 1] \div base IN left

\* The sum of the digits of n bytes, each worth base times the one before.
Summed(s, at, n, base) ==
  LET from[i \in 1..(n + 1)] ==
        IF i > n THEN 0 ELSE (s[at + i - 1] % base) + base * from[i + 1]
  IN  from[1]

\* setFixed32(), setFixed64().
SetFixed(value) == [i \in 1..FixedLen |-> Shifted(value, ByteSize, FixedLen)[i] % ByteSize]

\* The assertion in getFixed32() and getFixed64().
HasFixed(s, at) == at + FixedLen - 1 <= Len(s)

\* getFixed32(), getFixed64().
GetFixed(s, at) == Summed(s, at, FixedLen, ByteSize)

\* How many bytes setVarint32() writes before its last.
VarintSteps(value) ==
  LET left == Shifted(value, Half, VarintLen)
  IN  CHOOSE n \in 0..(VarintLen - 1) : left[n + 1] < Half /\ \A m \in 1..n : left[m] >= Half

\* setVarint32(), setVarint64().
SetVarint(value) ==
  LET left == Shifted(value, Half, VarintLen)
  IN  [i \in 1..(VarintSteps(value) + 1) |->
         IF i <= VarintSteps(value) THEN (left[i] % Half) + Half ELSE left[i] % ByteSize]

\* The length getVarint32() finds at a position.  It finds none if the bytes end
\* too early, which fails an assertion, or go on for too long.
VarintLens(s, at) ==
  {n \in 1..VarintLen : /\ at + n - 1 <= Len(s)
                        /\ s[at + n - 1] < Half
                        /\ \A m \in 1..(n - 1) : s[at + m - 1] >= Half}

\* The position after it; 0 if there is none.
VarintEnd(s, at) ==
  IF at = 0 \/ VarintLens(s, at) = {} THEN 0 ELSE at + CHOOSE n \in VarintLens(s, at) : TRUE

\* getVarint32(), getVarint64(), of bytes whose sum fits the word, as those of
\* setVarint32() do; the sum of others would wrap.
GetVarint(s, at) == Summed(s, at, VarintEnd(s, at) - at, Half)

=============================================================================
