---------------------------- MODULE ConnectorProofs ----------------------------
(***************************************************************************)
(* Theorems about Connector, for every set of names, counts and values     *)
(* within the three digits its lengths have here: the server hears the     *)
(* words of every text whose sentence fits the buffer, and the variables   *)
(* at the server are the ones that were asked for, until it loses them.    *)
(***************************************************************************)
EXTENDS Connector, FiniteSetTheorems, WellFoundedInduction, SequenceTheorems, TLAPS

-----------------------------------------------------------------------------
(* Induction and recursion over data.                                      *)

\* A nonempty set of naturals has a least element: the induction of this
\* module is over the least number for which something fails.
LEMMA LeastOf ==
  ASSUME NEW S \in SUBSET Nat, S # {}
  PROVE  \E x \in S : \A y \in S : x <= y
<1>1. PICK x \in S : \A y \in S : <<y, x>> \notin OpToRel(<, Nat)
  BY NatLessThanWellFounded, WFMin
<1>2. \A y \in S : ~(y < x)
  BY <1>1 DEF OpToRel
<1> QED BY <1>2

\* Begins with c and takes step G[i] at i.
Unfolds(f, m, S, c, G) ==
  /\ f \in [0..m -> S]
  /\ f[0] = c
  /\ \A i \in 1..m : f[i] = G[i][f[i - 1]]

\* A recursion over 0..n has a solution.
LEMMA RecursionUp ==
  ASSUME NEW S, NEW n \in Nat, NEW c \in S, NEW G \in [1..n -> [S -> S]]
  PROVE  \E f : Unfolds(f, n, S, c, G)
<1> DEFINE Bad == {m \in 0..n : ~\E f : Unfolds(f, m, S, c, G)}
<1>1. SUFFICES Bad = {}
  OBVIOUS
<1>2. SUFFICES ASSUME Bad # {} PROVE FALSE
  OBVIOUS
<1>3. PICK m \in Bad : \A y \in Bad : m <= y
  <2>1. Bad \in SUBSET Nat
    OBVIOUS
  <2> HIDE DEF Bad
  <2> QED BY <1>2, <2>1, LeastOf
<1>4. CASE m = 0
  <2>1. PICK f : f = [i \in 0..0 |-> c]
    OBVIOUS
  <2>2. Unfolds(f, 0, S, c, G)
    BY <2>1 DEF Unfolds
  <2> QED BY <1>4, <2>2
<1>5. CASE m # 0
  <2>1. m - 1 \in 0..n /\ m - 1 \notin Bad /\ m \in 1..n
    BY <1>3, <1>5
  <2>2. PICK f : Unfolds(f, m - 1, S, c, G)
    BY <2>1
  <2>3. PICK g : g = [i \in 0..m |-> IF i = m THEN G[m][f[m - 1]] ELSE f[i]]
    OBVIOUS
  <2>4. f \in [0..(m - 1) -> S] /\ G[m] \in [S -> S]
    BY <2>1, <2>2 DEF Unfolds
  <2>5. g \in [0..m -> S] /\ g[m] = G[m][f[m - 1]] /\ \A i \in 0..(m - 1) : g[i] = f[i]
    BY <2>1, <2>3, <2>4
  <2>6. \A i \in 1..m : g[i] = G[i][g[i - 1]]
    <3> TAKE i \in 1..m
    <3>1. CASE i = m
      BY <2>1, <2>5, <3>1
    <3>2. CASE i # m
      BY <2>1, <2>2, <2>5, <3>2 DEF Unfolds
    <3> QED BY <3>1, <3>2
  <2>7. g[0] = c
    BY <2>1, <2>2, <2>5 DEF Unfolds
  <2>8. Unfolds(g, m, S, c, G)
    BY <2>5, <2>6, <2>7 DEF Unfolds
  <2> QED BY <2>8
<1> QED BY <1>4, <1>5

Joined(s, t, st) ==
  /\ Len(st) = Len(s) + Len(t)
  /\ \A q \in 1..Len(s) : st[q] = s[q]
  /\ \A q \in 1..Len(t) : st[Len(s) + q] = t[q]

LEMMA Joins ==
  ASSUME NEW S, NEW s \in Seq(S), NEW t \in Seq(S)
  PROVE  s \o t \in Seq(S) /\ Joined(s, t, s \o t)
BY DEF Joined

LEMMA JoinIsAll ==
  ASSUME NEW S, NEW s \in Seq(S), NEW t \in Seq(S), NEW q \in 1..(Len(s) + Len(t))
  PROVE  (s \o t)[q] = IF q <= Len(s) THEN s[q] ELSE t[q - Len(s)]
OBVIOUS

\* The parts joined so far.
Partial(F, n, S, seqs) ==
  /\ F \in [0..n -> Seq(S)]
  /\ F[0] = <<>>
  /\ \A i \in 1..n : F[i] = F[i - 1] \o seqs[i]

LEMMA PartialExists ==
  ASSUME NEW S, NEW n \in Nat, NEW seqs \in [1..n -> Seq(S)]
  PROVE  \E F : Partial(F, n, S, seqs)
<1>1. PICK G : G = [i \in 1..n |-> [s \in Seq(S) |-> s \o seqs[i]]]
  OBVIOUS
<1>2. \A i \in 1..n : [s \in Seq(S) |-> s \o seqs[i]] \in [Seq(S) -> Seq(S)]
  <2> TAKE i \in 1..n
  <2>1. \A s \in Seq(S) : s \o seqs[i] \in Seq(S)
    OBVIOUS
  <2> QED BY <2>1
<1>3. G \in [1..n -> [Seq(S) -> Seq(S)]]
  BY <1>1, <1>2
<1>4. <<>> \in Seq(S)
  OBVIOUS
<1>5. PICK F : Unfolds(F, n, Seq(S), <<>>, G)
  BY <1>3, <1>4, RecursionUp
<1>6. \A i \in 1..n : F[i] = F[i - 1] \o seqs[i]
  <2> TAKE i \in 1..n
  <2>1. F[i - 1] \in Seq(S) /\ F[i] = G[i][F[i - 1]]
    BY <1>5 DEF Unfolds
  <2>2. G[i] = [s \in Seq(S) |-> s \o seqs[i]]
    BY <1>1
  <2> QED BY <2>1, <2>2
<1>7. Partial(F, n, S, seqs)
  BY <1>5, <1>6 DEF Partial, Unfolds
<1> QED BY <1>7

\* FlattenSeq, of the community modules, joins the parts.
LEMMA FlattenJoins ==
  ASSUME NEW S, NEW n \in Nat, NEW seqs \in [1..n -> Seq(S)], NEW F, Partial(F, n, S, seqs)
  PROVE  FlattenSeq(seqs) = F[n]
<1>1. Len(seqs) = n
  OBVIOUS
<1>2. CASE n = 0
  BY <1>1, <1>2 DEF FlattenSeq, Partial
<1>3. CASE n # 0
  <2> DEFINE Eq(g) == g = [i \in 1..n |-> IF i = 1 THEN seqs[i] ELSE g[i - 1] \o seqs[i]]
  <2>1. PICK g : g = CHOOSE h : Eq(h)
    OBVIOUS
  <2>2. FlattenSeq(seqs) = g[n]
    BY <1>1, <1>3, <2>1 DEF FlattenSeq
  <2>3. PICK h : h = [i \in 1..n |-> F[i]]
    OBVIOUS
  <2>4. Eq(h)
    <3>1. \A i \in 1..n : h[i] = IF i = 1 THEN seqs[i] ELSE h[i - 1] \o seqs[i]
      <4> TAKE i \in 1..n
      <4>1. F[i] = F[i - 1] \o seqs[i]
        BY DEF Partial
      <4>2. CASE i = 1
        <5>1. F[i - 1] = <<>>
          BY <4>2 DEF Partial
        <5>2. <<>> \o seqs[i] = seqs[i]
          OBVIOUS
        <5> QED BY <2>3, <4>1, <4>2, <5>1, <5>2
      <4>3. CASE i # 1
        BY <2>3, <4>1, <4>3
      <4> QED BY <4>2, <4>3
    <3> QED BY <2>3, <3>1
  <2>5. Eq(g)
    <3> HIDE DEF Eq
    <3> QED BY <2>1, <2>4
  <2>6. \A i \in 1..n : g[i] = F[i]
    <3> DEFINE Bad == {i \in 1..n : g[i] # F[i]}
    <3>1. SUFFICES ASSUME Bad # {} PROVE FALSE
      OBVIOUS
    <3>2. PICK m \in Bad : \A y \in Bad : m <= y
      <4>1. Bad \in SUBSET Nat
        OBVIOUS
      <4> HIDE DEF Bad
      <4> QED BY <3>1, <4>1, LeastOf
    <3>3. g[m] = IF m = 1 THEN seqs[m] ELSE g[m - 1] \o seqs[m]
      BY <2>5
    <3>4. h[m] = IF m = 1 THEN seqs[m] ELSE h[m - 1] \o seqs[m]
      BY <2>4
    <3>5. m # 1 => m - 1 \in 1..n /\ m - 1 \notin Bad
      BY <3>2
    <3> QED BY <2>3, <3>2, <3>3, <3>4, <3>5
  <2> QED BY <1>3, <2>2, <2>6
<1> QED BY <1>2, <1>3

-----------------------------------------------------------------------------
(* Numbers.                                                                *)

\* The numbers that Decimal() can write.
Few == 0..999

LEMMA FewAreNat == \A n \in Few : n \in Nat
BY DEF Few

Numerals == {Digits[i] : i \in 1..10}

LEMMA NumeralsArePlain ==
  /\ \A i, j \in 1..10 : Digits[i] = Digits[j] => i = j
  /\ \A x \in Numerals : x \notin Spaces /\ x # Blank /\ x # "\n" /\ x # "\r" /\ x # "$" /\ x # "#"
<1>1. \A i, j \in 1..10 : Digits[i] = Digits[j] => i = j
  BY DEF Digits
<1>2. \A i \in 1..10 : Digits[i] \in {"0", "1", "2", "3", "4", "5", "6", "7", "8", "9"}
  BY DEF Digits
<1>3. \A x \in {"0", "1", "2", "3", "4", "5", "6", "7", "8", "9"} : x # Blank
  BY Zenon DEF Blank
<1>4. \A x \in {"0", "1", "2", "3", "4", "5", "6", "7", "8", "9"} :
         x # "\n" /\ x # "\r" /\ x # "\t" /\ x # "\f" /\ x # "$" /\ x # "#"
  BY Zenon
<1>5. \A i \in 1..10 : /\ Digits[i] # Blank /\ Digits[i] # "\n" /\ Digits[i] # "\r" /\ Digits[i] # "\t"
                       /\ Digits[i] # "\f" /\ Digits[i] # "$" /\ Digits[i] # "#"
  BY <1>2, <1>3, <1>4, Zenon
<1> QED BY <1>1, <1>5 DEF Numerals, Spaces

LEMMA FigureFacts ==
  ASSUME NEW n \in Nat
  PROVE  Figure(n) \in Numerals /\ \A m \in Nat : Figure(m) = Figure(n) => m % 10 = n % 10
<1>1. \A m \in Nat : (m % 10) + 1 \in 1..10 /\ m % 10 \in Nat
  OBVIOUS
<1>2. Figure(n) \in Numerals
  BY <1>1 DEF Figure, Numerals
<1>3. ASSUME NEW m \in Nat, Figure(m) = Figure(n)
      PROVE  m % 10 = n % 10
  <2>1. (m % 10) + 1 = (n % 10) + 1
    BY <1>1, <1>3, NumeralsArePlain DEF Figure
  <2> QED BY <1>1, <2>1
<1> QED BY <1>2, <1>3

LEMMA ThreeFigures ==
  ASSUME NEW n \in Few
  PROVE  /\ n \div 100 \in Nat /\ n \div 10 \in Nat /\ n \in Nat
         /\ n = 100 * ((n \div 100) % 10) + 10 * ((n \div 10) % 10) + (n % 10)
         /\ n < 100 => n = 10 * ((n \div 10) % 10) + (n % 10)
         /\ n < 10 => n = n % 10
BY DEF Few

\* The three ways Decimal() writes.
One(n)   == <<Figure(n)>>
Two(n)   == <<Figure(n \div 10), Figure(n)>>
Three(n) == <<Figure(n \div 100), Figure(n \div 10), Figure(n)>>

LEMMA DecimalCases ==
  ASSUME NEW n \in Few
  PROVE  /\ n < 10 => Decimal(n) = One(n) /\ Len(Decimal(n)) = 1
         /\ n >= 10 /\ n < 100 => Decimal(n) = Two(n) /\ Len(Decimal(n)) = 2
         /\ n >= 100 => Decimal(n) = Three(n) /\ Len(Decimal(n)) = 3
<1>1. n < 10 => Decimal(n) = One(n)
  BY DEF Decimal, One
<1>2. n >= 10 /\ n < 100 => Decimal(n) = Two(n)
  BY DEF Decimal, Two, Few
<1>3. n >= 100 => Decimal(n) = Three(n)
  BY DEF Decimal, Three, Few
<1>4. Len(One(n)) = 1 /\ Len(Two(n)) = 2 /\ Len(Three(n)) = 3
  BY DEF One, Two, Three
<1> QED BY <1>1, <1>2, <1>3, <1>4

LEMMA DecimalFacts ==
  ASSUME NEW n \in Few
  PROVE  Decimal(n) \in Seq(Numerals) /\ Len(Decimal(n)) \in 1..3
<1>1. Figure(n) \in Numerals /\ Figure(n \div 10) \in Numerals /\ Figure(n \div 100) \in Numerals
  BY FigureFacts, ThreeFigures
<1>2. One(n) \in Seq(Numerals) /\ Two(n) \in Seq(Numerals) /\ Three(n) \in Seq(Numerals)
  <2> HIDE DEF Numerals
  <2> QED BY <1>1 DEF One, Two, Three
<1>3. CASE n < 10
  <2>1. Decimal(n) = One(n) /\ Len(Decimal(n)) = 1
    BY <1>3, DecimalCases
  <2>2. 1 \in 1..3
    OBVIOUS
  <2> QED BY <1>2, <2>1, <2>2
<1>4. CASE n >= 10 /\ n < 100
  <2>1. Decimal(n) = Two(n) /\ Len(Decimal(n)) = 2
    BY <1>4, DecimalCases
  <2>2. 2 \in 1..3
    OBVIOUS
  <2> QED BY <1>2, <2>1, <2>2
<1>5. CASE n >= 100
  <2>1. Decimal(n) = Three(n) /\ Len(Decimal(n)) = 3
    BY <1>5, DecimalCases
  <2>2. 3 \in 1..3
    OBVIOUS
  <2> QED BY <1>2, <2>1, <2>2
<1>6. n < 10 \/ (n >= 10 /\ n < 100) \/ n >= 100
  BY DEF Few
<1> QED BY <1>3, <1>4, <1>5, <1>6

LEMMA DecimalTells ==
  ASSUME NEW m \in Few, NEW n \in Few, Decimal(m) = Decimal(n)
  PROVE  m = n
<1>1. \/ m < 10 /\ n < 10
      \/ m >= 10 /\ m < 100 /\ n >= 10 /\ n < 100
      \/ m >= 100 /\ n >= 100
  <2>1. PICK a : a = Len(Decimal(m))
    OBVIOUS
  <2>2. a = Len(Decimal(n))
    BY <2>1
  <2>3. (m < 10 => a = 1) /\ (m >= 10 /\ m < 100 => a = 2) /\ (m >= 100 => a = 3)
    BY <2>1, DecimalCases
  <2>4. (n < 10 => a = 1) /\ (n >= 10 /\ n < 100 => a = 2) /\ (n >= 100 => a = 3)
    BY <2>2, DecimalCases
  <2> QED BY <2>3, <2>4 DEF Few
<1>2. CASE m < 10 /\ n < 10
  <2>2. Decimal(m) = One(m) /\ Decimal(n) = One(n)
    BY <1>2, DecimalCases
  <2>3. One(m) = One(n)
    BY <2>2
  <2>1. Figure(m) = Figure(n)
    BY <2>3 DEF One
  <2> QED BY <1>2, <2>1, FigureFacts, ThreeFigures
<1>3. CASE m >= 10 /\ m < 100 /\ n >= 10 /\ n < 100
  <2>1. Two(m) = Two(n)
    BY <1>3, DecimalCases
  <2>2. Figure(m) = Figure(n) /\ Figure(m \div 10) = Figure(n \div 10)
    BY <2>1 DEF Two
  <2>3. m % 10 = n % 10 /\ (m \div 10) % 10 = (n \div 10) % 10
    BY <2>2, FigureFacts, ThreeFigures
  <2>4. m = 10 * ((m \div 10) % 10) + (m % 10) /\ n = 10 * ((n \div 10) % 10) + (n % 10)
    BY <1>3, ThreeFigures
  <2> QED BY <2>3, <2>4
<1>4. CASE m >= 100 /\ n >= 100
  <2>1. Three(m) = Three(n)
    BY <1>4, DecimalCases
  <2>2. Figure(m) = Figure(n) /\ Figure(m \div 10) = Figure(n \div 10) /\ Figure(m \div 100) = Figure(n \div 100)
    BY <2>1 DEF Three
  <2>3. m % 10 = n % 10 /\ (m \div 10) % 10 = (n \div 10) % 10 /\ (m \div 100) % 10 = (n \div 100) % 10
    BY <2>2, FigureFacts, ThreeFigures
  <2>4. /\ m = 100 * ((m \div 100) % 10) + 10 * ((m \div 10) % 10) + (m % 10)
        /\ n = 100 * ((n \div 100) % 10) + 10 * ((n \div 10) % 10) + (n % 10)
    BY ThreeFigures
  <2> QED BY <2>3, <2>4
<1> QED BY <1>1, <1>2, <1>3, <1>4

\* std::stoi undoes std::to_string.
LEMMA NumberOfDecimal ==
  ASSUME NEW n \in Few
  PROVE  Number(Decimal(n)) = n
<1>1. PICK s : s = Decimal(n)
  OBVIOUS
<1>2. ASSUME NEW m \in Few, Decimal(m) = s
      PROVE  m = n
  <2>1. Decimal(m) = Decimal(n)
    BY <1>1, <1>2
  <2> QED BY <2>1, DecimalTells
<1>3. (CHOOSE m \in 0..999 : Decimal(m) = s) = n
  BY <1>1, <1>2 DEF Few
<1> QED BY <1>1, <1>3 DEF Number

-----------------------------------------------------------------------------
(* The words of a text.                                                    *)

\* From i to j is one word.
Run(text, i, j) ==
  /\ \A k \in i..j : text[k] \notin Spaces
  /\ (j = Len(text) \/ text[j + 1] \in Spaces)

LEMMA WordAtIs ==
  ASSUME NEW text, Len(text) \in Nat, NEW i \in 1..Len(text), NEW j \in i..Len(text), Run(text, i, j)
  PROVE  WordAt(text, i) = SubSeq(text, i, j)
<1>1. ASSUME NEW h \in i..Len(text), Run(text, i, h)
      PROVE  h = j
  <2>1. ~(h < j)
    <3>1. SUFFICES ASSUME h < j
                   PROVE  FALSE
      OBVIOUS
    <3>2. h + 1 \in i..j /\ h # Len(text)
      BY <3>1
    <3> QED BY <1>1, <3>2 DEF Run
  <2>2. ~(j < h)
    <3>1. SUFFICES ASSUME j < h
                   PROVE  FALSE
      OBVIOUS
    <3>2. j + 1 \in i..h /\ j # Len(text)
      BY <1>1, <3>1
    <3> QED BY <1>1, <3>2 DEF Run
  <2> QED BY <1>1, <2>1, <2>2
<1>2. WordEnd(text, i) = j
  <2>1. (CHOOSE h \in i..Len(text) : Run(text, i, h)) = j
    BY <1>1
  <2> QED BY <2>1 DEF WordEnd, Run
<1> QED BY <1>2 DEF WordAt

LEMMA StartsRun ==
  ASSUME NEW T, NEW text \in Seq(T), NEW i \in Starts(text)
  PROVE  i \in 1..Len(text) /\ \E j \in i..Len(text) : Run(text, i, j)
<1>1. PICK L : L = Len(text)
  OBVIOUS
<1>2. L \in Nat /\ i \in 1..L /\ text[i] \notin Spaces
  BY <1>1 DEF Starts
<1>3. PICK S : S = {j \in i..L : j = L \/ text[j + 1] \in Spaces}
  OBVIOUS
<1>4. S \in SUBSET Nat /\ L \in S
  BY <1>2, <1>3
<1>5. PICK j \in S : \A y \in S : j <= y
  BY <1>4, LeastOf
<1>6. j \in i..L /\ (j = L \/ text[j + 1] \in Spaces)
  BY <1>3, <1>5
<1>7. ASSUME NEW k \in i..j
      PROVE  text[k] \notin Spaces
  <2>1. CASE k = i
    BY <1>2, <2>1
  <2>2. CASE k # i
    <3>1. k - 1 \in i..L /\ k - 1 < j /\ (k - 1) + 1 = k
      BY <1>2, <1>6, <2>2
    <3>2. k - 1 \notin S
      BY <1>5, <1>6, <3>1
    <3> QED BY <1>3, <3>1, <3>2
  <2> QED BY <2>1, <2>2
<1> QED BY <1>1, <1>2, <1>6, <1>7 DEF Run

\* The beginnings up to i.
Upto(S, i) == {j \in S : j <= i}

LEMMA UptoFacts ==
  ASSUME NEW n \in Nat, NEW S \in SUBSET (1..n)
  PROVE  /\ IsFiniteSet(S) /\ Cardinality(S) \in 0..n
         /\ \A i \in Nat : IsFiniteSet(Upto(S, i)) /\ Cardinality(Upto(S, i)) \in Nat
         /\ Cardinality(Upto(S, 0)) = 0 /\ Upto(S, n) = S
         /\ \A i \in Nat : Cardinality(Upto(S, i + 1)) =
              IF i + 1 \in S THEN Cardinality(Upto(S, i)) + 1 ELSE Cardinality(Upto(S, i))
<1>1. IsFiniteSet(1..n) /\ Cardinality(1..n) = n
  BY FS_Interval
<1>2. IsFiniteSet(S) /\ Cardinality(S) <= n /\ Cardinality(S) \in Nat
  BY <1>1, FS_Subset, FS_CardinalityType
<1>3. ASSUME NEW i \in Nat
      PROVE  IsFiniteSet(Upto(S, i)) /\ Cardinality(Upto(S, i)) \in Nat
  <2>1. Upto(S, i) \in SUBSET S
    BY DEF Upto
  <2> QED BY <1>2, <2>1, FS_Subset, FS_CardinalityType
<1>9. \A j \in S : j \in Nat /\ j >= 1 /\ j <= n
  OBVIOUS
<1>4. Upto(S, 0) = {} /\ Upto(S, n) = S
  <2>1. \A j \in S : ~(j <= 0)
    BY <1>9
  <2> QED BY <1>9, <2>1 DEF Upto
<1>5. ASSUME NEW i \in Nat
      PROVE  Cardinality(Upto(S, i + 1)) =
               IF i + 1 \in S THEN Cardinality(Upto(S, i)) + 1 ELSE Cardinality(Upto(S, i))
  <2>1. CASE i + 1 \in S
    <3>1. Upto(S, i + 1) = Upto(S, i) \cup {i + 1} /\ i + 1 \notin Upto(S, i)
      <4>1. \A j \in S : j <= i + 1 <=> (j <= i \/ j = i + 1)
        BY <1>9
      <4>2. ~(i + 1 <= i)
        OBVIOUS
      <4> QED BY <2>1, <4>1, <4>2 DEF Upto
    <3> QED BY <1>3, <2>1, <3>1, FS_AddElement
  <2>2. CASE i + 1 \notin S
    <3>1. Upto(S, i + 1) = Upto(S, i)
      <4>1. \A j \in S : j <= i + 1 <=> j <= i
        BY <2>2
      <4> QED BY <4>1 DEF Upto
    <3> QED BY <2>2, <3>1
  <2> QED BY <2>1, <2>2
<1>6. Cardinality(Upto(S, 0)) = 0
  BY <1>4, FS_EmptySet
<1>7. Cardinality(S) \in 0..n
  BY <1>2
<1> QED BY <1>2, <1>3, <1>4, <1>5, <1>6, <1>7

\* The m-th of a set of positions.
LEMMA NthExists ==
  ASSUME NEW n \in Nat, NEW S \in SUBSET (1..n), NEW m \in 1..Cardinality(S)
  PROVE  \E i \in S : Cardinality(Upto(S, i)) = m
<1>1. PICK c : c = [i \in Nat |-> Cardinality(Upto(S, i))]
  OBVIOUS
<1>2. PICK size : size = Cardinality(S)
  OBVIOUS
<1>3. /\ \A i \in Nat : c[i] \in Nat
      /\ c[0] = 0 /\ c[n] = size /\ size \in Nat
  BY <1>1, <1>2, UptoFacts
<1>4. ASSUME NEW i \in Nat
      PROVE  c[i + 1] = IF i + 1 \in S THEN c[i] + 1 ELSE c[i]
  <2>1. i + 1 \in Nat
    OBVIOUS
  <2>2. Cardinality(Upto(S, i + 1)) = IF i + 1 \in S THEN Cardinality(Upto(S, i)) + 1 ELSE Cardinality(Upto(S, i))
    BY UptoFacts
  <2>3. c[i] = Cardinality(Upto(S, i)) /\ c[i + 1] = Cardinality(Upto(S, i + 1))
    BY <1>1, <2>1
  <2> QED BY <2>2, <2>3
<1>5. PICK R : R = {i \in Nat : c[i] >= m}
  OBVIOUS
<1>6. m \in 1..size /\ m \in Nat
  BY <1>2, <1>3
<1>7. n \in R /\ R \in SUBSET Nat
  BY <1>3, <1>5, <1>6
<1>8. PICK r \in R : \A y \in R : r <= y
  BY <1>7, LeastOf
<1>9. r \in Nat /\ c[r] >= m /\ r # 0
  BY <1>3, <1>5, <1>6, <1>8
<1>10. r - 1 \in Nat /\ (r - 1) + 1 = r /\ r - 1 \notin R
  BY <1>8, <1>9
<1>11. ~(c[r - 1] >= m) /\ c[r - 1] \in Nat /\ c[r] \in Nat
  BY <1>3, <1>5, <1>9, <1>10
<1>12. c[r] = IF r \in S THEN c[r - 1] + 1 ELSE c[r - 1]
  BY <1>4, <1>10
<1>13. r \in S /\ c[r] = m
  BY <1>6, <1>9, <1>11, <1>12
<1> QED BY <1>1, <1>9, <1>13

LEMMA StartOfIs ==
  ASSUME NEW T, NEW text \in Seq(T)
  PROVE  /\ Starts(text) \in SUBSET (1..Len(text))
         /\ Cardinality(Starts(text)) \in 0..Len(text)
         /\ \A n \in 1..Cardinality(Starts(text)) : BeginsAt(text, n) \in Starts(text)
<1>1. PICK S : S = Starts(text)
  OBVIOUS
<1>2. S \in SUBSET (1..Len(text)) /\ Len(text) \in Nat
  BY <1>1 DEF Starts
<1>3. Cardinality(S) \in 0..Len(text)
  BY <1>2, UptoFacts
<1>4. ASSUME NEW n \in 1..Cardinality(S)
      PROVE  BeginsAt(text, n) \in S
  <2>1. \E i \in S : Cardinality(Upto(S, i)) = n
    BY <1>2, NthExists
  <2>2. (CHOOSE i \in S : Cardinality(Upto(S, i)) = n) \in S
    BY <2>1
  <2> QED BY <1>1, <2>2 DEF BeginsAt, Upto
<1> QED BY <1>1, <1>2, <1>3, <1>4

\* Words that sRead() can read: none of them empty or with white space in it.
Readable(words, C) ==
  /\ words \in [1..Len(words) -> Seq(C)] /\ Len(words) \in Few
  /\ \A k \in 1..Len(words) : Len(words[k]) \in Few /\ Len(words[k]) # 0

LEMMA WordsAreReadable ==
  ASSUME NEW T, NEW text \in Seq(T), Len(text) <= 999
  PROVE  Readable(WordsOf(text), T \ Spaces)
<1>1. PICK m : m = Cardinality(Starts(text))
  OBVIOUS
<1>2. m \in 0..999 /\ m \in Few
  <2>1. Len(text) \in Nat /\ m \in 0..Len(text)
    BY <1>1, StartOfIs
  <2> QED BY <2>1 DEF Few
<1>3. PICK W : W = WordsOf(text)
  OBVIOUS
<1>4. W = [n \in 1..m |-> WordAt(text, BeginsAt(text, n))]
  BY <1>1, <1>3 DEF WordsOf
<1>5. ASSUME NEW n \in 1..m
      PROVE  W[n] \in Seq(T \ Spaces) /\ Len(W[n]) \in Few /\ Len(W[n]) # 0
  <2>1. PICK i : i = BeginsAt(text, n)
    OBVIOUS
  <2>2. i \in Starts(text)
    BY <1>1, <2>1, StartOfIs
  <2>3. PICK j \in i..Len(text) : Run(text, i, j)
    BY <2>2, StartsRun
  <2>4. i \in 1..Len(text) /\ Len(text) \in Nat
    BY <2>2, StartsRun
  <2>5. W[n] = SubSeq(text, i, j)
    BY <1>4, <2>1, <2>3, <2>4, WordAtIs
  <2>6. PICK s : s = SubSeq(text, i, j)
    OBVIOUS
  <2>7. s = [k \in 1..((j - i) + 1) |-> text[(i + k) - 1]]
    BY <2>3, <2>4, <2>6
  <2>8. \A k \in 1..((j - i) + 1) : (i + k) - 1 \in i..j /\ (i + k) - 1 \in 1..Len(text)
    BY <2>3, <2>4
  <2>9. \A k \in 1..((j - i) + 1) : s[k] \in T \ Spaces
    BY <2>3, <2>7, <2>8 DEF Run
  <2>10. (j - i) + 1 \in Nat /\ (j - i) + 1 \in Few /\ (j - i) + 1 # 0
    BY <2>3, <2>4 DEF Few
  <2>11. s \in Seq(T \ Spaces) /\ Len(s) = (j - i) + 1
    BY <2>7, <2>9, <2>10
  <2> QED BY <2>5, <2>6, <2>10, <2>11
<1>6. Len(W) = m /\ W \in [1..m -> Seq(T \ Spaces)]
  <2>1. DOMAIN W = 1..m /\ m \in Nat
    BY <1>2, <1>4
  <2>2. W = [n \in 1..m |-> W[n]]
    BY <1>4
  <2>3. PICK Q : Q = Seq(T \ Spaces)
    OBVIOUS
  <2>4. \A n \in 1..m : W[n] \in Q
    BY <1>5, <2>3
  <2>5. W \in [1..m -> Q]
    BY <2>2, <2>4
  <2> QED BY <2>1, <2>3, <2>5
<1>7. \A n \in 1..m : Len(W[n]) \in Few /\ Len(W[n]) # 0
  BY <1>5
<1>8. W \in [1..Len(W) -> Seq(T \ Spaces)] /\ Len(W) \in Few
  BY <1>2, <1>6
<1>9. \A n \in 1..Len(W) : Len(W[n]) \in Few /\ Len(W[n]) # 0
  BY <1>6, <1>7
<1>10. Readable(W, T \ Spaces)
  BY <1>8, <1>9, Zenon DEF Readable
<1> QED BY <1>3, <1>10

-----------------------------------------------------------------------------
(* Sentences.                                                              *)

\* A part of a sequence.
PartOf(s, a, b) == [q \in 1..((b - a) + 1) |-> s[(a + q) - 1]]

LEMMA SubSeqIs ==
  ASSUME NEW s, NEW a \in Nat, NEW b \in Nat
  PROVE  SubSeq(s, a, b) = PartOf(s, a, b)
BY DEF PartOf

\* s lies in buf behind the position at.
Lies(buf, at, s) == at + Len(s) <= Len(buf) /\ \A q \in 1..Len(s) : buf[at + q] = s[q]

LEMMA LiesApart ==
  ASSUME NEW S, NEW s \in Seq(S), NEW t \in Seq(S), NEW buf, Len(buf) \in Nat,
         NEW at \in Nat, Lies(buf, at, s \o t)
  PROVE  Lies(buf, at, s) /\ Lies(buf, at + Len(s), t) /\ Len(s \o t) = Len(s) + Len(t)
<1>1. Joined(s, t, s \o t)
  BY Joins
<1>2. PICK st : st = s \o t
  OBVIOUS
<1>3. Lies(buf, at, st) /\ Joined(s, t, st)
  BY <1>1, <1>2
<1>4. Len(s) \in Nat /\ Len(t) \in Nat
  OBVIOUS
<1>5. Len(st) = Len(s) + Len(t) /\ at + Len(st) <= Len(buf)
  BY <1>3 DEF Lies, Joined
<1>6. \A q \in 1..Len(s) : buf[at + q] = s[q]
  BY <1>3, <1>4, <1>5 DEF Lies, Joined
<1>7. ASSUME NEW q \in 1..Len(t) PROVE buf[(at + Len(s)) + q] = t[q]
  <2>1. Len(s) + q \in 1..Len(st) /\ at + (Len(s) + q) = (at + Len(s)) + q
    BY <1>4, <1>5
  <2>2. buf[at + (Len(s) + q)] = st[Len(s) + q] /\ st[Len(s) + q] = t[q]
    BY <1>3, <2>1 DEF Lies, Joined
  <2> QED BY <2>1, <2>2
<1>8. at + Len(s) <= Len(buf) /\ (at + Len(s)) + Len(t) <= Len(buf)
  BY <1>4, <1>5
<1> QED BY <1>2, <1>5, <1>6, <1>7, <1>8 DEF Lies

\* Each part of a flattened sequence lies behind those before it.
PartsIn(buf, at, n, F, seqs) ==
  \A k \in 1..n : /\ Lies(buf, at + Len(F[k - 1]), seqs[k])
                  /\ Len(F[k]) = Len(F[k - 1]) + Len(seqs[k])

LEMMA PartsLie ==
  ASSUME NEW S, NEW n \in Nat, NEW seqs \in [1..n -> Seq(S)], NEW F, Partial(F, n, S, seqs),
         NEW buf, Len(buf) \in Nat, NEW at \in Nat, Lies(buf, at, F[n])
  PROVE  PartsIn(buf, at, n, F, seqs)
<1>1. \A k \in 0..n : F[k] \in Seq(S)
  BY DEF Partial
<1>2. ASSUME NEW k \in 1..n, Lies(buf, at, F[k])
      PROVE  /\ Lies(buf, at, F[k - 1])
             /\ Lies(buf, at + Len(F[k - 1]), seqs[k])
             /\ Len(F[k]) = Len(F[k - 1]) + Len(seqs[k])
  <2>1. k - 1 \in 0..n
    OBVIOUS
  <2>2. F[k] = F[k - 1] \o seqs[k] /\ F[k - 1] \in Seq(S) /\ seqs[k] \in Seq(S)
    BY <1>1, <2>1 DEF Partial
  <2>3. Lies(buf, at, F[k - 1] \o seqs[k])
    BY <1>2, <2>2
  <2> QED BY <2>2, <2>3, LiesApart
<1>3. \A k \in 0..n : Lies(buf, at, F[k])
  <2> DEFINE Bad == {j \in 0..n : ~Lies(buf, at, F[n - j])}
  <2>1. SUFFICES Bad = {}
    <3>1. ASSUME NEW k \in 0..n, Bad = {} PROVE Lies(buf, at, F[k])
      <4>1. n - k \in 0..n /\ n - (n - k) = k
        OBVIOUS
      <4> QED BY <3>1, <4>1
    <3> QED BY <3>1
  <2>2. SUFFICES ASSUME Bad # {} PROVE FALSE
    OBVIOUS
  <2>3. PICK m \in Bad : \A y \in Bad : m <= y
    <3>1. Bad \in SUBSET Nat
      OBVIOUS
    <3> HIDE DEF Bad
    <3> QED BY <2>2, <3>1, LeastOf
  <2>4. m # 0
    BY <2>3
  <2>5. m \in 1..n
    BY <2>3, <2>4
  <2>8. m - 1 \notin Bad
    <3>1. m - 1 < m
      BY <2>5
    <3> HIDE DEF Bad
    <3> QED BY <2>3, <2>5, <3>1
  <2>9. m - 1 \in 0..n /\ n - (m - 1) \in 1..n /\ (n - (m - 1)) - 1 = n - m
    BY <2>5
  <2>6. Lies(buf, at, F[n - (m - 1)])
    BY <2>8, <2>9
  <2>7. Lies(buf, at, F[n - m])
    BY <1>2, <2>6, <2>9
  <2> QED BY <2>3, <2>7
<1> QED BY <1>2, <1>3 DEF PartsIn

\* Where the searches end.
Lacks(buf, i, j, char) == \A k \in i..(j - 1) : buf[k] # char

LEMMA SeekFinds ==
  ASSUME NEW buf, Len(buf) \in Nat, NEW i \in Nat, NEW j \in i..Len(buf), NEW char,
         buf[j] = char, Lacks(buf, i, j, char)
  PROVE  Seek(buf, i, char) = j
<1>2. \A k \in i..(j - 1) : buf[k] # char
  BY DEF Lacks
<1>1. ASSUME NEW h \in i..Len(buf), buf[h] = char, \A k \in i..(h - 1) : buf[k] # char
      PROVE  h = j
  <2>1. ~(h < j) /\ ~(j < h)
    BY <1>1, <1>2
  <2> QED BY <2>1
<1> QED BY <1>1, <1>2 DEF Seek

Fills(buf, i, j, char) == \A k \in i..(j - 1) : buf[k] = char

LEMMA SkipFinds ==
  ASSUME NEW buf, Len(buf) \in Nat, NEW i \in Nat, NEW j \in i..Len(buf), NEW char,
         buf[j] # char, Fills(buf, i, j, char)
  PROVE  Skip(buf, i, char) = j
<1>2. \A k \in i..(j - 1) : buf[k] = char
  BY DEF Fills
<1>1. ASSUME NEW h \in i..Len(buf), buf[h] # char, \A k \in i..(h - 1) : buf[k] = char
      PROVE  h = j
  <2>1. ~(h < j) /\ ~(j < h)
    BY <1>1, <1>2
  <2> QED BY <2>1
<1> QED BY <1>1, <1>2 DEF Skip

LEMMA LineEndFinds ==
  ASSUME NEW buf, Len(buf) \in Nat, NEW i \in Nat, NEW j \in i..Len(buf),
         buf[j] = "\n", buf[j - 1] = "\r", Lacks(buf, i, j, "\n")
  PROVE  LineEnd(buf, i) = j
<1>2. \A k \in i..(j - 1) : buf[k] # "\n"
  BY DEF Lacks
<1>1. ASSUME NEW h \in i..Len(buf), buf[h] = "\n", buf[h - 1] = "\r",
             \A k \in i..(h - 1) : ~(buf[k] = "\n" /\ buf[k - 1] = "\r")
      PROVE  h = j
  <2>1. ~(h < j) /\ ~(j < h)
    BY <1>1, <1>2
  <2> QED BY <2>1
<1> QED BY <1>1, <1>2 DEF LineEnd

\* The characters of a sentence of words over C.
Chars(C) == C \cup Numerals \cup {"#", "$", Blank, "\r", "\n", Nul}

LEMMA CharsHold ==
  ASSUME NEW C, NEW n \in Few
  PROVE  /\ Decimal(n) \in Seq(Chars(C))
         /\ <<"#">> \in Seq(Chars(C)) /\ <<"$">> \in Seq(Chars(C)) /\ <<Blank>> \in Seq(Chars(C))
         /\ <<"\r", "\n">> \in Seq(Chars(C))
         /\ \A w \in Seq(C) : w \in Seq(Chars(C))
<1>1. Numerals \subseteq Chars(C) /\ C \subseteq Chars(C)
  BY DEF Chars
<1>2. Decimal(n) \in Seq(Chars(C))
  <2>1. Seq(Numerals) \subseteq Seq(Chars(C))
    BY <1>1, SeqMonotonic
  <2> QED BY <2>1, DecimalFacts
<1>3. "#" \in Chars(C) /\ "$" \in Chars(C) /\ Blank \in Chars(C) /\ "\r" \in Chars(C) /\ "\n" \in Chars(C)
  BY DEF Chars
<1>4. <<"#">> \in Seq(Chars(C)) /\ <<"$">> \in Seq(Chars(C)) /\ <<Blank>> \in Seq(Chars(C))
  BY <1>3
<1>5. <<"\r", "\n">> \in Seq(Chars(C))
  BY <1>3
<1> QED BY <1>1, <1>2, <1>4, <1>5

LEMMA RestHolds ==
  ASSUME NEW C, NEW k \in Nat
  PROVE  <<"\n">> \in Seq(Chars(C)) /\ [i \in 1..k |-> Nul] \in Seq(Chars(C))
<1>1. "\n" \in Chars(C) /\ Nul \in Chars(C)
  BY DEF Chars
<1>2. PICK S : S = Chars(C)
  OBVIOUS
<1>3. <<"\n">> \in Seq(S) /\ [i \in 1..k |-> Nul] \in Seq(S)
  BY <1>1, <1>2
<1> QED BY <1>2, <1>3

\* What Clause() puts where.
LaidOut(C, w, buf, at, d) ==
  /\ d \in 1..3
  /\ Clause(w) \in Seq(Chars(C)) /\ Len(Clause(w)) = d + Len(w) + 4
  /\ buf[at + 1] = "$" /\ Lies(buf, at + 1, Decimal(Len(w)))
  /\ buf[at + d + 2] = Blank
  /\ Lies(buf, at + d + 2, w)
  /\ buf[at + d + Len(w) + 3] = "\r" /\ buf[at + d + Len(w) + 4] = "\n"
  /\ at + d + Len(w) + 4 <= Len(buf)

LEMMA ClauseLies ==
  ASSUME NEW C, NEW w \in Seq(C), Len(w) \in Few,
         NEW buf, Len(buf) \in Nat, NEW at \in Nat, Lies(buf, at, Clause(w)),
         NEW d, d = Len(Decimal(Len(w)))
  PROVE  LaidOut(C, w, buf, at, d)
<1>1. PICK D : D = Decimal(Len(w))
  OBVIOUS
<1>2. D \in Seq(Chars(C)) /\ w \in Seq(Chars(C)) /\ Len(D) = d /\ d \in 1..3
  BY <1>1, CharsHold, DecimalFacts
<1>3. PICK dollar : dollar = <<"$">>
  OBVIOUS
<1>4. PICK blank : blank = <<Blank>>
  OBVIOUS
<1>5. PICK eol : eol = <<"\r", "\n">>
  OBVIOUS
<1>6. /\ dollar \in Seq(Chars(C)) /\ blank \in Seq(Chars(C)) /\ eol \in Seq(Chars(C))
  BY <1>3, <1>4, <1>5, CharsHold
<1>7. PICK b : b = dollar \o D
  OBVIOUS
<1>8. PICK e : e = b \o blank
  OBVIOUS
<1>9. PICK g : g = e \o w
  OBVIOUS
<1>10. Clause(w) = g \o eol
  BY <1>1, <1>3, <1>4, <1>5, <1>7, <1>8, <1>9 DEF Clause
<1>11. b \in Seq(Chars(C)) /\ e \in Seq(Chars(C)) /\ g \in Seq(Chars(C)) /\ Clause(w) \in Seq(Chars(C))
  <2>1. b \in Seq(Chars(C))
    BY <1>2, <1>6, <1>7
  <2>2. e \in Seq(Chars(C))
    BY <1>6, <1>8, <2>1
  <2>3. g \in Seq(Chars(C))
    BY <1>2, <1>9, <2>2
  <2> QED BY <1>6, <1>10, <2>1, <2>2, <2>3
<1>12. Lies(buf, at, g) /\ Lies(buf, at + Len(g), eol) /\ Len(Clause(w)) = Len(g) + Len(eol)
  <2>1. Lies(buf, at, g \o eol)
    BY <1>10
  <2> QED BY <1>6, <1>10, <1>11, <2>1, LiesApart
<1>13. Lies(buf, at, e) /\ Lies(buf, at + Len(e), w) /\ Len(g) = Len(e) + Len(w)
  <2>1. Lies(buf, at, e \o w)
    BY <1>9, <1>12
  <2> QED BY <1>2, <1>9, <1>11, <2>1, LiesApart
<1>14. Lies(buf, at, b) /\ Lies(buf, at + Len(b), blank) /\ Len(e) = Len(b) + Len(blank)
  <2>1. Lies(buf, at, b \o blank)
    BY <1>8, <1>13
  <2> QED BY <1>6, <1>8, <1>11, <2>1, LiesApart
<1>15. Lies(buf, at, dollar) /\ Lies(buf, at + Len(dollar), D) /\ Len(b) = Len(dollar) + Len(D)
  <2>1. Lies(buf, at, dollar \o D)
    BY <1>7, <1>14
  <2> QED BY <1>2, <1>6, <1>7, <2>1, LiesApart
<1>16. Len(dollar) = 1 /\ dollar[1] = "$" /\ Len(blank) = 1 /\ blank[1] = Blank
       /\ Len(eol) = 2 /\ eol[1] = "\r" /\ eol[2] = "\n"
  BY <1>3, <1>4, <1>5
<1>17. Len(b) = 1 + d /\ Len(e) = d + 2 /\ Len(g) = d + 2 + Len(w) /\ Len(Clause(w)) = d + Len(w) + 4
  BY <1>2, <1>12, <1>13, <1>14, <1>15, <1>16
<1>18. buf[at + 1] = "$"
  BY <1>15, <1>16 DEF Lies
<1>19. buf[at + d + 2] = Blank
  <2>1. buf[(at + Len(b)) + 1] = Blank
    BY <1>14, <1>16 DEF Lies
  <2>2. (at + Len(b)) + 1 = at + d + 2
    BY <1>2, <1>17
  <2> QED BY <2>1, <2>2
<1>20. buf[at + d + Len(w) + 3] = "\r" /\ buf[at + d + Len(w) + 4] = "\n" /\ at + d + Len(w) + 4 <= Len(buf)
  <2>1. buf[(at + Len(g)) + 1] = "\r" /\ buf[(at + Len(g)) + 2] = "\n" /\ (at + Len(g)) + 2 <= Len(buf)
    BY <1>12, <1>16 DEF Lies
  <2>2. (at + Len(g)) + 1 = at + d + Len(w) + 3 /\ (at + Len(g)) + 2 = at + d + Len(w) + 4
    BY <1>2, <1>17
  <2> QED BY <2>1, <2>2
<1>21. Lies(buf, at + d + 2, w) /\ Lies(buf, at + 1, D)
  <2>1. at + Len(e) = at + d + 2 /\ at + Len(dollar) = at + 1
    BY <1>2, <1>16, <1>17
  <2> QED BY <1>13, <1>15, <2>1
<1> QED BY <1>1, <1>2, <1>11, <1>17, <1>18, <1>19, <1>20, <1>21 DEF LaidOut

\* The searches of sRead() from the end of a line to the end of the next.
LEMMA ClauseIsRead ==
  ASSUME NEW C, "\n" \notin C, Blank \notin C, NEW w \in Seq(C), Len(w) \in Few, Len(w) # 0,
         NEW buf, Len(buf) \in Nat, NEW at \in Nat, buf[at] = "\n", at # 0, Lies(buf, at, Clause(w)),
         NEW p, p = Skip(buf, Seek(buf, Seek(buf, at, "$"), Blank), Blank)
  PROVE  /\ p \in Nat
         /\ LineEnd(buf, p) = at + Len(Clause(w))
         /\ buf[at + Len(Clause(w))] = "\n"
         /\ Line(buf, p) = w
<1>1. PICK d : d = Len(Decimal(Len(w)))
  OBVIOUS
<1>2. PICK n : n = Len(w)
  OBVIOUS
<1>9. LaidOut(C, w, buf, at, d)
  BY <1>1, ClauseLies
<1>10. /\ d \in 1..3
       /\ Len(Clause(w)) = d + Len(w) + 4
       /\ buf[at + 1] = "$" /\ Lies(buf, at + 1, Decimal(Len(w)))
       /\ buf[at + d + 2] = Blank
       /\ Lies(buf, at + d + 2, w)
       /\ buf[at + d + Len(w) + 3] = "\r" /\ buf[at + d + Len(w) + 4] = "\n"
       /\ at + d + Len(w) + 4 <= Len(buf)
  BY <1>9 DEF LaidOut
<1>3. /\ d \in 1..3 /\ n \in Nat
      /\ Len(Clause(w)) = d + n + 4
      /\ buf[at + 1] = "$" /\ Lies(buf, at + 1, Decimal(Len(w)))
      /\ buf[at + d + 2] = Blank
      /\ Lies(buf, at + d + 2, w)
      /\ buf[at + d + n + 3] = "\r" /\ buf[at + d + n + 4] = "\n"
      /\ at + d + n + 4 <= Len(buf)
  BY <1>2, <1>10
<1>11. /\ at + 1 \in at..Len(buf)
       /\ at + d + 2 \in (at + 1)..Len(buf)
  <2>1. d \in 1..3 /\ n \in Nat /\ at + d + n + 4 <= Len(buf)
    BY <1>3
  <2> QED BY <2>1
<1>4. Seek(buf, at, "$") = at + 1
  <2>1. Lacks(buf, at, at + 1, "$")
    <3>1. \A k \in at..((at + 1) - 1) : k = at
      OBVIOUS
    <3> QED BY <3>1 DEF Lacks
  <2>2. at + 1 \in at..Len(buf)
    BY <1>11
  <2> QED BY <1>3, <2>1, <2>2, SeekFinds
<1>5. Seek(buf, at + 1, Blank) = at + d + 2
  <2>1. Lacks(buf, at + 1, at + d + 2, Blank)
    <3> SUFFICES ASSUME NEW k \in (at + 1)..((at + d + 2) - 1) PROVE buf[k] # Blank
      BY DEF Lacks
    <3>1. CASE k = at + 1
      <4>1. buf[k] = "$"
        BY <1>3, <3>1
      <4>2. "$" # Blank
        BY Zenon DEF Blank
      <4> QED BY <4>1, <4>2
    <3>2. CASE k # at + 1
      <4>1. k - (at + 1) \in 1..d /\ (at + 1) + (k - (at + 1)) = k
        BY <1>3, <3>2
      <4>2. buf[k] = Decimal(Len(w))[k - (at + 1)]
        BY <1>1, <1>3, <4>1 DEF Lies
      <4>3. Decimal(Len(w)) \in Seq(Numerals)
        BY DecimalFacts
      <4>4. Decimal(Len(w))[k - (at + 1)] \in Numerals
        BY <1>1, <4>1, <4>3
      <4> QED BY <4>2, <4>4, NumeralsArePlain
    <3> QED BY <3>1, <3>2
  <2>2. at + d + 2 \in (at + 1)..Len(buf) /\ at + 1 \in Nat
    BY <1>11
  <2> QED BY <1>3, <2>1, <2>2, SeekFinds
<1>6. p = at + d + 3
  <2>1. at + d + 3 \in (at + d + 2)..Len(buf) /\ at + d + 2 \in Nat /\ at + d + 3 = at + d + 2 + 1
        /\ \A k \in (at + d + 2)..((at + d + 3) - 1) : k = at + d + 2
    BY <1>3
  <2>2. buf[at + d + 3] # Blank
    <3>1. buf[at + d + 2 + 1] = w[1] /\ w[1] \in C
      BY <1>2, <1>3 DEF Lies
    <3> QED BY <2>1, <3>1
  <2>3. Fills(buf, at + d + 2, at + d + 3, Blank)
    BY <1>3, <2>1 DEF Fills
  <2>4. Skip(buf, at + d + 2, Blank) = at + d + 3
    BY <2>1, <2>2, <2>3, SkipFinds
  <2> QED BY <1>4, <1>5, <2>4
<1>7. \A q \in 1..n : buf[at + d + 2 + q] = w[q] /\ w[q] \in C
  BY <1>2, <1>3 DEF Lies
<1>8. LineEnd(buf, p) = at + d + n + 4
  <2>1. Lacks(buf, p, at + d + n + 4, "\n")
    <3> SUFFICES ASSUME NEW k \in p..((at + d + n + 4) - 1) PROVE buf[k] # "\n"
      BY DEF Lacks
    <3>1. CASE k = at + d + n + 3
      BY <1>3, <3>1
    <3>2. CASE k # at + d + n + 3
      <4>1. k - (at + d + 2) \in 1..n /\ at + d + 2 + (k - (at + d + 2)) = k
        BY <1>3, <1>6, <3>2
      <4>2. buf[k] \in C
        BY <1>7, <4>1
      <4> QED BY <4>2
    <3> QED BY <3>1, <3>2
  <2>2. at + d + n + 4 \in p..Len(buf) /\ p \in Nat /\ (at + d + n + 4) - 1 = at + d + n + 3
    BY <1>3, <1>6
  <2> QED BY <1>3, <2>1, <2>2, LineEndFinds
<1>12. Line(buf, p) = w
  <2>1. Line(buf, p) = SubSeq(buf, at + d + 3, at + d + n + 2)
    <3>1. (at + d + n + 4) - 2 = at + d + n + 2
      BY <1>3
    <3> QED BY <1>6, <1>8, <3>1 DEF Line
  <2>2. SubSeq(buf, at + d + 3, at + d + n + 2) = [q \in 1..n |-> buf[at + d + 2 + q]]
    BY <1>3
  <2>3. w = [q \in 1..n |-> w[q]]
    BY <1>2
  <2>4. [q \in 1..n |-> buf[at + d + 2 + q]] = [q \in 1..n |-> w[q]]
    BY <1>7
  <2> QED BY <2>1, <2>2, <2>3, <2>4
<1>13. at + (d + n + 4) = at + d + n + 4
  BY <1>3
<1> QED BY <1>3, <1>6, <1>8, <1>12, <1>13

\* The line in front of the clauses.
LEMMA HeaderLies ==
  ASSUME NEW C, NEW n \in Few, NEW rest \in Seq(Chars(C)), NEW buf,
         buf = <<"#">> \o Decimal(n) \o <<"\r", "\n">> \o rest
  PROVE  /\ Len(buf) \in Nat
         /\ \E h \in Nat : /\ h # 0 /\ buf[h] = "\n" /\ Lies(buf, h, rest)
                           /\ Seek(buf, 1, "#") + 1 = 2
                           /\ LineEnd(buf, 2) = h
                           /\ Line(buf, 2) = Decimal(n)
<1>1. PICK D : D = Decimal(n)
  OBVIOUS
<1>2. PICK hash : hash = <<"#">>
  OBVIOUS
<1>3. PICK eol : eol = <<"\r", "\n">>
  OBVIOUS
<1>4. D \in Seq(Chars(C)) /\ hash \in Seq(Chars(C)) /\ eol \in Seq(Chars(C))
  BY <1>1, <1>2, <1>3, CharsHold
<1>5. PICK b : b = hash \o D
  OBVIOUS
<1>6. PICK e : e = b \o eol
  OBVIOUS
<1>7. buf = e \o rest
  BY <1>1, <1>2, <1>3, <1>5, <1>6
<1>8. b \in Seq(Chars(C)) /\ e \in Seq(Chars(C)) /\ buf \in Seq(Chars(C))
  <2>1. b \in Seq(Chars(C))
    BY <1>4, <1>5
  <2>2. e \in Seq(Chars(C))
    BY <1>4, <1>6, <2>1
  <2>3. e \o rest \in Seq(Chars(C))
    BY <2>2, Joins
  <2> QED BY <1>7, <2>1, <2>2, <2>3, Zenon
<1>9. Len(buf) \in Nat /\ Lies(buf, 0, buf)
  BY <1>8 DEF Lies
<1>10. Lies(buf, 0, e) /\ Lies(buf, 0 + Len(e), rest)
  <2>1. Lies(buf, 0, e \o rest)
    BY <1>7, <1>9
  <2> QED BY <1>8, <1>9, <2>1, LiesApart
<1>11. Lies(buf, 0, b) /\ Lies(buf, 0 + Len(b), eol) /\ Len(e) = Len(b) + Len(eol)
  <2>1. Lies(buf, 0, b \o eol)
    BY <1>6, <1>10
  <2> QED BY <1>4, <1>6, <1>8, <1>9, <2>1, LiesApart
<1>12. Lies(buf, 0, hash) /\ Lies(buf, 0 + Len(hash), D) /\ Len(b) = Len(hash) + Len(D)
  <2>1. Lies(buf, 0, hash \o D)
    BY <1>5, <1>11
  <2> QED BY <1>4, <1>5, <1>9, <2>1, LiesApart
<1>13. PICK d : d = Len(D)
  OBVIOUS
<1>14. d \in 1..3 /\ \A q \in 1..d : D[q] # "\n"
  <2>1. D \in Seq(Numerals) /\ d \in 1..3
    BY <1>1, <1>13, DecimalFacts
  <2>2. \A q \in 1..d : D[q] \in Numerals
    BY <1>13, <2>1
  <2> QED BY <2>1, <2>2, NumeralsArePlain
<1>15. Len(hash) = 1 /\ hash[1] = "#" /\ Len(eol) = 2 /\ eol[1] = "\r" /\ eol[2] = "\n"
  BY <1>2, <1>3
<1>16. Len(b) = d + 1 /\ Len(e) = d + 3
  BY <1>11, <1>12, <1>13, <1>14, <1>15
<1>17. buf[1] = "#" /\ d + 3 <= Len(buf)
  <2>1. buf[0 + 1] = "#"
    BY <1>12, <1>15 DEF Lies
  <2>2. 0 + Len(e) <= Len(buf)
    BY <1>10 DEF Lies
  <2> QED BY <1>14, <1>16, <2>1, <2>2
<1>18. buf[d + 2] = "\r" /\ buf[d + 3] = "\n"
  <2>3. \A q \in 1..2 : buf[(0 + Len(b)) + q] = eol[q]
    BY <1>11, <1>15 DEF Lies
  <2>4. 1 \in 1..2 /\ 2 \in 1..2
    OBVIOUS
  <2>1. buf[(0 + Len(b)) + 1] = "\r" /\ buf[(0 + Len(b)) + 2] = "\n"
    BY <1>15, <2>3, <2>4
  <2>2. (0 + Len(b)) + 1 = d + 2 /\ (0 + Len(b)) + 2 = d + 3
    BY <1>14, <1>16
  <2> QED BY <2>1, <2>2
<1>19. \A q \in 1..d : buf[1 + q] = D[q]
  <2>1. \A q \in 1..d : buf[(0 + Len(hash)) + q] = D[q]
    BY <1>12, <1>13 DEF Lies
  <2>2. 0 + Len(hash) = 1
    BY <1>15
  <2> QED BY <2>1, <2>2
<1>20. Seek(buf, 1, "#") = 1
  <2>1. Lacks(buf, 1, 1, "#") /\ 1 \in 1..Len(buf) /\ 1 \in Nat
    BY <1>9, <1>14, <1>17 DEF Lacks
  <2> QED BY <1>9, <1>17, <2>1, SeekFinds
<1>21. LineEnd(buf, 2) = d + 3
  <2>1. Lacks(buf, 2, d + 3, "\n")
    <3> SUFFICES ASSUME NEW k \in 2..((d + 3) - 1) PROVE buf[k] # "\n"
      BY DEF Lacks
    <3>1. CASE k = d + 2
      BY <1>18, <3>1
    <3>2. CASE k # d + 2
      <4>1. k - 1 \in 1..d /\ 1 + (k - 1) = k
        BY <1>14, <3>2
      <4>2. buf[k] = D[k - 1]
        BY <1>19, <4>1
      <4> QED BY <1>14, <4>1, <4>2
    <3> QED BY <3>1, <3>2
  <2>2. d + 3 \in 2..Len(buf) /\ (d + 3) - 1 = d + 2 /\ 2 \in Nat
    BY <1>9, <1>14, <1>17
  <2> QED BY <1>9, <1>18, <2>1, <2>2, LineEndFinds
<1>22. Line(buf, 2) = D
  <2>1. Line(buf, 2) = SubSeq(buf, 2, d + 1)
    <3>1. (d + 3) - 2 = d + 1
      BY <1>14
    <3> QED BY <1>21, <3>1 DEF Line
  <2>2. SubSeq(buf, 2, d + 1) = [q \in 1..d |-> buf[1 + q]]
    <3>1. PICK top, two : top = d + 1 /\ two = 2
      OBVIOUS
    <3>2. (top - two) + 1 = d /\ \A q \in 1..d : (two + q) - 1 = 1 + q
      BY <1>14, <3>1
    <3>8. top \in Nat /\ two \in Nat
      BY <1>14, <3>1
    <3>3. SubSeq(buf, two, top) = [q \in 1..((top - two) + 1) |-> buf[(two + q) - 1]]
      <4>1. SubSeq(buf, two, top) = PartOf(buf, two, top)
        BY <3>8, SubSeqIs
      <4> QED BY <4>1, Zenon DEF PartOf
    <3>4. SubSeq(buf, two, top) = [q \in 1..d |-> buf[(two + q) - 1]]
      BY <3>2, <3>3, Zenon
    <3>5. [q \in 1..d |-> buf[(two + q) - 1]] = [q \in 1..d |-> buf[1 + q]]
      BY <3>2
    <3>6. SubSeq(buf, two, top) = [q \in 1..d |-> buf[1 + q]]
      BY <3>4, <3>5, Zenon
    <3>7. SubSeq(buf, 2, d + 1) = SubSeq(buf, two, top)
      BY <3>1, Zenon
    <3> QED BY <3>6, <3>7, Zenon
  <2>3. [q \in 1..d |-> buf[1 + q]] = [q \in 1..d |-> D[q]]
    BY <1>19
  <2>4. D = [q \in 1..d |-> D[q]]
    BY <1>4, <1>13
  <2> QED BY <2>1, <2>2, <2>3, <2>4
<1>23. Lies(buf, d + 3, rest) /\ d + 3 \in Nat /\ d + 3 # 0
  <2>1. 0 + Len(e) = d + 3 /\ d + 3 \in Nat /\ d + 3 # 0
    BY <1>14, <1>16
  <2> QED BY <1>10, <2>1
<1>24. Seek(buf, 1, "#") + 1 = 2
  BY <1>20
<1> QED BY <1>1, <1>9, <1>18, <1>21, <1>22, <1>23, <1>24

\* sRead()'s recursion over n words.
Walks(buf, n, first, g) == g = [k \in 0..n |-> IF k = 0 THEN first ELSE NextWord(buf, g[k - 1])]

LEMMA WordsWalk ==
  ASSUME NEW buf, NEW n \in Nat, NEW first, first = Seek(buf, 1, "#") + 1, Number(Line(buf, first)) = n,
         NEW p, Walks(buf, n, first, p)
  PROVE  \E g : Walks(buf, n, first, g) /\ Words(buf) = [k \in 1..n |-> Line(buf, g[k])]
<1>1. PICK g : g = CHOOSE h : Walks(buf, Number(Line(buf, Seek(buf, 1, "#") + 1)), Seek(buf, 1, "#") + 1, h)
  OBVIOUS
<1>2. Walks(buf, n, first, g)
  <2>1. g = CHOOSE h : Walks(buf, n, first, h)
    BY <1>1
  <2> QED BY <2>1, Zenon
<1>3. Words(buf) = [k \in 1..n |-> Line(buf, g[k])]
  <2>1. Words(buf) = [k \in 1..Number(Line(buf, Seek(buf, 1, "#") + 1)) |-> Line(buf, g[k])]
    BY <1>1 DEF Words, Walks
  <2> QED BY <2>1
<1> QED BY <1>2, <1>3

LEMMA WalksAgree ==
  ASSUME NEW buf, NEW n \in Nat, NEW first, NEW g, NEW p, Walks(buf, n, first, g), Walks(buf, n, first, p)
  PROVE  \A k \in 0..n : g[k] = p[k]
<1> DEFINE Bad == {k \in 0..n : g[k] # p[k]}
<1>1. SUFFICES ASSUME Bad # {} PROVE FALSE
  OBVIOUS
<1>2. PICK m \in Bad : \A y \in Bad : m <= y
  <2>1. Bad \in SUBSET Nat
    OBVIOUS
  <2> HIDE DEF Bad
  <2> QED BY <1>1, <2>1, LeastOf
<1>3. \A k \in 0..n : /\ g[k] = IF k = 0 THEN first ELSE NextWord(buf, g[k - 1])
                      /\ p[k] = IF k = 0 THEN first ELSE NextWord(buf, p[k - 1])
  BY DEF Walks
<1>4. m # 0
  BY <1>2, <1>3
<1>5. m - 1 \in 0..n /\ m - 1 \notin Bad
  <2>1. m \in 1..n /\ m - 1 < m
    BY <1>2, <1>4
  <2> HIDE DEF Bad
  <2> QED BY <1>2, <2>1
<1>6. g[m - 1] = p[m - 1]
  BY <1>5
<1> QED BY <1>2, <1>3, <1>4, <1>6

LEMMA ClausesHold ==
  ASSUME NEW C, NEW w \in Seq(C), Len(w) \in Few
  PROVE  Clause(w) \in Seq(Chars(C)) /\ Len(Clause(w)) \in Nat
<1>1. Decimal(Len(w)) \in Seq(Chars(C)) /\ <<"$">> \in Seq(Chars(C)) /\ <<Blank>> \in Seq(Chars(C))
      /\ <<"\r", "\n">> \in Seq(Chars(C)) /\ w \in Seq(Chars(C))
  BY CharsHold
<1>2. PICK a, b, c, d : a = <<"$">> /\ b = <<Blank>> /\ c = <<"\r", "\n">> /\ d = Decimal(Len(w))
  OBVIOUS
<1>3. Clause(w) = ((((a \o d) \o b) \o w) \o c)
  BY <1>2 DEF Clause
<1>4. a \o d \in Seq(Chars(C))
  BY <1>1, <1>2
<1>5. (a \o d) \o b \in Seq(Chars(C))
  BY <1>1, <1>2, <1>4, Joins
<1>6. ((a \o d) \o b) \o w \in Seq(Chars(C))
  BY <1>1, <1>5, Joins
<1>7. (((a \o d) \o b) \o w) \o c \in Seq(Chars(C))
  BY <1>1, <1>2, <1>6, Joins
<1>8. Clause(w) \in Seq(Chars(C))
  BY <1>3, <1>7
<1> QED BY <1>8

\* What follows the first line in the buffer.
Clauses(words) == FlattenSeq([i \in DOMAIN words |-> Clause(words[i])])

\* The clauses of readable words, joined.
LEMMA ClausesJoin ==
  ASSUME NEW words, NEW C, Readable(words, C), NEW n, n = Len(words)
  PROVE  \E seqs, F : /\ seqs \in [1..n -> Seq(Chars(C))] /\ Partial(F, n, Chars(C), seqs)
                      /\ \A k \in 1..n : seqs[k] = Clause(words[k])
                      /\ F[n] \in Seq(Chars(C))
                      /\ Clauses(words) = F[n]
<1>1. n \in Few /\ n \in Nat /\ DOMAIN words = 1..n /\ words \in [1..n -> Seq(C)]
  <2>1. n \in Few /\ words \in Seq(Seq(C))
    BY DEF Readable
  <2>2. n \in Nat
    BY <2>1, FewAreNat
  <2> QED BY <2>1, <2>2
<1>2. PICK seqs : seqs = [k \in 1..n |-> Clause(words[k])]
  OBVIOUS
<1>3. \A k \in 1..n : words[k] \in Seq(C) /\ Len(words[k]) \in Few
  BY <1>1 DEF Readable
<1>4. seqs \in [1..n -> Seq(Chars(C))]
  BY <1>2, <1>3, ClausesHold
<1>5. PICK F : Partial(F, n, Chars(C), seqs)
  BY <1>1, <1>4, PartialExists
<1>6. F[n] \in Seq(Chars(C))
  BY <1>1, <1>5 DEF Partial
<1>7. FlattenSeq(seqs) = F[n]
  BY <1>1, <1>4, <1>5, FlattenJoins
<1>8. Clauses(words) = FlattenSeq(seqs)
  BY <1>1, <1>2, Zenon DEF Clauses
<1> QED BY <1>2, <1>4, <1>5, <1>6, <1>7, <1>8

LEMMA BufferIs ==
  ASSUME NEW words, NEW C, Readable(words, C), NEW text, WordsOf(text) = words, Sendable(text)
  PROVE  /\ Clauses(words) \in Seq(Chars(C))
         /\ \E tail \in Seq(Chars(C)) :
              Buffer(text) = <<"#">> \o Decimal(Len(words)) \o <<"\r", "\n">> \o (Clauses(words) \o tail)
<1>1. PICK head : head = <<"#">> \o Decimal(Len(words)) \o <<"\r", "\n">>
  OBVIOUS
<1>2. head \in Seq(Chars(C))
  <2>1. PICK a, c, d : a = <<"#">> /\ c = <<"\r", "\n">> /\ d = Decimal(Len(words))
    OBVIOUS
  <2>2. a \in Seq(Chars(C)) /\ c \in Seq(Chars(C)) /\ d \in Seq(Chars(C))
    <3>1. Len(words) \in Few
      BY DEF Readable
    <3> QED BY <2>1, <3>1, CharsHold
  <2>3. a \o d \in Seq(Chars(C))
    BY <2>2
  <2>4. (a \o d) \o c \in Seq(Chars(C))
    BY <2>2, <2>3, Joins
  <2> QED BY <1>1, <2>1, <2>4
<1>3. PICK rest : rest = Clauses(words)
  OBVIOUS
<1>4. rest \in Seq(Chars(C))
  BY <1>3, ClausesJoin
<1>5. PICK said : said = Sentence(text)
  OBVIOUS
<1>6. said = head \o rest
  BY <1>1, <1>3, <1>5, Zenon DEF Sentence, Clauses
<1>7. said \in Seq(Chars(C)) /\ Len(said) \in Nat
  BY <1>2, <1>4, <1>6
<1>8. PICK k : k = (BufSize - Len(said)) - 1
  OBVIOUS
<1>9. k \in Nat
  <2>1. Len(said) < BufSize /\ BufSize \in Nat
    BY <1>5, ConnectorAssumption DEF Sendable
  <2> QED BY <1>7, <1>8, <2>1
<1>10. PICK eol, nuls : eol = <<"\n">> /\ nuls = [i \in 1..k |-> Nul]
  OBVIOUS
<1>11. eol \in Seq(Chars(C)) /\ nuls \in Seq(Chars(C))
  BY <1>9, <1>10, RestHolds
<1>12. eol \o nuls \in Seq(Chars(C))
  BY <1>11, Joins
<1>13. Buffer(text) = (said \o eol) \o nuls
  BY <1>5, <1>8, <1>10, Zenon DEF Buffer
<1>14. (said \o eol) \o nuls = head \o (rest \o (eol \o nuls))
  <2>1. (said \o eol) \o nuls = said \o (eol \o nuls)
    BY <1>7, <1>11, ConcatAssociative
  <2>2. (head \o rest) \o (eol \o nuls) = head \o (rest \o (eol \o nuls))
    <3>1. PICK end : end = eol \o nuls
      OBVIOUS
    <3>2. PICK X : X = Chars(C)
      OBVIOUS
    <3>3. head \in Seq(X) /\ rest \in Seq(X) /\ end \in Seq(X)
      BY <1>2, <1>4, <1>12, <3>1, <3>2
    <3>4. (head \o rest) \o end = head \o (rest \o end)
      BY <3>3, ConcatAssociative
    <3> QED BY <3>1, <3>4
  <2> QED BY <1>6, <2>1, <2>2
<1> QED BY <1>1, <1>3, <1>4, <1>12, <1>13, <1>14

\* The server hears what the client says: of every text whose sentence fits the buffer of the
\* client (util.cpp:48), sRead() (channel.cpp:181) makes the words that white space parts in it,
\* as toDBsentense() (connector.cpp:102) did: however many digits the numbers of the sentence
\* have, whatever characters the words are made of, although no length in it is looked at and
\* although what follows it in the buffer is sent too.  Of a text whose sentence does not fit
\* nothing is said.
THEOREM SentencesAreHeard ==
  ASSUME NEW T, NEW text \in Seq(T), Len(text) <= 999, Sendable(text)
  PROVE  Heard(text) = WordsOf(text)
<1>1. PICK words : words = WordsOf(text)
  OBVIOUS
<1>2. PICK C : C = T \ Spaces
  OBVIOUS
<1>3. Readable(words, C)
  BY <1>1, <1>2, WordsAreReadable
<1>4. PICK n : n = Len(words)
  OBVIOUS
<1>5. /\ n \in Few /\ n \in Nat /\ words \in [1..n -> Seq(C)] /\ DOMAIN words = 1..n
      /\ \A k \in 1..n : Len(words[k]) \in Few /\ Len(words[k]) # 0
  <2>1. n \in Few /\ words \in Seq(Seq(C))
    BY <1>3, <1>4 DEF Readable
  <2>2. n \in Nat
    BY <2>1, FewAreNat
  <2>3. words \in [1..n -> Seq(C)] /\ DOMAIN words = 1..n
    BY <1>4, <2>1, <2>2
  <2>4. \A k \in 1..n : Len(words[k]) \in Few /\ Len(words[k]) # 0
    BY <1>3, <2>3 DEF Readable
  <2> QED BY <2>1, <2>2, <2>3, <2>4, Zenon
<1>6. "\n" \notin C /\ Blank \notin C
  BY <1>2 DEF Spaces
<1>7. PICK seqs, F : /\ seqs \in [1..n -> Seq(Chars(C))] /\ Partial(F, n, Chars(C), seqs)
                     /\ \A k \in 1..n : seqs[k] = Clause(words[k])
                     /\ F[n] \in Seq(Chars(C)) /\ Clauses(words) = F[n]
  BY <1>3, <1>4, ClausesJoin
<1>8. PICK buf : buf = Buffer(text)
  OBVIOUS
<1>9. PICK tail \in Seq(Chars(C)) : buf = <<"#">> \o Decimal(n) \o <<"\r", "\n">> \o (F[n] \o tail)
  <2>1. PICK tail \in Seq(Chars(C)) :
          Buffer(text) = <<"#">> \o Decimal(Len(words)) \o <<"\r", "\n">> \o (Clauses(words) \o tail)
    BY <1>1, <1>3, BufferIs
  <2> QED BY <1>4, <1>7, <1>8, <2>1, Zenon
<1>10. F[n] \o tail \in Seq(Chars(C))
  BY <1>7, Joins
<1>11. PICK rest : rest = F[n] \o tail
  OBVIOUS
<1>12. /\ Len(buf) \in Nat
       /\ \E h \in Nat : /\ h # 0 /\ buf[h] = "\n" /\ Lies(buf, h, rest)
                         /\ Seek(buf, 1, "#") + 1 = 2
                         /\ LineEnd(buf, 2) = h
                         /\ Line(buf, 2) = Decimal(n)
  <2>1. rest \in Seq(Chars(C))
    BY <1>10, <1>11
  <2>2. buf = <<"#">> \o Decimal(n) \o <<"\r", "\n">> \o rest
    BY <1>9, <1>11, Zenon
  <2> QED BY <1>5, <2>1, <2>2, HeaderLies
<1>26. PICK h \in Nat :
         /\ h # 0 /\ buf[h] = "\n" /\ Lies(buf, h, F[n] \o tail)
         /\ Seek(buf, 1, "#") + 1 = 2
         /\ LineEnd(buf, 2) = h
         /\ Line(buf, 2) = Decimal(n)
  BY <1>11, <1>12
<1>13. Lies(buf, h, F[n])
  BY <1>7, <1>26, <1>12, LiesApart
<1>14. \A k \in 1..n : Lies(buf, h + Len(F[k - 1]), Clause(words[k]))
                       /\ Len(F[k]) = Len(F[k - 1]) + Len(Clause(words[k]))
  <2>1. PartsIn(buf, h, n, F, seqs)
    BY <1>5, <1>7, <1>12, <1>13, PartsLie
  <2> QED BY <1>7, <2>1 DEF PartsIn
<1>15. \A k \in 0..n : Len(F[k]) \in Nat
  <2>1. \A k \in 0..n : F[k] \in Seq(Chars(C))
    BY <1>7 DEF Partial
  <2> QED BY <2>1
<1>16. PICK p : p = [k \in 0..n |-> IF k = 0 THEN 2
                                    ELSE Skip(buf, Seek(buf, Seek(buf, h + Len(F[k - 1]), "$"), Blank), Blank)]
  OBVIOUS
<1>17. F[0] = <<>> /\ Len(F[0]) = 0
  BY <1>7 DEF Partial
<1>18. ASSUME NEW k \in 1..n, buf[h + Len(F[k - 1])] = "\n"
       PROVE  /\ LineEnd(buf, p[k]) = h + Len(F[k])
              /\ buf[h + Len(F[k])] = "\n"
              /\ Line(buf, p[k]) = words[k]
  <2>1. PICK at : at = h + Len(F[k - 1])
    OBVIOUS
  <2>2. PICK w : w = words[k]
    OBVIOUS
  <2>3. k - 1 \in 0..n /\ at \in Nat /\ at # 0
    BY <1>5, <1>26, <1>15, <2>1
  <2>4. w \in Seq(C) /\ Len(w) \in Few /\ Len(w) # 0 /\ Lies(buf, at, Clause(w))
        /\ Len(F[k]) = Len(F[k - 1]) + Len(Clause(w))
    BY <1>5, <1>14, <2>1, <2>2
  <2>5. p[k] = Skip(buf, Seek(buf, Seek(buf, at, "$"), Blank), Blank)
    BY <1>5, <1>16, <2>1
  <2>6. buf[at] = "\n"
    BY <1>18, <2>1
  <2>7. /\ LineEnd(buf, p[k]) = at + Len(Clause(w))
        /\ buf[at + Len(Clause(w))] = "\n"
        /\ Line(buf, p[k]) = w
    BY <1>6, <1>12, <2>3, <2>4, <2>5, <2>6, ClauseIsRead
  <2>8. at + Len(Clause(w)) = h + Len(F[k])
    <3>1. Len(Clause(w)) \in Nat
      BY <2>4, ClausesHold
    <3> QED BY <1>26, <1>15, <2>1, <2>3, <2>4, <3>1
  <2> QED BY <2>2, <2>7, <2>8
<1>19. \A k \in 0..n : buf[h + Len(F[k])] = "\n" /\ LineEnd(buf, p[k]) = h + Len(F[k])
  <2> DEFINE Bad == {k \in 0..n : ~(buf[h + Len(F[k])] = "\n" /\ LineEnd(buf, p[k]) = h + Len(F[k]))}
  <2>1. SUFFICES ASSUME Bad # {} PROVE FALSE
    OBVIOUS
  <2>2. PICK m \in Bad : \A y \in Bad : m <= y
    <3>1. Bad \in SUBSET Nat
      OBVIOUS
    <3> HIDE DEF Bad
    <3> QED BY <2>1, <3>1, LeastOf
  <2>3. 0 \notin Bad
    <3>1. h + Len(F[0]) = h /\ p[0] = 2
      BY <1>5, <1>16, <1>17
    <3> QED BY <1>26, <3>1
  <2>4. m \in 1..n /\ m - 1 \in 0..n /\ m - 1 < m
    BY <1>5, <2>2, <2>3
  <2>5. m - 1 \notin Bad
    <3> HIDE DEF Bad
    <3> QED BY <2>2, <2>4
  <2>6. buf[h + Len(F[m - 1])] = "\n"
    BY <2>4, <2>5
  <2>7. m \notin Bad
    BY <1>18, <2>4, <2>6
  <2> QED BY <2>2, <2>7
<1>20. \A k \in 1..n : Line(buf, p[k]) = words[k]
  <2> TAKE k \in 1..n
  <2>1. k - 1 \in 0..n
    BY <1>5
  <2> QED BY <1>18, <1>19, <2>1
<1>21. Walks(buf, n, 2, p)
  <2>1. ASSUME NEW k \in 0..n
        PROVE  p[k] = IF k = 0 THEN 2 ELSE NextWord(buf, p[k - 1])
    <3>1. CASE k = 0
      BY <1>16, <3>1
    <3>2. CASE k # 0
      <4>1. k - 1 \in 0..n
        BY <1>5, <3>2
      <4>2. LineEnd(buf, p[k - 1]) = h + Len(F[k - 1])
        BY <1>19, <4>1
      <4> QED BY <1>16, <3>2, <4>2 DEF NextWord
    <3> QED BY <3>1, <3>2
  <2>2. [k \in 0..n |-> p[k]] = [k \in 0..n |-> IF k = 0 THEN 2 ELSE NextWord(buf, p[k - 1])]
    BY <2>1
  <2>3. p = [k \in 0..n |-> p[k]]
    BY <1>16
  <2> QED BY <2>2, <2>3 DEF Walks
<1>22. PICK g : Walks(buf, n, 2, g) /\ Words(buf) = [k \in 1..n |-> Line(buf, g[k])]
  <2>1. Number(Line(buf, 2)) = n
    BY <1>5, <1>26, NumberOfDecimal
  <2> QED BY <1>5, <1>26, <1>21, <2>1, WordsWalk
<1>23. \A k \in 0..n : g[k] = p[k]
  BY <1>5, <1>21, <1>22, WalksAgree
<1>24. \A k \in 1..n : Line(buf, g[k]) = words[k]
  BY <1>20, <1>23
<1>25. [k \in 1..n |-> Line(buf, g[k])] = [k \in 1..n |-> words[k]]
  BY <1>24
<1> QED BY <1>1, <1>5, <1>8, <1>22, <1>25 DEF Heard

-----------------------------------------------------------------------------
(* The words of the sentences a call sends.                                *)

LEMMA FewCounted ==
  ASSUME NEW a, NEW b, NEW c, a # b, a # c, b # c
  PROVE  Cardinality({a}) = 1 /\ Cardinality({a, b}) = 2 /\ Cardinality({a, b, c}) = 3
<1>1. IsFiniteSet({a}) /\ Cardinality({a}) = 1
  BY FS_Singleton
<1>2. {a, b} = {a} \cup {b} /\ b \notin {a}
  OBVIOUS
<1>3. IsFiniteSet({a, b}) /\ Cardinality({a, b}) = 2
  BY <1>1, <1>2, FS_AddElement
<1>4. {a, b, c} = {a, b} \cup {c} /\ c \notin {a, b}
  OBVIOUS
<1>5. Cardinality({a, b, c}) = 3
  BY <1>3, <1>4, FS_AddElement
<1> QED BY <1>1, <1>3, <1>5

\* Where the words of a text with two or three of them begin.
LEMMA StartsInOrder ==
  ASSUME NEW text, NEW b \in Nat, NEW c \in Nat, 1 < b, b < c
  PROVE  /\ Starts(text) = {1, b} => /\ Cardinality(Starts(text)) = 2
                                     /\ BeginsAt(text, 1) = 1 /\ BeginsAt(text, 2) = b
         /\ Starts(text) = {1, b, c} => /\ Cardinality(Starts(text)) = 3
                                        /\ BeginsAt(text, 1) = 1 /\ BeginsAt(text, 2) = b
                                        /\ BeginsAt(text, 3) = c
<1>1. PICK S : S = Starts(text)
  OBVIOUS
<1>2. PICK card : card = [i \in S |-> Cardinality({j \in S : j <= i})]
  OBVIOUS
<1>3. \A n : BeginsAt(text, n) = CHOOSE i \in S : card[i] = n
  BY <1>1, <1>2 DEF BeginsAt
<1>4. Cardinality({1}) = 1 /\ Cardinality({1, b}) = 2 /\ Cardinality({1, b, c}) = 3
  <2>1. PICK one : one = 1
    OBVIOUS
  <2>2. one # b /\ one # c /\ b # c
    BY <2>1
  <2>3. Cardinality({one}) = 1 /\ Cardinality({one, b}) = 2 /\ Cardinality({one, b, c}) = 3
    BY <2>2, FewCounted, Zenon
  <2> QED BY <2>1, <2>3
<1>5. ASSUME S = {1, b}
      PROVE  card[1] = 1 /\ card[b] = 2
  <2>1. {j \in S : j <= 1} = {1} /\ {j \in S : j <= b} = {1, b}
    BY <1>5
  <2> QED BY <1>2, <1>4, <1>5, <2>1
<1>6. ASSUME S = {1, b, c}
      PROVE  card[1] = 1 /\ card[b] = 2 /\ card[c] = 3
  <2>1. {j \in S : j <= 1} = {1} /\ {j \in S : j <= b} = {1, b} /\ {j \in S : j <= c} = {1, b, c}
    BY <1>6
  <2> QED BY <1>2, <1>4, <1>6, <2>1
<1>7. ASSUME S = {1, b}
      PROVE  BeginsAt(text, 1) = 1 /\ BeginsAt(text, 2) = b
  BY <1>3, <1>5, <1>7
<1>8. ASSUME S = {1, b, c}
      PROVE  BeginsAt(text, 1) = 1 /\ BeginsAt(text, 2) = b /\ BeginsAt(text, 3) = c
  BY <1>3, <1>6, <1>8
<1> QED BY <1>1, <1>4, <1>7, <1>8

LEMMA TwoWords ==
  ASSUME NEW T, NEW text \in Seq(T), NEW m, m = Len(text), NEW b \in 2..(m - 1),
         text[b] \in Spaces, \A k \in 1..m : k # b => text[k] \notin Spaces
  PROVE  /\ Len(WordsOf(text)) = 2
         /\ WordsOf(text)[1] = SubSeq(text, 1, b - 1)
         /\ WordsOf(text)[2] = SubSeq(text, b + 1, m)
<1>1. m \in Nat /\ DOMAIN text = 1..m /\ 1 < b /\ b < m
  OBVIOUS
<1>2. Starts(text) = {1, b + 1}
  <2>1. ASSUME NEW i \in 1..m
        PROVE  (text[i] \notin Spaces /\ (i = 1 \/ text[i - 1] \in Spaces)) <=> i \in {1, b + 1}
    <3>1. CASE i = 1
      BY <1>1, <3>1
    <3>2. CASE i = b + 1
      <4>1. i - 1 = b /\ i # b
        BY <3>2
      <4> QED BY <3>2, <4>1
    <3>3. CASE i # 1 /\ i # b + 1
      <4>1. i - 1 \in 1..m /\ i - 1 # b
        BY <3>3
      <4> QED BY <3>3, <4>1
    <3> QED BY <3>1, <3>2, <3>3
  <2>2. 1 \in 1..m /\ b + 1 \in 1..m
    BY <1>1
  <2>3. Starts(text) = {i \in 1..m : text[i] \notin Spaces /\ (i = 1 \/ text[i - 1] \in Spaces)}
    BY <1>1 DEF Starts
  <2> QED BY <2>1, <2>2, <2>3
<1>3. Cardinality(Starts(text)) = 2 /\ BeginsAt(text, 1) = 1 /\ BeginsAt(text, 2) = b + 1
  <2>1. b + 1 \in Nat /\ (b + 1) + 1 \in Nat /\ 1 < b + 1 /\ b + 1 < (b + 1) + 1
    OBVIOUS
  <2> QED BY <1>2, <2>1, StartsInOrder
<1>4. WordAt(text, 1) = SubSeq(text, 1, b - 1)
  <2>1. 1 \in 1..m /\ b - 1 \in 1..m /\ (b - 1) + 1 = b
    BY <1>1
  <2>2. Run(text, 1, b - 1)
    <3>1. \A k \in 1..(b - 1) : k \in 1..m /\ k # b
      BY <1>1
    <3> QED BY <2>1, <3>1 DEF Run
  <2> QED BY <1>1, <2>1, <2>2, WordAtIs
<1>5. WordAt(text, b + 1) = SubSeq(text, b + 1, m)
  <2>1. b + 1 \in 1..m /\ m \in (b + 1)..m
    BY <1>1
  <2>2. Run(text, b + 1, m)
    <3>1. \A k \in (b + 1)..m : k \in 1..m /\ k # b
      BY <1>1
    <3> QED BY <3>1 DEF Run
  <2> QED BY <1>1, <2>1, <2>2, WordAtIs
<1>6. WordsOf(text) = [n \in 1..2 |-> WordAt(text, BeginsAt(text, n))]
  BY <1>3 DEF WordsOf
<1>7. 1 \in 1..2 /\ 2 \in 1..2
  OBVIOUS
<1>8. Len(WordsOf(text)) = 2
  BY <1>6
<1> QED BY <1>3, <1>4, <1>5, <1>6, <1>7, <1>8

\* White space at b and c and nowhere else.
Gaps(text, m, b, c) ==
  /\ m = Len(text) /\ b \in 2..m /\ c \in (b + 2)..(m - 1)
  /\ text[b] \in Spaces /\ text[c] \in Spaces
  /\ \A k \in 1..m : k # b /\ k # c => text[k] \notin Spaces

LEMMA ThreeWords ==
  ASSUME NEW T, NEW text \in Seq(T), NEW m, NEW b, NEW c, Gaps(text, m, b, c)
  PROVE  /\ Len(WordsOf(text)) = 3
         /\ WordsOf(text)[1] = SubSeq(text, 1, b - 1)
         /\ WordsOf(text)[2] = SubSeq(text, b + 1, c - 1)
         /\ WordsOf(text)[3] = SubSeq(text, c + 1, m)
<1> USE DEF Gaps
<1>1. m \in Nat /\ DOMAIN text = 1..m /\ 1 < b /\ b + 1 < c /\ c < m
  OBVIOUS
<1>2. Starts(text) = {1, b + 1, c + 1}
  <2>1. ASSUME NEW i \in 1..m
        PROVE  (text[i] \notin Spaces /\ (i = 1 \/ text[i - 1] \in Spaces)) <=> i \in {1, b + 1, c + 1}
    <3>1. CASE i = 1
      BY <1>1, <3>1
    <3>2. CASE i = b + 1
      <4>1. i - 1 = b /\ i # b /\ i # c
        BY <1>1, <3>2
      <4> QED BY <3>2, <4>1
    <3>3. CASE i = c + 1
      <4>1. i - 1 = c /\ i # b /\ i # c
        BY <1>1, <3>3
      <4> QED BY <3>3, <4>1
    <3>4. CASE i # 1 /\ i # b + 1 /\ i # c + 1
      <4>1. i - 1 \in 1..m /\ i - 1 # b /\ i - 1 # c
        BY <1>1, <3>4
      <4> QED BY <3>4, <4>1
    <3> QED BY <3>1, <3>2, <3>3, <3>4
  <2>2. 1 \in 1..m /\ b + 1 \in 1..m /\ c + 1 \in 1..m
    BY <1>1
  <2>3. Starts(text) = {i \in 1..m : text[i] \notin Spaces /\ (i = 1 \/ text[i - 1] \in Spaces)}
    BY <1>1 DEF Starts
  <2> QED BY <2>1, <2>2, <2>3
<1>3. Cardinality(Starts(text)) = 3 /\ BeginsAt(text, 1) = 1 /\ BeginsAt(text, 2) = b + 1
      /\ BeginsAt(text, 3) = c + 1
  <2>1. PICK f, g : f = b + 1 /\ g = c + 1
    OBVIOUS
  <2>2. f \in Nat /\ g \in Nat /\ 1 < f /\ f < g
    BY <1>1, <2>1
  <2>3. Starts(text) = {1, f, g}
    BY <1>2, <2>1
  <2>4. Cardinality(Starts(text)) = 3 /\ BeginsAt(text, 1) = 1 /\ BeginsAt(text, 2) = f /\ BeginsAt(text, 3) = g
    BY <2>2, <2>3, StartsInOrder
  <2> QED BY <2>1, <2>4
<1>4. WordAt(text, 1) = SubSeq(text, 1, b - 1)
  <2>1. 1 \in 1..m /\ b - 1 \in 1..m /\ (b - 1) + 1 = b
    BY <1>1
  <2>2. Run(text, 1, b - 1)
    <3>1. \A k \in 1..(b - 1) : k \in 1..m /\ k # b /\ k # c
      BY <1>1
    <3> QED BY <2>1, <3>1 DEF Run
  <2> QED BY <1>1, <2>1, <2>2, WordAtIs
<1>5. WordAt(text, b + 1) = SubSeq(text, b + 1, c - 1)
  <2>1. b + 1 \in 1..m /\ c - 1 \in (b + 1)..m /\ (c - 1) + 1 = c
    BY <1>1
  <2>2. Run(text, b + 1, c - 1)
    <3>1. \A k \in (b + 1)..(c - 1) : k \in 1..m /\ k # b /\ k # c
      BY <1>1
    <3> QED BY <2>1, <3>1 DEF Run
  <2> QED BY <1>1, <2>1, <2>2, WordAtIs
<1>6. WordAt(text, c + 1) = SubSeq(text, c + 1, m)
  <2>1. c + 1 \in 1..m /\ m \in (c + 1)..m
    BY <1>1
  <2>2. Run(text, c + 1, m)
    <3>1. \A k \in (c + 1)..m : k \in 1..m /\ k # b /\ k # c
      BY <1>1
    <3> QED BY <3>1 DEF Run
  <2> QED BY <1>1, <2>1, <2>2, WordAtIs
<1>7. WordsOf(text) = [n \in 1..3 |-> WordAt(text, BeginsAt(text, n))]
  BY <1>3 DEF WordsOf
<1>8. 1 \in 1..3 /\ 2 \in 1..3 /\ 3 \in 1..3
  OBVIOUS
<1>9. Len(WordsOf(text)) = 3
  BY <1>7
<1> QED BY <1>3, <1>4, <1>5, <1>6, <1>7, <1>8, <1>9

\* What names of elements and the numbers behind them are made of.
Spoken == Letters \cup Numerals \cup {"N", "E", "W", "S", "T", "G", "D"}
Said   == Spoken \cup {Blank}

LEMMA SpokenIsPlain == \A x \in Spoken : x \notin Spaces
<1>1. \A x \in Letters : x \notin Spaces
  BY ConnectorAssumption
<1>2. \A x \in {"N", "E", "W", "S", "T", "G", "D"} : x # Blank
  BY Zenon DEF Blank
<1>3. \A x \in {"N", "E", "W", "S", "T", "G", "D"} : x # "\t" /\ x # "\n" /\ x # "\f" /\ x # "\r"
  BY Zenon
<1>4. \A x \in {"N", "E", "W", "S", "T", "G", "D"} : x \notin Spaces
  BY <1>2, <1>3 DEF Spaces
<1> QED BY <1>1, <1>4, NumeralsArePlain DEF Spoken

\* A part of a longer text.
IsPart(text, a, b, s) ==
  /\ a \in Nat /\ b \in Nat /\ (b - a) + 1 = Len(s)
  /\ \A q \in 1..Len(s) : text[(a + q) - 1] = s[q]

LEMMA PartIs ==
  ASSUME NEW text, NEW S, NEW s \in Seq(S), NEW a, NEW b, IsPart(text, a, b, s)
  PROVE  SubSeq(text, a, b) = s
<1> USE DEF IsPart
<1>1. SubSeq(text, a, b) = PartOf(text, a, b)
  BY SubSeqIs
<1>2. PICK n : n = Len(s)
  OBVIOUS
<1>3. PartOf(text, a, b) = [q \in 1..n |-> text[(a + q) - 1]]
  BY <1>2 DEF PartOf
<1>4. [q \in 1..n |-> text[(a + q) - 1]] = [q \in 1..n |-> s[q]]
  BY <1>2
<1>5. s = [q \in 1..n |-> s[q]]
  BY <1>2
<1> QED BY <1>1, <1>3, <1>4, <1>5

\* What is said of an element: SET, GET and DES, and NEW with the size d.
Called(x, y, z, e) == <<x, y, z, Blank>> \o e
Asks(e, d)         == <<"N", "E", "W", Blank>> \o e \o <<Blank>> \o d

LEMMA TwoSaid ==
  ASSUME NEW x \in Spoken, NEW y \in Spoken, NEW z \in Spoken, NEW e \in Seq(Spoken), Len(e) # 0,
         NEW text, text = Called(x, y, z, e)
  PROVE  /\ text \in Seq(Said) /\ Len(text) = Len(e) + 4
         /\ Len(WordsOf(text)) = 2 /\ Len(WordsOf(text)[1]) = 3 /\ WordsOf(text)[2] = e
<1>1. PICK op : op = <<x, y, z, Blank>>
  OBVIOUS
<1>2. op \in Seq(Said) /\ e \in Seq(Said) /\ Len(op) = 4
  BY <1>1 DEF Said
<1>3. text = op \o e
  BY <1>1 DEF Called
<1>4. text \in Seq(Said) /\ Joined(op, e, text)
  BY <1>2, <1>3, Joins
<1>5. PICK m : m = Len(text)
  OBVIOUS
<1>6. m = Len(e) + 4 /\ Len(e) \in Nat
  <2>1. m = Len(op) + Len(e) /\ Len(e) \in Nat
    BY <1>4, <1>5 DEF Joined
  <2> QED BY <1>2, <2>1
<1>7. \A q \in 1..4 : text[q] = op[q]
  BY <1>2, <1>4 DEF Joined
<1>8. \A q \in 1..Len(e) : text[4 + q] = e[q]
  BY <1>2, <1>4 DEF Joined
<1>9. text[4] \in Spaces
  <2>1. text[4] = Blank
    BY <1>1, <1>7
  <2> QED BY <2>1 DEF Spaces
<1>10. ASSUME NEW k \in 1..m, k # 4
       PROVE  text[k] \notin Spaces
  <2>1. CASE k \in 1..3
    <3>1. text[k] \in {x, y, z}
      BY <1>1, <1>7, <2>1
    <3> QED BY <3>1, SpokenIsPlain
  <2>2. CASE k \notin 1..3
    <3>1. k - 4 \in 1..Len(e) /\ 4 + (k - 4) = k
      BY <1>6, <1>10, <2>2
    <3>2. text[k] = e[k - 4] /\ e[k - 4] \in Spoken
      BY <1>8, <3>1
    <3> QED BY <3>2, SpokenIsPlain
  <2> QED BY <2>1, <2>2
<1>11. PICK four : four = 4
  OBVIOUS
<1>12. four \in 2..(m - 1) /\ text[four] \in Spaces /\ \A k \in 1..m : k # four => text[k] \notin Spaces
  BY <1>6, <1>9, <1>10, <1>11
<1>13. /\ Len(WordsOf(text)) = 2
       /\ WordsOf(text)[1] = SubSeq(text, 1, four - 1)
       /\ WordsOf(text)[2] = SubSeq(text, four + 1, m)
  BY <1>4, <1>5, <1>12, TwoWords
<1>14. Len(SubSeq(text, 1, four - 1)) = 3
  BY <1>4, <1>5, <1>6, <1>11
<1>15. SubSeq(text, four + 1, m) = e
  <2>1. PICK a : a = four + 1
    OBVIOUS
  <2>2. a \in Nat /\ m \in Nat /\ (m - a) + 1 = Len(e) /\ \A q \in 1..Len(e) : (a + q) - 1 = 4 + q
    BY <1>6, <1>11, <2>1
  <2>3. \A q \in 1..Len(e) : text[(a + q) - 1] = e[q]
    BY <1>8, <2>2
  <2>5. IsPart(text, a, m, e)
    BY <2>2, <2>3 DEF IsPart
  <2>4. SubSeq(text, a, m) = e
    BY <2>5, PartIs
  <2> QED BY <2>1, <2>4
<1> QED BY <1>4, <1>5, <1>6, <1>13, <1>14, <1>15

\* NEW of an element.
Worded(e) == e \in Seq(Spoken) /\ Len(e) # 0

LEMMA ThreeSaid ==
  ASSUME NEW e, Worded(e), NEW d, Worded(d), NEW text, text = Asks(e, d)
  PROVE  /\ text \in Seq(Said) /\ Len(text) = Len(e) + 5 + Len(d)
         /\ Len(WordsOf(text)) = 3 /\ Len(WordsOf(text)[1]) = 3
         /\ WordsOf(text)[2] = e /\ WordsOf(text)[3] = d
<1> USE DEF Worded
<1>0. PICK said, x, y, z : said = text /\ x = "N" /\ y = "E" /\ z = "W"
  OBVIOUS
<1>22. x \in Spoken /\ y \in Spoken /\ z \in Spoken
  BY <1>0 DEF Spoken
<1>1. PICK op, gap : op = <<x, y, z, Blank>> /\ gap = <<Blank>>
  OBVIOUS
<1>2. op \in Seq(Said) /\ e \in Seq(Said) /\ d \in Seq(Said) /\ gap \in Seq(Said) /\ Len(op) = 4 /\ Len(gap) = 1
  BY <1>1, <1>22 DEF Said
<1>3. PICK u, w : u = op \o e /\ w = u \o gap
  OBVIOUS
<1>4. u \in Seq(Said) /\ Joined(op, e, u)
  BY <1>2, <1>3, Joins
<1>5. w \in Seq(Said) /\ Joined(u, gap, w)
  BY <1>2, <1>3, <1>4, Joins
<1>6. said = w \o d
  BY <1>0, <1>1, <1>3 DEF Asks
<1>7. said \in Seq(Said) /\ Joined(w, d, said)
  BY <1>2, <1>5, <1>6, Joins
<1>8. PICK m, n : m = Len(said) /\ n = Len(e)
  OBVIOUS
<1>9. n \in Nat /\ n # 0 /\ Len(d) \in Nat /\ Len(u) = n + 4 /\ Len(w) = n + 5 /\ m = n + 5 + Len(d)
  BY <1>2, <1>4, <1>5, <1>7, <1>8 DEF Joined
<1>10. \A q \in 1..4 : said[q] = op[q]
  <2>1. ASSUME NEW q \in 1..4
        PROVE  said[q] = op[q]
    <3>1. q \in 1..Len(op) /\ q \in 1..Len(u) /\ q \in 1..Len(w)
      BY <1>2, <1>9
    <3>2. said[q] = w[q]
      BY <1>7, <3>1 DEF Joined
    <3>3. w[q] = u[q]
      BY <1>5, <3>1 DEF Joined
    <3>4. u[q] = op[q]
      BY <1>4, <3>1 DEF Joined
    <3> QED BY <3>2, <3>3, <3>4
  <2> QED BY <2>1
<1>11. \A q \in 1..n : said[4 + q] = e[q]
  <2>1. ASSUME NEW q \in 1..n
        PROVE  said[4 + q] = e[q]
    <3>1. q \in 1..Len(e) /\ 4 + q \in 1..Len(u) /\ 4 + q \in 1..Len(w)
      BY <1>8, <1>9
    <3>2. said[4 + q] = w[4 + q]
      BY <1>7, <3>1 DEF Joined
    <3>3. w[4 + q] = u[4 + q]
      BY <1>5, <3>1 DEF Joined
    <3>4. u[4 + q] = e[q]
      BY <1>2, <1>4, <3>1 DEF Joined
    <3> QED BY <3>2, <3>3, <3>4
  <2> QED BY <2>1
<1>12. said[n + 5] = Blank
  <2>1. n + 5 \in 1..Len(w) /\ (n + 4) + 1 = n + 5 /\ 1 \in 1..Len(gap)
    BY <1>2, <1>9
  <2>2. said[n + 5] = w[n + 5]
    BY <1>7, <2>1 DEF Joined
  <2>3. w[Len(u) + 1] = gap[1]
    BY <1>5, <2>1 DEF Joined
  <2>4. w[n + 5] = gap[1]
    BY <1>9, <2>1, <2>3
  <2> QED BY <1>1, <2>2, <2>4
<1>13. \A q \in 1..Len(d) : said[(n + 5) + q] = d[q]
  BY <1>7, <1>9 DEF Joined
<1>14. said[4] = Blank
  BY <1>1, <1>10
<1>15. ASSUME NEW k \in 1..m, k # 4, k # n + 5
       PROVE  said[k] \notin Spaces
  <2>1. CASE k \in 1..3
    <3>1. said[k] \in {x, y, z}
      BY <1>1, <1>10, <2>1
    <3> QED BY <1>22, <3>1, SpokenIsPlain
  <2>2. CASE k \in 5..(n + 4)
    <3>1. k - 4 \in 1..n /\ 4 + (k - 4) = k
      BY <1>9, <2>2
    <3>2. said[k] = e[k - 4] /\ e[k - 4] \in Spoken
      BY <1>8, <1>11, <3>1
    <3> QED BY <3>2, SpokenIsPlain
  <2>3. CASE k \notin 1..3 /\ k \notin 5..(n + 4)
    <3>1. PICK r : r = k - (n + 5)
      OBVIOUS
    <3>2. r \in 1..Len(d) /\ (n + 5) + r = k
      BY <1>9, <1>15, <2>3, <3>1
    <3>4. said[(n + 5) + r] = d[r]
      BY <1>13, <3>2
    <3>5. d[r] \in Spoken
      BY <3>2
    <3>3. said[k] = d[r] /\ d[r] \in Spoken
      BY <3>2, <3>4, <3>5
    <3> QED BY <3>3, SpokenIsPlain
  <2> QED BY <2>1, <2>2, <2>3
<1>16. PICK b, c : b = 4 /\ c = n + 5
  OBVIOUS
<1>17. /\ b \in 2..m /\ c \in (b + 2)..(m - 1) /\ said[b] \in Spaces /\ said[c] \in Spaces
       /\ \A k \in 1..m : k # b /\ k # c => said[k] \notin Spaces
       /\ m = Len(said) /\ said \in Seq(Said)
  <2>1. b \in 2..m /\ c \in (b + 2)..(m - 1)
    BY <1>2, <1>9, <1>16
  <2>2. said[b] \in Spaces /\ said[c] \in Spaces
    BY <1>12, <1>14, <1>16 DEF Spaces
  <2>3. \A k \in 1..m : k # b /\ k # c => said[k] \notin Spaces
    BY <1>15, <1>16
  <2> QED BY <1>7, <1>8, <2>1, <2>2, <2>3
<1>18. /\ Len(WordsOf(said)) = 3
       /\ WordsOf(said)[1] = SubSeq(said, 1, b - 1)
       /\ WordsOf(said)[2] = SubSeq(said, b + 1, c - 1)
       /\ WordsOf(said)[3] = SubSeq(said, c + 1, m)
  <2>1. Gaps(said, m, b, c)
    BY <1>17, Zenon DEF Gaps
  <2> QED BY <1>7, <2>1, ThreeWords
<1>19. Len(SubSeq(said, 1, b - 1)) = 3
  BY <1>7, <1>8, <1>9, <1>16
<1>20. SubSeq(said, b + 1, c - 1) = e
  <2>1. PICK a, z1 : a = b + 1 /\ z1 = c - 1
    OBVIOUS
  <2>2. a \in Nat /\ z1 \in Nat /\ (z1 - a) + 1 = n /\ \A q \in 1..n : (a + q) - 1 = 4 + q
    BY <1>9, <1>16, <2>1
  <2>3. \A q \in 1..Len(e) : said[(a + q) - 1] = e[q]
    BY <1>8, <1>11, <2>2
  <2>5. IsPart(said, a, z1, e)
    BY <1>8, <2>2, <2>3 DEF IsPart
  <2>4. SubSeq(said, a, z1) = e
    BY <2>5, PartIs
  <2> QED BY <2>1, <2>4
<1>21. SubSeq(said, c + 1, m) = d
  <2>1. PICK a : a = c + 1
    OBVIOUS
  <2>2. a \in Nat /\ m \in Nat /\ (m - a) + 1 = Len(d) /\ \A q \in 1..Len(d) : (a + q) - 1 = (n + 5) + q
    BY <1>9, <1>16, <2>1
  <2>3. \A q \in 1..Len(d) : said[(a + q) - 1] = d[q]
    BY <1>13, <2>2
  <2>5. IsPart(said, a, m, d)
    BY <2>2, <2>3 DEF IsPart
  <2>4. SubSeq(said, a, m) = d
    BY <2>5, PartIs
  <2> QED BY <2>1, <2>4
<1> QED BY <1>0, <1>7, <1>8, <1>9, <1>18, <1>19, <1>20, <1>21

LEMMA ClauseLength ==
  ASSUME NEW C, NEW w \in Seq(C), Len(w) \in Few
  PROVE  /\ Len(Clause(w)) = Len(w) + Len(Decimal(Len(w))) + 4
         /\ Len(w) \in Nat /\ Len(Decimal(Len(w))) \in Nat
<1>1. Decimal(Len(w)) \in Seq(Chars(C)) /\ <<"$">> \in Seq(Chars(C)) /\ <<Blank>> \in Seq(Chars(C))
      /\ <<"\r", "\n">> \in Seq(Chars(C)) /\ w \in Seq(Chars(C))
  BY CharsHold
<1>2. PICK a, b, c, d : a = <<"$">> /\ b = <<Blank>> /\ c = <<"\r", "\n">> /\ d = Decimal(Len(w))
  OBVIOUS
<1>3. Len(a) = 1 /\ Len(b) = 1 /\ Len(c) = 2
  BY <1>2
<1>4. PICK u, v, x, y : u = a \o d /\ v = u \o b /\ x = v \o w /\ y = x \o c
  OBVIOUS
<1>5. Clause(w) = y
  BY <1>2, <1>4 DEF Clause
<1>6. u \in Seq(Chars(C)) /\ Len(u) = Len(a) + Len(d)
  BY <1>1, <1>2, <1>4, Joins DEF Joined
<1>7. v \in Seq(Chars(C)) /\ Len(v) = Len(u) + Len(b)
  BY <1>1, <1>2, <1>4, <1>6, Joins DEF Joined
<1>8. x \in Seq(Chars(C)) /\ Len(x) = Len(v) + Len(w)
  BY <1>1, <1>4, <1>7, Joins DEF Joined
<1>9. y \in Seq(Chars(C)) /\ Len(y) = Len(x) + Len(c)
  BY <1>1, <1>2, <1>4, <1>8, Joins DEF Joined
<1>10. Len(w) \in Nat /\ Len(d) \in Nat
  BY <1>1, <1>2
<1>11. Len(y) = Len(w) + Len(d) + 4
  BY <1>3, <1>6, <1>7, <1>8, <1>9, <1>10
<1> QED BY <1>2, <1>5, <1>10, <1>11

LEMMA SentenceLength ==
  ASSUME NEW words, NEW C, Readable(words, C), NEW text, WordsOf(text) = words
  PROVE  /\ Len(words) = 2 =>
              Len(Sentence(text)) = 4 + Len(Clause(words[1])) + Len(Clause(words[2]))
         /\ Len(words) = 3 =>
              Len(Sentence(text)) = 4 + Len(Clause(words[1])) + Len(Clause(words[2])) + Len(Clause(words[3]))
<1>1. PICK n : n = Len(words)
  OBVIOUS
<1>2. n \in Few /\ n \in Nat
  BY <1>1, FewAreNat DEF Readable
<1>3. PICK seqs, F : /\ seqs \in [1..n -> Seq(Chars(C))] /\ Partial(F, n, Chars(C), seqs)
                     /\ \A k \in 1..n : seqs[k] = Clause(words[k])
                     /\ F[n] \in Seq(Chars(C)) /\ Clauses(words) = F[n]
  BY <1>1, ClausesJoin
<1>4. PICK a, z, d : a = <<"#">> /\ z = <<"\r", "\n">> /\ d = Decimal(n)
  OBVIOUS
<1>5. a \in Seq(Chars(C)) /\ z \in Seq(Chars(C)) /\ d \in Seq(Chars(C)) /\ Len(a) = 1 /\ Len(z) = 2
  BY <1>2, <1>4, CharsHold
<1>6. PICK u, v : u = a \o d /\ v = u \o z
  OBVIOUS
<1>7. u \in Seq(Chars(C)) /\ Len(u) = Len(a) + Len(d)
  BY <1>5, <1>6, Joins DEF Joined
<1>8. v \in Seq(Chars(C)) /\ Len(v) = Len(u) + Len(z)
  BY <1>5, <1>6, <1>7, Joins DEF Joined
<1>9. Sentence(text) = v \o Clauses(words)
  BY <1>1, <1>4, <1>6, Zenon DEF Sentence, Clauses
<1>10. Len(Sentence(text)) = Len(v) + Len(F[n])
  <2>1. PICK r : r = F[n]
    OBVIOUS
  <2>2. r \in Seq(Chars(C)) /\ Sentence(text) = v \o r
    BY <1>3, <1>9, <2>1
  <2>3. Joined(v, r, v \o r)
    BY <1>8, <2>2, Joins
  <2>4. Len(v \o r) = Len(v) + Len(r)
    BY <2>3 DEF Joined
  <2> QED BY <2>1, <2>2, <2>4
<1>11. PICK l, c : l = [k \in 0..n |-> Len(F[k])] /\ c = [k \in 1..n |-> Len(Clause(words[k]))]
  OBVIOUS
<1>12. l[0] = 0 /\ Len(Sentence(text)) = Len(v) + l[n]
  <2>1. F[0] = <<>> /\ 0 \in 0..n /\ n \in 0..n
    BY <1>2, <1>3 DEF Partial
  <2> QED BY <1>10, <1>11, <2>1
<1>13. ASSUME NEW k \in 1..n
       PROVE  l[k] = l[k - 1] + c[k] /\ l[k - 1] \in Nat /\ c[k] \in Nat /\ c[k] = Len(Clause(words[k]))
  <2>1. k \in 0..n /\ k - 1 \in 0..n
    BY <1>2
  <2>2. PICK p, q, r : p = F[k - 1] /\ q = seqs[k] /\ r = F[k]
    OBVIOUS
  <2>3. p \in Seq(Chars(C)) /\ r = p \o q /\ q \in Seq(Chars(C))
    BY <1>3, <2>1, <2>2 DEF Partial
  <2>4. Len(r) = Len(p) + Len(q) /\ Len(p) \in Nat /\ Len(q) \in Nat
    BY <2>3, Joins DEF Joined
  <2>5. l[k] = Len(r) /\ l[k - 1] = Len(p)
    BY <1>11, <2>1, <2>2
  <2>6. c[k] = Len(q) /\ c[k] = Len(Clause(words[k]))
    BY <1>3, <1>11, <2>2
  <2> QED BY <2>4, <2>5, <2>6
<1>14. Len(v) = Len(d) + 3
  <2>1. Len(d) \in Nat
    BY <1>5
  <2> QED BY <1>5, <1>7, <1>8, <2>1
<1>15. ASSUME n < 10
       PROVE  Len(v) = 4
  <2>1. Len(d) = 1
    BY <1>2, <1>4, <1>15, DecimalCases
  <2> QED BY <1>14, <2>1
<1>16. ASSUME n = 2
       PROVE  Len(Sentence(text)) = 4 + Len(Clause(words[1])) + Len(Clause(words[2]))
  <2>1. l[1] = l[1 - 1] + c[1] /\ c[1] \in Nat /\ c[1] = Len(Clause(words[1]))
    BY <1>13, <1>16
  <2>2. l[2] = l[2 - 1] + c[2] /\ c[2] \in Nat /\ c[2] = Len(Clause(words[2]))
    BY <1>13, <1>16
  <2>3. Len(v) = 4
    BY <1>15, <1>16
  <2>4. l[1] = c[1]
    BY <1>12, <2>1
  <2>5. l[2] = c[1] + c[2]
    BY <2>2, <2>4
  <2>6. Len(Sentence(text)) = 4 + l[2]
    BY <1>12, <1>16, <2>3
  <2>7. 4 + (c[1] + c[2]) = 4 + c[1] + c[2]
    BY <2>1, <2>2
  <2> QED BY <2>1, <2>2, <2>5, <2>6, <2>7
<1>17. ASSUME n = 3
       PROVE  Len(Sentence(text)) = 4 + Len(Clause(words[1])) + Len(Clause(words[2])) + Len(Clause(words[3]))
  <2>1. l[1] = l[1 - 1] + c[1] /\ c[1] \in Nat /\ c[1] = Len(Clause(words[1]))
    BY <1>13, <1>17
  <2>2. l[2] = l[2 - 1] + c[2] /\ c[2] \in Nat /\ c[2] = Len(Clause(words[2]))
    BY <1>13, <1>17
  <2>3. l[3] = l[3 - 1] + c[3] /\ c[3] \in Nat /\ c[3] = Len(Clause(words[3]))
    BY <1>13, <1>17
  <2>4. Len(v) = 4
    BY <1>15, <1>17
  <2>5. l[1] = c[1]
    BY <1>12, <2>1
  <2>6. l[2] = c[1] + c[2]
    BY <2>2, <2>5
  <2>7. l[3] = (c[1] + c[2]) + c[3]
    BY <2>3, <2>6
  <2>8. Len(Sentence(text)) = 4 + l[3]
    BY <1>12, <1>17, <2>4
  <2>9. 4 + ((c[1] + c[2]) + c[3]) = 4 + c[1] + c[2] + c[3]
    BY <2>1, <2>2, <2>3
  <2> QED BY <2>1, <2>2, <2>3, <2>7, <2>8, <2>9
<1> QED BY <1>1, <1>16, <1>17

\* A name that is one word and leaves room for what is said of it.
Short(e) == e \in Seq(Spoken) /\ Len(e) # 0 /\ Len(e) + 9 \in Few

LEMMA ShortFits ==
  ASSUME NEW e, Short(e), NEW m \in Nat, m <= Len(e) + 9
  PROVE  m <= 999 /\ Len(e) \in Few /\ Len(e) \in Nat
<1>1. PICK n : n = Len(e)
  OBVIOUS
<1>2. n \in Nat /\ n + 9 \in Few
  BY <1>1 DEF Short
<1>3. n + 9 <= 999 /\ n \in Few
  BY <1>2 DEF Few
<1>4. m <= 999
  BY <1>1, <1>2, <1>3
<1> QED BY <1>1, <1>2, <1>3, <1>4

\* How long a sentence of two words is.
Adds(text, e) ==
  \E w \in Seq(Said \ Spaces) : Len(w) = 3 /\ Len(Sentence(text)) = 4 + Len(Clause(w)) + Len(Clause(e))

\* The same words, said again by sRead().
LEMMA TwoHeard ==
  ASSUME NEW x \in Spoken, NEW y \in Spoken, NEW z \in Spoken, NEW e, Short(e),
         NEW text, text = Called(x, y, z, e)
  PROVE  /\ Sendable(text) => Heard(text)[2] = e
         /\ Adds(text, e)
<1>1. PICK said : said = text
  OBVIOUS
<1>2. e \in Seq(Spoken) /\ Len(e) # 0
  BY DEF Short
<1>3. /\ said \in Seq(Said) /\ Len(said) = Len(e) + 4
      /\ Len(WordsOf(said)) = 2 /\ Len(WordsOf(said)[1]) = 3 /\ WordsOf(said)[2] = e
  BY <1>1, <1>2, TwoSaid
<1>4. Len(said) <= 999
  <2>1. Len(said) \in Nat /\ Len(said) <= Len(e) + 9
    BY <1>2, <1>3
  <2> QED BY <2>1, ShortFits
<1>5. PICK words : words = WordsOf(said)
  OBVIOUS
<1>6. Readable(words, Said \ Spaces)
  BY <1>3, <1>4, <1>5, WordsAreReadable
<1>7. ASSUME Sendable(said)
      PROVE  Heard(said)[2] = e
  <2>1. Heard(said) = WordsOf(said)
    BY <1>3, <1>4, <1>7, SentencesAreHeard
  <2> QED BY <1>3, <2>1
<1>8. Len(Sentence(said)) = 4 + Len(Clause(words[1])) + Len(Clause(e))
  BY <1>3, <1>5, <1>6, SentenceLength
<1>9. words[1] \in Seq(Said \ Spaces) /\ Len(words[1]) = 3
  <2>1. Len(words) = 2
    BY <1>3, <1>5
  <2>2. words \in [1..2 -> Seq(Said \ Spaces)]
    BY <1>6, <2>1 DEF Readable
  <2> QED BY <1>3, <1>5, <2>2
<1> QED BY <1>1, <1>7, <1>8, <1>9 DEF Adds

LEMMA ThreeHeard ==
  ASSUME NEW e, Short(e)
  PROVE  /\ Sendable(NewOf(e)) => Heard(NewOf(e))[2] = e /\ Number(Heard(NewOf(e))[3]) = Width
         /\ \E w \in Seq(Said \ Spaces), d \in Seq(Said \ Spaces) :
              /\ Len(w) = 3 /\ Len(d) \in Few
              /\ Len(Sentence(NewOf(e))) = 4 + Len(Clause(w)) + Len(Clause(e)) + Len(Clause(d))
<1>1. PICK said : said = NewOf(e)
  OBVIOUS
<1>2. e \in Seq(Spoken) /\ Len(e) # 0
  BY DEF Short
<1>3. PICK d : d = Decimal(Width)
  OBVIOUS
<1>4. Width \in Few
  <2>1. Width \in 1..999
    BY ConnectorAssumption, Zenon
  <2> QED BY <2>1 DEF Few
<1>5. d \in Seq(Spoken) /\ Len(d) \in 1..3
  <2>1. d \in Seq(Numerals) /\ Len(d) \in 1..3
    BY <1>3, <1>4, DecimalFacts
  <2> QED BY <2>1 DEF Spoken
<1>8. said = Asks(e, d)
  BY <1>1, <1>3, Zenon DEF NewOf, Asks
<1>9. /\ said \in Seq(Said) /\ Len(said) = Len(e) + 5 + Len(d)
      /\ Len(WordsOf(said)) = 3 /\ Len(WordsOf(said)[1]) = 3
      /\ WordsOf(said)[2] = e /\ WordsOf(said)[3] = d
  <2>1. Worded(e) /\ Worded(d)
    <3>1. Len(d) # 0
      BY <1>5
    <3> QED BY <1>2, <1>5, <3>1, Zenon DEF Worded
  <2> QED BY <1>8, <2>1, ThreeSaid
<1>10. Len(said) <= 999
  <2>1. PICK m, n, k : m = Len(said) /\ n = Len(e) /\ k = Len(d)
    OBVIOUS
  <2>2. n \in Nat /\ k \in 1..3 /\ m = n + 5 + k
    BY <1>2, <1>5, <1>9, <2>1
  <2>3. m \in Nat /\ m <= n + 9
    BY <2>2
  <2> QED BY <2>1, <2>3, ShortFits
<1>11. PICK words : words = WordsOf(said)
  OBVIOUS
<1>12. Readable(words, Said \ Spaces)
  BY <1>9, <1>10, <1>11, WordsAreReadable
<1>13. ASSUME Sendable(said)
       PROVE  Heard(said)[2] = e /\ Number(Heard(said)[3]) = Width
  <2>1. Heard(said) = WordsOf(said)
    BY <1>9, <1>10, <1>13, SentencesAreHeard
  <2> QED BY <1>3, <1>4, <1>9, <2>1, NumberOfDecimal
<1>14. Len(Sentence(said)) = 4 + Len(Clause(words[1])) + Len(Clause(e)) + Len(Clause(d))
  BY <1>9, <1>11, <1>12, SentenceLength
<1>15. words[1] \in Seq(Said \ Spaces) /\ Len(words[1]) = 3 /\ d \in Seq(Said \ Spaces) /\ Len(d) \in Few
  <2>1. Len(words) = 3
    BY <1>9, <1>11
  <2>2. words \in [1..3 -> Seq(Said \ Spaces)] /\ \A k \in 1..3 : Len(words[k]) \in Few
    BY <1>12, <2>1 DEF Readable
  <2>3. Len(words[3]) \in Few /\ words[1] \in Seq(Said \ Spaces) /\ words[3] \in Seq(Said \ Spaces)
    BY <2>2
  <2> QED BY <1>9, <1>11, <2>3
<1> QED BY <1>1, <1>13, <1>14, <1>15

\* What is said of an element that a NEW was sent for is shorter than its NEW.
LEMMA CallsAreHeard ==
  ASSUME NEW e, Short(e)
  PROVE  /\ Sendable(NewOf(e)) => Heard(NewOf(e))[2] = e /\ Number(Heard(NewOf(e))[3]) = Width
         /\ Sendable(NewOf(e)) => Heard(SetOf(e))[2] = e /\ Heard(GetOf(e))[2] = e
         /\ Sendable(DesOf(e)) => Heard(DesOf(e))[2] = e
<1>1. "S" \in Spoken /\ "E" \in Spoken /\ "T" \in Spoken /\ "G" \in Spoken /\ "D" \in Spoken
  BY DEF Spoken
<1>2. ASSUME NEW x \in Spoken, NEW y \in Spoken, NEW z \in Spoken, NEW text, text = Called(x, y, z, e),
             Sendable(NewOf(e))
      PROVE  Heard(text)[2] = e
  <2>1. PICK w \in Seq(Said \ Spaces) :
          Len(w) = 3 /\ Len(Sentence(text)) = 4 + Len(Clause(w)) + Len(Clause(e))
    <3>1. Adds(text, e)
      BY <1>2, TwoHeard
    <3> QED BY <3>1, Zenon DEF Adds
  <2>2. PICK new : new = Sentence(NewOf(e))
    OBVIOUS
  <2>3. PICK v \in Seq(Said \ Spaces), d \in Seq(Said \ Spaces) :
          Len(v) = 3 /\ Len(d) \in Few /\ Len(new) = 4 + Len(Clause(v)) + Len(Clause(e)) + Len(Clause(d))
    BY <2>2, ThreeHeard
  <2>4. 3 \in Few /\ Len(e) \in Few /\ e \in Seq(Spoken)
    <3>1. 0 \in Nat /\ 0 <= Len(e) + 9
      BY DEF Short
    <3>2. Len(e) \in Few
      BY <3>1, ShortFits
    <3>3. 3 \in Few
      BY DEF Few
    <3> QED BY <3>2, <3>3 DEF Short
  <2>5. Len(Clause(v)) = Len(v) + Len(Decimal(Len(v))) + 4 /\ Len(Clause(w)) = Len(w) + Len(Decimal(Len(w))) + 4
    BY <2>1, <2>3, <2>4, ClauseLength
  <2>6. Len(Clause(v)) = Len(Clause(w)) /\ Len(Clause(w)) \in Nat
    <3>1. Len(Decimal(Len(w))) \in Nat
      BY <2>1, <2>4, ClauseLength
    <3> QED BY <2>1, <2>3, <2>5, <3>1
  <2>7. Len(Clause(e)) \in Nat /\ Len(Clause(d)) \in Nat
    BY <2>3, <2>4, ClauseLength
  <2>8. Len(new) < BufSize /\ BufSize \in Nat
    BY <1>2, <2>2, ConnectorAssumption DEF Sendable
  <2>9. Len(Sentence(text)) < BufSize
    BY <2>1, <2>3, <2>6, <2>7, <2>8
  <2>10. Sendable(text)
    BY <2>9 DEF Sendable
  <2> QED BY <1>2, <2>10, TwoHeard
<1>3. ASSUME Sendable(NewOf(e))
      PROVE  Heard(SetOf(e))[2] = e /\ Heard(GetOf(e))[2] = e
  <2>1. SetOf(e) = Called("S", "E", "T", e) /\ GetOf(e) = Called("G", "E", "T", e)
    BY DEF SetOf, GetOf, Called
  <2> QED BY <1>1, <1>2, <1>3, <2>1
<1>4. ASSUME Sendable(DesOf(e))
      PROVE  Heard(DesOf(e))[2] = e
  <2>1. DesOf(e) = Called("D", "E", "S", e)
    BY DEF DesOf, Called
  <2>2. PICK x, y, z, text : x = "D" /\ y = "E" /\ z = "S" /\ text = DesOf(e)
    OBVIOUS
  <2>3. x \in Spoken /\ y \in Spoken /\ z \in Spoken /\ text = Called(x, y, z, e) /\ Sendable(text)
    BY <1>1, <1>4, <2>1, <2>2
  <2>4. Heard(text)[2] = e
    BY <2>3, TwoHeard
  <2> QED BY <2>2, <2>4
<1> QED BY <1>3, <1>4, ThreeHeard

LEMMA SeqIn ==
  ASSUME NEW S, NEW T, S \subseteq T, NEW s \in Seq(S)
  PROVE  s \in Seq(T)
<1>1. PICK n : n = Len(s)
  OBVIOUS
<1>2. n \in Nat /\ s \in [1..n -> S]
  BY <1>1
<1>3. s \in [1..n -> T]
  BY <1>2
<1> QED BY <1>2, <1>3

\* The elements of a variable.
LEMMA ElementFacts ==
  ASSUME NEW v \in Names, NEW i \in Few
  PROVE  Short(Element(v, i))
<1>1. v \in Seq(Letters) /\ Len(v) \in 1..900
  <2>1. Names \subseteq Seq(Letters) /\ \A w \in Names : Len(w) \in 1..900
    BY ConnectorAssumption, Zenon
  <2> QED BY <2>1, Zenon
<1>2. PICK d : d = Decimal(i)
  OBVIOUS
<1>3. d \in Seq(Numerals) /\ Len(d) \in 1..3
  BY <1>2, DecimalFacts
<1>4. v \in Seq(Spoken) /\ d \in Seq(Spoken)
  <2>1. Letters \subseteq Spoken /\ Numerals \subseteq Spoken
    BY DEF Spoken
  <2>2. v \in Seq(Spoken)
    BY <1>1, <2>1, SeqIn
  <2>3. d \in Seq(Spoken)
    BY <1>3, <2>1, SeqIn
  <2> QED BY <2>2, <2>3
<1>5. PICK e : e = v \o d
  OBVIOUS
<1>6. e \in Seq(Spoken) /\ Len(e) = Len(v) + Len(d)
  BY <1>4, <1>5, Joins DEF Joined
<1>7. Len(e) # 0 /\ Len(e) + 9 \in Few
  <2>1. PICK m, n, k : m = Len(e) /\ n = Len(v) /\ k = Len(d)
    OBVIOUS
  <2>2. n \in 1..900 /\ k \in 1..3 /\ m = n + k
    BY <1>1, <1>3, <1>6, <2>1
  <2>3. m # 0 /\ m + 9 \in 0..999
    BY <2>2
  <2> QED BY <2>1, <2>3 DEF Few
<1> QED BY <1>2, <1>5, <1>6, <1>7 DEF Element, Short

-----------------------------------------------------------------------------
(* Values, and the variables at the server.                                *)

\* Turned around twice, a value is what it was.
LEMMA TurnedBack ==
  ASSUME NEW S, NEW s \in Seq(S)
  PROVE  Reverse(Reverse(s)) = s
<1>1. PICK n : n = Len(s)
  OBVIOUS
<1>2. n \in Nat /\ s \in [1..n -> S]
  BY <1>1
<1>3. PICK r : r = Reverse(s)
  OBVIOUS
<1>4. r = [i \in 1..n |-> s[(n - i) + 1]]
  BY <1>1, <1>3 DEF Reverse
<1>5. \A i \in 1..n : (n - i) + 1 \in 1..n /\ (n - ((n - i) + 1)) + 1 = i
  BY <1>2
<1>6. Len(r) = n
  BY <1>2, <1>4
<1>7. Reverse(r) = [i \in 1..n |-> r[(n - i) + 1]]
  BY <1>6 DEF Reverse
<1>8. \A i \in 1..n : r[(n - i) + 1] = s[i]
  BY <1>4, <1>5
<1>9. [i \in 1..n |-> r[(n - i) + 1]] = [i \in 1..n |-> s[i]]
  BY <1>8
<1> QED BY <1>2, <1>3, <1>7, <1>9

\* Of a set of elements given values, that of v and i is no other's.
Alone(given, v, i) == \A x \in given : Element(x[1], x[2]) = Element(v, i) => x = <<v, i>>

\* The variables s are those of h, and the ones that are no other's have what w says.
Agreement(s, w, h) ==
  /\ DOMAIN s = h
  /\ \A e \in h : s[e] \in Seq(Nat)
  /\ \A v, i : <<v, i>> \in DOMAIN w => Element(v, i) \in h
  /\ \A v, i : <<v, i>> \in DOMAIN w /\ Alone(DOMAIN w, v, i) => s[Element(v, i)] = w[<<v, i>>]

\* Giving one element a value.
Put(s, key, value) == [k \in DOMAIN s \cup {key} |-> IF k = key THEN value ELSE s[k]]

LEMMA PutAgrees ==
  ASSUME NEW s, NEW w, NEW h, Agreement(s, w, h), NEW v, NEW i, NEW value \in Seq(Nat),
         NEW e, e = Element(v, i),
         NEW s2, s2 = Put(s, e, value), NEW w2, w2 = Put(w, <<v, i>>, value)
  PROVE  Agreement(s2, w2, h \cup {e})
<1> USE DEF Put
<1>1. DOMAIN s2 = h \cup {e} /\ DOMAIN s = h
  BY DEF Agreement
<1>2. ASSUME NEW f \in h \cup {e}
      PROVE  s2[f] \in Seq(Nat)
  BY <1>1 DEF Agreement
<1>3. PICK key : key = <<v, i>>
  OBVIOUS
<1>4. DOMAIN w2 = DOMAIN w \cup {key} /\ w2[key] = value /\ \A x \in DOMAIN w : x # key => w2[x] = w[x]
  BY <1>3
<1>5. ASSUME NEW u, NEW j, <<u, j>> \in DOMAIN w2
      PROVE  Element(u, j) \in h \cup {e}
  <2>1. CASE <<u, j>> = key
    BY <1>3, <2>1
  <2>2. CASE <<u, j>> # key
    BY <1>4, <1>5, <2>2 DEF Agreement
  <2> QED BY <2>1, <2>2
<1>6. ASSUME NEW u, NEW j, <<u, j>> \in DOMAIN w2, Alone(DOMAIN w2, u, j)
      PROVE  s2[Element(u, j)] = w2[<<u, j>>]
  <2>1. CASE <<u, j>> = key
    <3>1. u = v /\ j = i
      BY <1>3, <2>1
    <3> QED BY <1>1, <1>3, <1>4, <3>1
  <2>2. CASE <<u, j>> # key
    <3>1. <<u, j>> \in DOMAIN w
      BY <1>4, <1>6, <2>2
    <3>2. Element(u, j) # e
      <4>1. key \in DOMAIN w2 /\ key[1] = v /\ key[2] = i
        BY <1>3, <1>4
      <4>2. Element(key[1], key[2]) = Element(u, j) => key = <<u, j>>
        BY <1>6, <4>1 DEF Alone
      <4> QED BY <2>2, <4>1, <4>2
    <3>3. Alone(DOMAIN w, u, j)
      BY <1>4, <1>6 DEF Alone
    <3>4. Element(u, j) \in h /\ s[Element(u, j)] = w[<<u, j>>]
      BY <3>1, <3>3 DEF Agreement
    <3>5. s2[Element(u, j)] = s[Element(u, j)]
      BY <1>1, <3>2, <3>4
    <3> QED BY <1>4, <2>2, <3>1, <3>4, <3>5
  <2> QED BY <2>1, <2>2
<1> QED BY <1>1, <1>2, <1>5, <1>6 DEF Agreement

ConnectorTyped ==
  /\ DOMAIN var_size \subseteq Names
  /\ \A v \in DOMAIN var_size : var_size[v] \in Counts
  /\ lost \in BOOLEAN
  /\ call \in [op : {"none", "ask", "free"}, name : Names \cup {<<>>}, next : Nat]
  /\ call = Idle \/ (call.op \in {"ask", "free"} /\ call.name \in Names)

\* What was asked for is short enough for all that is said of it.
HeldIsSayable == \A e \in held : Short(e) /\ Sendable(NewOf(e))

\* The elements an ask has come to, and those a free has passed.
Asked(v, i) == v \in Names /\ i \in 0..(SizeOf(v) - 1) /\ ~(call.op = "ask" /\ call.name = v /\ i >= call.next)
Freed(v, i) == call.op = "free" /\ call.name = v /\ i \in 0..(SizeOf(v) - 1) /\ i < call.next

StoreAgrees  == ~lost => Agreement(store, wrote, held)
AskedIsKnown == ~lost => \A v, i : Asked(v, i) => <<v, i>> \in DOMAIN wrote
FreedIsGone  == \A v, i : Freed(v, i) => Element(v, i) \notin held
Owned        == {e \in held : \E v \in Names : \E i \in 0..(SizeOf(v) - 1) : e = Element(v, i)}
HeldIsOwned  == held \subseteq orphans \cup Owned

ConnectorInv ==
  /\ ConnectorTyped /\ HeldIsSayable /\ StoreAgrees /\ AskedIsKnown /\ FreedIsGone /\ HeldIsOwned

LEMMA SizesFit ==
  ASSUME ConnectorTyped, NEW v
  PROVE  /\ SizeOf(v) \in Nat /\ \A i \in 0..(SizeOf(v) - 1) : i \in Few
         /\ SizeOf(v) # 0 => v \in DOMAIN var_size /\ v \in Names /\ SizeOf(v) = var_size[v]
<1>1. Counts \subseteq 1..999
  BY ConnectorAssumption, Zenon
<1>2. CASE v \in DOMAIN var_size
  <2>1. PICK n : n = var_size[v]
    OBVIOUS
  <2>2. n \in 1..999 /\ v \in Names
    <3>1. DOMAIN var_size \subseteq Names /\ \A w \in DOMAIN var_size : var_size[w] \in Counts
      BY DEF ConnectorTyped
    <3> QED BY <1>1, <1>2, <2>1, <3>1, Zenon
  <2>3. SizeOf(v) = n
    BY <1>2, <2>1 DEF SizeOf
  <2> QED BY <1>2, <2>1, <2>2, <2>3 DEF Few
<1>3. CASE v \notin DOMAIN var_size
  BY <1>3 DEF SizeOf
<1> QED BY <1>2, <1>3

LEMMA InitHolds == ConnectorInit => ConnectorInv
<1> SUFFICES ASSUME ConnectorInit PROVE ConnectorInv
  OBVIOUS
<1>1. /\ DOMAIN var_size = {} /\ DOMAIN store = {} /\ DOMAIN wrote = {} /\ lost = FALSE /\ call = Idle
      /\ held = {} /\ orphans = {}
  BY DEF ConnectorInit, NoElements
<1>2. ConnectorTyped
  BY <1>1 DEF ConnectorTyped, Idle
<1>3. \A v : SizeOf(v) = 0
  BY <1>1 DEF SizeOf
<1>4. StoreAgrees
  BY <1>1 DEF StoreAgrees, Agreement
<1>5. \A v, i : ~Asked(v, i)
  BY <1>3 DEF Asked
<1> QED BY <1>1, <1>2, <1>4, <1>5 DEF ConnectorInv, HeldIsSayable, AskedIsKnown, FreedIsGone, HeldIsOwned

\* A new connector knows of nothing.
LEMMA StartAgainKeeps ==
  ASSUME ConnectorInv, StartAgain, (lost' = FALSE /\ ~lost /\ store' = store /\ wrote' = wrote) \/ lost' = TRUE
  PROVE  ConnectorInv'
<1>1. call' = Idle /\ DOMAIN var_size' = {} /\ orphans' = orphans \cup held /\ held' = held
  BY DEF StartAgain
<1>2. ConnectorTyped'
  BY <1>1 DEF ConnectorTyped, Idle
<1>3. \A v : SizeOf(v)' = 0
  BY <1>1 DEF SizeOf
<1>4. \A v, i : ~Asked(v, i)' /\ ~Freed(v, i)'
  BY <1>3 DEF Asked, Freed
<1>5. StoreAgrees'
  BY <1>1 DEF ConnectorInv, StoreAgrees
<1>6. AskedIsKnown' /\ FreedIsGone'
  BY <1>4 DEF AskedIsKnown, FreedIsGone
<1>7. HeldIsSayable' /\ HeldIsOwned'
  BY <1>1 DEF ConnectorInv, HeldIsSayable, HeldIsOwned
<1> QED BY <1>2, <1>5, <1>6, <1>7 DEF ConnectorInv

LEMMA BeginAskKeeps ==
  ASSUME ConnectorInv, NEW v \in Names, NEW n \in Counts, BeginAsk(v, n)
  PROVE  ConnectorInv'
<1>1. /\ call = Idle /\ call' = [op |-> "ask", name |-> v, next |-> 0]
      /\ store' = store /\ lost' = lost /\ wrote' = wrote /\ held' = held
      /\ orphans' = orphans \cup (Elements(v, n, SizeOf(v)) \cap held)
  BY DEF BeginAsk
<1>2. var_size' = [w \in DOMAIN var_size \cup {v} |-> IF w = v THEN n ELSE var_size[w]]
  BY DEF BeginAsk
<1>3. call'.op = "ask" /\ call'.name = v /\ call'.next = 0 /\ call.op = "none"
  BY <1>1 DEF Idle
<1>4. ConnectorTyped'
  <2>1. DOMAIN var_size' \subseteq Names /\ \A w \in DOMAIN var_size' : var_size'[w] \in Counts
    BY <1>2 DEF ConnectorInv, ConnectorTyped
  <2>2. lost' \in BOOLEAN
    BY <1>1 DEF ConnectorInv, ConnectorTyped
  <2> QED BY <1>1, <2>1, <2>2 DEF ConnectorTyped
<1>5. SizeOf(v)' = n /\ \A w : w # v => SizeOf(w)' = SizeOf(w)
  BY <1>2 DEF SizeOf
<1>6. HeldIsSayable' /\ StoreAgrees'
  BY <1>1 DEF ConnectorInv, HeldIsSayable, StoreAgrees
<1>7. AskedIsKnown'
  <2>1. ASSUME NEW w, NEW j, Asked(w, j)'
        PROVE  Asked(w, j)
    <3>1. w \in Names /\ j \in 0..(SizeOf(w)' - 1) /\ w # v
      BY <1>3, <2>1 DEF Asked
    <3> QED BY <1>3, <1>5, <3>1 DEF Asked
  <2> QED BY <1>1, <2>1 DEF ConnectorInv, AskedIsKnown
<1>8. FreedIsGone'
  BY <1>3 DEF FreedIsGone, Freed
<1>9. HeldIsOwned'
  <2> SUFFICES ASSUME NEW e \in held, e \notin orphans' PROVE e \in Owned'
    BY <1>1 DEF HeldIsOwned
  <2>1. e \notin orphans /\ e \notin Elements(v, n, SizeOf(v))
    BY <1>1
  <2>2. PICK w \in Names : \E j \in 0..(SizeOf(w) - 1) : e = Element(w, j)
    BY <2>1 DEF ConnectorInv, HeldIsOwned, Owned
  <2>3. PICK j \in 0..(SizeOf(w) - 1) : e = Element(w, j)
    BY <2>2
  <2>4. j \in 0..(SizeOf(w)' - 1)
    <3>1. CASE w = v
      <4>1. ~(j \in n..(SizeOf(v) - 1))
        BY <2>1, <2>3, <3>1 DEF Elements
      <4>2. n \in Nat /\ SizeOf(v) \in Nat
        <5>1. n \in 1..999
          <6>1. Counts \subseteq 1..999
            BY ConnectorAssumption, Zenon
          <6> QED BY <6>1
        <5>2. SizeOf(v) \in Nat
          BY SizesFit DEF ConnectorInv
        <5> QED BY <5>1, <5>2
      <4> QED BY <1>5, <2>3, <3>1, <4>1, <4>2
    <3>2. CASE w # v
      BY <1>5, <2>3, <3>2
    <3> QED BY <3>1, <3>2
  <2> QED BY <1>1, <2>3, <2>4 DEF Owned
<1> QED BY <1>4, <1>6, <1>7, <1>8, <1>9 DEF ConnectorInv

\* What the call is at: an element of the variable it names.
LEMMA RequestAt ==
  ASSUME ConnectorInv, call.op \in {"ask", "free"}, call.next < SizeOf(call.name),
         NEW v, v = call.name, NEW i, i = call.next
  PROVE  /\ v \in Names /\ v \in DOMAIN var_size /\ i \in Nat /\ i \in Few /\ i \in 0..(SizeOf(v) - 1)
         /\ Short(Element(v, i)) /\ call = [op |-> call.op, name |-> v, next |-> i]
<1>1. i \in Nat /\ call = [op |-> call.op, name |-> v, next |-> i]
  BY DEF ConnectorInv, ConnectorTyped
<1>2. SizeOf(v) \in Nat /\ i < SizeOf(v)
  BY SizesFit DEF ConnectorInv
<1>3. i \in 0..(SizeOf(v) - 1) /\ SizeOf(v) # 0
  BY <1>1, <1>2
<1>4. v \in Names /\ v \in DOMAIN var_size /\ i \in Few
  BY <1>3, SizesFit DEF ConnectorInv
<1> QED BY <1>1, <1>3, <1>4, ElementFacts

LEMMA AskKeeps ==
  ASSUME ConnectorInv, call.op = "ask", call.next < SizeOf(call.name),
         Sendable(NewOf(Element(call.name, call.next))), Ask(call.name, call.next)
  PROVE  ConnectorInv'
<1>1. PICK v, i : v = call.name /\ i = call.next
  OBVIOUS
<1>2. PICK e : e = Element(v, i)
  OBVIOUS
<1>3. PICK zeros : zeros = [k \in 1..Width |-> Zero]
  OBVIOUS
<1>4. /\ v \in Names /\ v \in DOMAIN var_size /\ i \in Nat /\ i \in Few /\ i \in 0..(SizeOf(v) - 1)
      /\ Short(e) /\ call = [op |-> call.op, name |-> v, next |-> i]
  BY <1>1, <1>2, RequestAt
<1>5. Sendable(NewOf(e))
  BY <1>1, <1>2
<1>6. Heard(NewOf(e))[2] = e /\ Number(Heard(NewOf(e))[3]) = Width
  BY <1>4, <1>5, CallsAreHeard
<1>7. PICK w2 : w2 = Given(v, i, zeros)
  OBVIOUS
<1>8. New(Heard(NewOf(e)), w2)
  BY <1>1, <1>2, <1>3, <1>7, Zenon DEF Ask
<1>9. /\ held' = held \cup {e} /\ orphans' = orphans \ {e}
      /\ \/ /\ ~lost /\ lost' = FALSE /\ wrote' = w2
            /\ store' = Put(store, e, zeros)
         \/ lost' = TRUE
  BY <1>3, <1>6, <1>8, Zenon DEF New, Is, Lose, Put
<1>21. lost' = TRUE \/ lost' = FALSE
  BY <1>9
<1>10. call' = [op |-> "ask", name |-> v, next |-> i + 1] /\ var_size' = var_size
  <2>1. call' = [call EXCEPT !.next = @ + 1] /\ var_size' = var_size
    BY DEF Ask
  <2> QED BY <1>4, <2>1
<1>11. call'.op = "ask" /\ call'.name = v /\ call'.next = i + 1
  BY <1>10
<1>12. \A u : SizeOf(u)' = SizeOf(u)
  BY <1>10 DEF SizeOf
<1>13. ConnectorTyped'
  <2>1. lost' \in BOOLEAN
    BY <1>9
  <2>2. i + 1 \in Nat
    BY <1>4
  <2>3. DOMAIN var_size' \subseteq Names /\ \A w \in DOMAIN var_size' : var_size'[w] \in Counts
    BY <1>10 DEF ConnectorInv, ConnectorTyped
  <2> QED BY <1>4, <1>10, <2>1, <2>2, <2>3 DEF ConnectorTyped
<1>14. HeldIsSayable'
  BY <1>4, <1>5, <1>9 DEF ConnectorInv, HeldIsSayable
<1>15. w2 = Put(wrote, <<v, i>>, zeros)
  BY <1>7, Zenon DEF Given, Put
<1>16. zeros \in Seq(Nat)
  <2>1. Width \in 1..999 /\ Zero \in Nat
    BY ConnectorAssumption, Zenon
  <2> QED BY <1>3, <2>1
<1>17. StoreAgrees'
  <2> SUFFICES ASSUME lost' = FALSE PROVE Agreement(store', wrote', held')
    BY <1>21 DEF StoreAgrees
  <2>1. ~lost /\ wrote' = w2 /\ store' = Put(store, e, zeros)
    BY <1>9
  <2>2. Agreement(store, wrote, held)
    BY <2>1 DEF ConnectorInv, StoreAgrees
  <2>3. Agreement(store', w2, held \cup {e})
    BY <1>2, <1>15, <1>16, <2>1, <2>2, PutAgrees
  <2> QED BY <1>9, <2>1, <2>3
<1>18. AskedIsKnown'
  <2> SUFFICES ASSUME lost' = FALSE, NEW u, NEW j, Asked(u, j)' PROVE <<u, j>> \in DOMAIN wrote'
    BY <1>21 DEF AskedIsKnown
  <2>1. ~lost /\ wrote' = w2
    BY <1>9
  <2>2. DOMAIN w2 = DOMAIN wrote \cup {<<v, i>>}
    BY <1>15 DEF Put
  <2>3. u \in Names /\ j \in 0..(SizeOf(u) - 1) /\ ~(u = v /\ j >= i + 1)
    BY <1>11, <1>12 DEF Asked
  <2>4. CASE u = v /\ j = i
    BY <2>1, <2>2, <2>4
  <2>5. CASE ~(u = v /\ j = i)
    <3>1. Asked(u, j)
      <4>1. SizeOf(u) \in Nat
        BY SizesFit DEF ConnectorInv
      <4>2. ~(u = v /\ j >= i)
        BY <1>4, <2>3, <2>5, <4>1
      <4> QED BY <1>1, <2>3, <4>2 DEF Asked
    <3> QED BY <2>1, <2>2, <3>1 DEF ConnectorInv, AskedIsKnown
  <2> QED BY <2>4, <2>5
<1>19. FreedIsGone'
  BY <1>11 DEF FreedIsGone, Freed
<1>20. HeldIsOwned'
  <2> SUFFICES ASSUME NEW f \in held', f \notin orphans' PROVE f \in Owned'
    BY DEF HeldIsOwned
  <2>1. CASE f = e
    BY <1>2, <1>4, <1>12, <2>1 DEF Owned
  <2>2. CASE f # e
    <3>1. f \in held /\ f \notin orphans
      BY <1>9, <2>2
    <3>2. f \in Owned
      BY <3>1 DEF ConnectorInv, HeldIsOwned
    <3> QED BY <1>12, <3>2 DEF Owned
  <2> QED BY <2>1, <2>2
<1> QED BY <1>13, <1>14, <1>17, <1>18, <1>19, <1>20 DEF ConnectorInv

LEMMA AskRequestKeeps ==
  ASSUME ConnectorInv, AskRequest
  PROVE  ConnectorInv'
<1>1. call.op = "ask" /\ call.next < SizeOf(call.name)
  BY DEF AskRequest
<1>2. CASE Sendable(NewOf(Element(call.name, call.next)))
  BY <1>1, <1>2, AskKeeps DEF AskRequest
<1>3. CASE ~Sendable(NewOf(Element(call.name, call.next)))
  BY <1>3, StartAgainKeeps DEF AskRequest, Overrun, Lose
<1> QED BY <1>2, <1>3

LEMMA EndAskKeeps ==
  ASSUME ConnectorInv, EndAsk
  PROVE  ConnectorInv'
<1>1. /\ call.op = "ask" /\ (call.next >= SizeOf(call.name) \/ lost) /\ call' = Idle
      /\ var_size' = var_size /\ store' = store /\ lost' = lost /\ wrote' = wrote
      /\ held' = held /\ orphans' = orphans
  BY DEF EndAsk
<1>2. call'.op = "none"
  BY <1>1 DEF Idle
<1>3. \A u : SizeOf(u)' = SizeOf(u)
  BY <1>1 DEF SizeOf
<1>4. ConnectorTyped'
  BY <1>1 DEF ConnectorInv, ConnectorTyped, Idle
<1>5. HeldIsSayable' /\ StoreAgrees'
  BY <1>1 DEF ConnectorInv, HeldIsSayable, StoreAgrees
<1>6. HeldIsOwned'
  BY <1>1, <1>3 DEF ConnectorInv, HeldIsOwned, Owned
<1>7. FreedIsGone'
  BY <1>2 DEF FreedIsGone, Freed
<1>8. AskedIsKnown'
  <2> SUFFICES ASSUME ~lost, NEW u, NEW j, Asked(u, j)' PROVE <<u, j>> \in DOMAIN wrote
    BY <1>1 DEF AskedIsKnown
  <2>1. u \in Names /\ j \in 0..(SizeOf(u) - 1)
    BY <1>3 DEF Asked
  <2>2. SizeOf(u) \in Nat /\ call.next \in Nat
    BY SizesFit DEF ConnectorInv, ConnectorTyped
  <2>3. ~(call.name = u /\ j >= call.next)
    BY <1>1, <2>1, <2>2
  <2>4. Asked(u, j)
    BY <2>1, <2>3 DEF Asked
  <2> QED BY <2>4 DEF ConnectorInv, AskedIsKnown
<1> QED BY <1>4, <1>5, <1>6, <1>7, <1>8 DEF ConnectorInv

\* The bytes of a value, after both sides turned them around.
LEMMA ValuesArrive ==
  ASSUME NEW value \in Contents
  PROVE  Kept(Sent(value)) = value /\ value \in Seq(Nat)
<1>1. value \in [1..Width -> Nat] /\ Width \in 1..999
  <2>1. Contents \subseteq [1..Width -> Nat] /\ Width \in 1..999
    BY ConnectorAssumption, Zenon
  <2> QED BY <2>1
<1>2. value \in Seq(Nat)
  BY <1>1
<1> QED BY <1>2, TurnedBack DEF Kept, Sent

LEMMA WriteKeeps ==
  ASSUME ConnectorInv, NEW v, NEW i, NEW value \in Contents, Write(v, i, value)
  PROVE  ConnectorInv'
<1>1. PICK e : e = Element(v, i)
  OBVIOUS
<1>2. e \in held /\ call = Idle /\ call' = call /\ var_size' = var_size /\ held' = held /\ orphans' = orphans
  BY <1>1 DEF Write, Set
<1>3. Heard(SetOf(e))[2] = e
  BY <1>2, CallsAreHeard DEF ConnectorInv, HeldIsSayable
<1>4. PICK w2 : w2 = Given(v, i, value)
  OBVIOUS
<1>5. Set(Heard(SetOf(e)), value, w2)
  <2>1. Kept(Sent(value)) = value
    BY ValuesArrive
  <2> QED BY <1>1, <1>4, <2>1, Zenon DEF Write
<1>6. \/ ~lost /\ lost' = FALSE /\ wrote' = w2 /\ store' = [store EXCEPT ![e] = value]
      \/ lost' = TRUE
  BY <1>3, <1>5, Zenon DEF Set, Is, Lose
<1>7. lost' = TRUE \/ lost' = FALSE
  BY <1>6
<1>8. w2 = Put(wrote, <<v, i>>, value)
  BY <1>4, Zenon DEF Given, Put
<1>9. ASSUME lost' = FALSE
      PROVE  Agreement(store', wrote', held') /\ DOMAIN wrote \subseteq DOMAIN wrote' /\ ~lost
  <2>1. ~lost /\ wrote' = w2 /\ store' = [store EXCEPT ![e] = value]
    BY <1>6, <1>9
  <2>2. Agreement(store, wrote, held)
    BY <2>1 DEF ConnectorInv, StoreAgrees
  <2>3. DOMAIN store = held
    BY <2>2 DEF Agreement
  <2>4. store' = Put(store, e, value)
    <3>1. DOMAIN store \cup {e} = DOMAIN store
      BY <1>2, <2>3
    <3> QED BY <2>1, <3>1 DEF Put
  <2>5. value \in Seq(Nat)
    BY ValuesArrive
  <2>6. Agreement(store', w2, held \cup {e})
    BY <1>1, <1>8, <2>2, <2>4, <2>5, PutAgrees
  <2>7. held \cup {e} = held
    BY <1>2
  <2>8. DOMAIN wrote \subseteq DOMAIN wrote'
    BY <1>8, <2>1 DEF Put
  <2> QED BY <1>2, <2>1, <2>6, <2>7, <2>8
<1>10. StoreAgrees'
  BY <1>7, <1>9 DEF StoreAgrees
<1>11. \A u, j : Asked(u, j)' = Asked(u, j) /\ Freed(u, j)' = Freed(u, j)
  BY <1>2 DEF Asked, Freed, SizeOf
<1>12. AskedIsKnown'
  <2> SUFFICES ASSUME lost' = FALSE, NEW u, NEW j, Asked(u, j)' PROVE <<u, j>> \in DOMAIN wrote'
    BY <1>7 DEF AskedIsKnown
  <2>1. ~lost /\ Asked(u, j)
    BY <1>9, <1>11
  <2>2. <<u, j>> \in DOMAIN wrote
    BY <2>1 DEF ConnectorInv, AskedIsKnown
  <2> QED BY <1>9, <2>2
<1>13. FreedIsGone'
  BY <1>2, <1>11 DEF ConnectorInv, FreedIsGone
<1>14. HeldIsSayable' /\ HeldIsOwned'
  BY <1>2 DEF ConnectorInv, HeldIsSayable, HeldIsOwned, Owned, SizeOf
<1>15. ConnectorTyped'
  BY <1>2, <1>7 DEF ConnectorInv, ConnectorTyped
<1> QED BY <1>10, <1>12, <1>13, <1>14, <1>15 DEF ConnectorInv

LEMMA BeginFreeKeeps ==
  ASSUME ConnectorInv, NEW v \in Names, BeginFree(v)
  PROVE  ConnectorInv'
<1>1. /\ call = Idle /\ call' = [op |-> "free", name |-> v, next |-> 0]
      /\ var_size' = var_size /\ store' = store /\ lost' = lost /\ wrote' = wrote
      /\ held' = held /\ orphans' = orphans
  BY DEF BeginFree
<1>2. call.op = "none" /\ call'.op = "free" /\ call'.next = 0
  BY <1>1 DEF Idle
<1>3. ConnectorTyped'
  BY <1>1 DEF ConnectorInv, ConnectorTyped
<1>4. HeldIsSayable' /\ StoreAgrees'
  BY <1>1 DEF ConnectorInv, HeldIsSayable, StoreAgrees
<1>5. HeldIsOwned'
  BY <1>1 DEF ConnectorInv, HeldIsOwned, Owned, SizeOf
<1>6. \A u, j : Asked(u, j)' => Asked(u, j)
  BY <1>1, <1>2 DEF Asked, SizeOf
<1>7. AskedIsKnown'
  BY <1>1, <1>6 DEF ConnectorInv, AskedIsKnown
<1>8. FreedIsGone'
  BY <1>2 DEF FreedIsGone, Freed
<1> QED BY <1>3, <1>4, <1>5, <1>7, <1>8 DEF ConnectorInv

LEMMA FreeKeeps ==
  ASSUME ConnectorInv, call.op = "free", call.next < SizeOf(call.name),
         Sendable(DesOf(Element(call.name, call.next))), Free(call.name, call.next),
         call' = [call EXCEPT !.next = @ + 1], var_size' = var_size
  PROVE  ConnectorInv'
<1>1. PICK v, i : v = call.name /\ i = call.next
  OBVIOUS
<1>2. PICK e : e = Element(v, i)
  OBVIOUS
<1>3. /\ v \in Names /\ v \in DOMAIN var_size /\ i \in Nat /\ i \in Few /\ i \in 0..(SizeOf(v) - 1)
      /\ Short(e) /\ call = [op |-> call.op, name |-> v, next |-> i]
  BY <1>1, <1>2, RequestAt
<1>4. Heard(DesOf(e))[2] = e
  BY <1>1, <1>2, <1>3, CallsAreHeard
<1>5. held' = held \ {e} /\ orphans' = orphans /\ lost' = TRUE
  <2>1. Des(Heard(DesOf(e)))
    BY <1>1, <1>2, Zenon DEF Free
  <2> QED BY <1>4, <2>1, Zenon DEF Des, Lose
<1>6. call' = [op |-> "free", name |-> v, next |-> i + 1]
  BY <1>3
<1>7. \A u : SizeOf(u)' = SizeOf(u)
  BY DEF SizeOf
<1>8. ConnectorTyped'
  <2>1. i + 1 \in Nat
    BY <1>3
  <2>2. DOMAIN var_size' \subseteq Names /\ \A w \in DOMAIN var_size' : var_size'[w] \in Counts
    BY DEF ConnectorInv, ConnectorTyped
  <2> QED BY <1>3, <1>5, <1>6, <2>1, <2>2 DEF ConnectorTyped
<1>9. HeldIsSayable'
  BY <1>5 DEF ConnectorInv, HeldIsSayable
<1>10. StoreAgrees' /\ AskedIsKnown'
  BY <1>5 DEF StoreAgrees, AskedIsKnown
<1>11. FreedIsGone'
  <2> SUFFICES ASSUME NEW u, NEW j, Freed(u, j)' PROVE Element(u, j) \notin held'
    BY DEF FreedIsGone
  <2>1. u = v /\ j \in 0..(SizeOf(v) - 1) /\ j < i + 1
    BY <1>6, <1>7 DEF Freed
  <2>2. CASE j = i
    BY <1>2, <1>5, <2>1, <2>2
  <2>3. CASE j # i
    <3>1. SizeOf(v) \in Nat
      BY SizesFit DEF ConnectorInv
    <3>2. j < i
      BY <1>3, <2>1, <2>3, <3>1
    <3>3. Freed(u, j)
      BY <1>1, <2>1, <3>2 DEF Freed
    <3> QED BY <1>5, <3>3 DEF ConnectorInv, FreedIsGone
  <2> QED BY <2>2, <2>3
<1>12. HeldIsOwned'
  <2> SUFFICES ASSUME NEW f \in held', f \notin orphans' PROVE f \in Owned'
    BY DEF HeldIsOwned
  <2>1. f \in held /\ f \notin orphans
    BY <1>5
  <2>2. f \in Owned
    BY <2>1 DEF ConnectorInv, HeldIsOwned
  <2> QED BY <1>7, <2>2 DEF Owned
<1> QED BY <1>8, <1>9, <1>10, <1>11, <1>12 DEF ConnectorInv

LEMMA FreeRequestKeeps ==
  ASSUME ConnectorInv, FreeRequest
  PROVE  ConnectorInv'
<1>1. call.op = "free" /\ call.next < SizeOf(call.name)
  BY DEF FreeRequest
<1>2. CASE Sendable(DesOf(Element(call.name, call.next)))
  BY <1>1, <1>2, FreeKeeps DEF FreeRequest
<1>3. CASE ~Sendable(DesOf(Element(call.name, call.next)))
  BY <1>3, StartAgainKeeps DEF FreeRequest, Overrun, Lose
<1> QED BY <1>2, <1>3

LEMMA EndFreeKeeps ==
  ASSUME ConnectorInv, EndFree
  PROVE  ConnectorInv'
<1>1. PICK v : v = call.name
  OBVIOUS
<1>2. /\ call.op = "free" /\ call.next >= SizeOf(v) /\ call' = Idle
      /\ var_size' = [w \in DOMAIN var_size \ {v} |-> var_size[w]]
      /\ store' = store /\ lost' = lost /\ wrote' = wrote /\ held' = held /\ orphans' = orphans
  BY <1>1 DEF EndFree
<1>3. call'.op = "none"
  BY <1>2 DEF Idle
<1>4. SizeOf(v)' = 0 /\ \A u : u # v => SizeOf(u)' = SizeOf(u)
  BY <1>2 DEF SizeOf
<1>5. ConnectorTyped'
  BY <1>2 DEF ConnectorInv, ConnectorTyped, Idle
<1>6. HeldIsSayable' /\ StoreAgrees'
  BY <1>2 DEF ConnectorInv, HeldIsSayable, StoreAgrees
<1>7. \A u, j : Asked(u, j)' => Asked(u, j)
  <2> SUFFICES ASSUME NEW u, NEW j, Asked(u, j)' PROVE Asked(u, j)
    OBVIOUS
  <2>1. u \in Names /\ j \in 0..(SizeOf(u)' - 1)
    BY DEF Asked
  <2>2. u # v
    BY <1>4, <2>1
  <2> QED BY <1>2, <1>4, <2>1, <2>2 DEF Asked
<1>8. AskedIsKnown'
  BY <1>2, <1>7 DEF ConnectorInv, AskedIsKnown
<1>9. FreedIsGone'
  BY <1>3 DEF FreedIsGone, Freed
<1>10. HeldIsOwned'
  <2> SUFFICES ASSUME NEW f \in held, f \notin orphans PROVE f \in Owned'
    BY <1>2 DEF HeldIsOwned
  <2>1. PICK u \in Names : \E j \in 0..(SizeOf(u) - 1) : f = Element(u, j)
    BY DEF ConnectorInv, HeldIsOwned, Owned
  <2>2. PICK j \in 0..(SizeOf(u) - 1) : f = Element(u, j)
    BY <2>1
  <2>3. u # v
    <3>1. SUFFICES ASSUME u = v PROVE FALSE
      OBVIOUS
    <3>2. SizeOf(v) \in Nat /\ call.next \in Nat
      BY SizesFit DEF ConnectorInv, ConnectorTyped
    <3>3. j < call.next
      BY <1>2, <2>2, <3>1, <3>2
    <3>4. Freed(u, j)
      BY <1>1, <1>2, <2>2, <3>1, <3>3 DEF Freed
    <3> QED BY <2>2, <3>4 DEF ConnectorInv, FreedIsGone
  <2> QED BY <1>2, <1>4, <2>2, <2>3 DEF Owned
<1> QED BY <1>5, <1>6, <1>8, <1>9, <1>10 DEF ConnectorInv

LEMMA EndsKeep ==
  ASSUME ConnectorInv, Exit \/ Disconnect
  PROVE  ConnectorInv'
<1>1. CASE Exit
  BY <1>1, StartAgainKeeps DEF Exit, Is, Lose
<1>2. CASE Disconnect
  BY <1>2, StartAgainKeeps DEF Disconnect, Lose
<1> QED BY <1>1, <1>2

LEMMA ConnectorInvHolds ==
  /\ ConnectorInit => ConnectorInv
  /\ ConnectorInv /\ [ConnectorNext]_convars => ConnectorInv'
<1>1. ASSUME ConnectorInv, ConnectorNext
      PROVE  ConnectorInv'
  <2>1. ASSUME NEW v \in Names, NEW n \in Counts, BeginAsk(v, n)
        PROVE  ConnectorInv'
    BY <1>1, <2>1, BeginAskKeeps
  <2>2. CASE AskRequest
    BY <1>1, <2>2, AskRequestKeeps
  <2>3. CASE EndAsk
    BY <1>1, <2>3, EndAskKeeps
  <2>4. ASSUME NEW v \in DOMAIN var_size, NEW value \in Contents, NEW i \in 0..(var_size[v] - 1),
               Write(v, i, value)
        PROVE  ConnectorInv'
    BY <1>1, <2>4, WriteKeeps
  <2>5. ASSUME NEW v \in Names, BeginFree(v)
        PROVE  ConnectorInv'
    BY <1>1, <2>5, BeginFreeKeeps
  <2>6. CASE FreeRequest
    BY <1>1, <2>6, FreeRequestKeeps
  <2>7. CASE EndFree
    BY <1>1, <2>7, EndFreeKeeps
  <2>8. CASE Exit \/ Disconnect
    BY <1>1, <2>8, EndsKeep
  <2> QED BY <1>1, <2>1, <2>2, <2>3, <2>4, <2>5, <2>6, <2>7, <2>8 DEF ConnectorNext
<1>2. ASSUME ConnectorInv, UNCHANGED convars
      PROVE  ConnectorInv'
  BY <1>2 DEF convars, ConnectorInv, ConnectorTyped, HeldIsSayable, StoreAgrees, AskedIsKnown, FreedIsGone,
              HeldIsOwned, Owned, Asked, Freed, SizeOf
<1> QED BY <1>1, <1>2, InitHolds

\* A value read is the value the server has.
LEMMA ReadsBack ==
  ASSUME ConnectorInv, ~lost, NEW v, NEW i, Element(v, i) \in held
  PROVE  Element(v, i) \in DOMAIN store /\ Read(v, i) = store[Element(v, i)]
<1>1. PICK e : e = Element(v, i)
  OBVIOUS
<1>2. Heard(GetOf(e))[2] = e
  BY <1>1, CallsAreHeard DEF ConnectorInv, HeldIsSayable
<1>3. DOMAIN store = held /\ store[e] \in Seq(Nat)
  BY <1>1 DEF ConnectorInv, StoreAgrees, Agreement
<1>4. Read(v, i) = Reverse(Reverse(store[e]))
  BY <1>1, <1>2, Zenon DEF Read, Fetched
<1>5. Reverse(Reverse(store[e])) = store[e]
  BY <1>3, TurnedBack
<1> QED BY <1>1, <1>3, <1>4, <1>5

LEMMA ConnectorInvSays == ConnectorInv => AskedIsThere /\ NothingLeftBehind
<1> SUFFICES ASSUME ConnectorInv PROVE AskedIsThere /\ NothingLeftBehind
  OBVIOUS
<1>1. ASSUME call = Idle, ~lost, NEW v \in DOMAIN var_size, NEW i \in 0..(var_size[v] - 1), Unshared(v, i)
      PROVE  Element(v, i) \in DOMAIN store /\ Read(v, i) = wrote[<<v, i>>]
  <2>1. v \in Names /\ SizeOf(v) = var_size[v]
    BY DEF ConnectorInv, ConnectorTyped, SizeOf
  <2>2. call.op = "none"
    BY <1>1 DEF Idle
  <2>3. Asked(v, i)
    BY <2>1, <2>2 DEF Asked
  <2>4. <<v, i>> \in DOMAIN wrote
    BY <1>1, <2>3 DEF ConnectorInv, AskedIsKnown
  <2>5. Agreement(store, wrote, held)
    BY <1>1 DEF ConnectorInv, StoreAgrees
  <2>6. Alone(DOMAIN wrote, v, i)
    BY <1>1, Zenon DEF Unshared, Alone
  <2>7. Element(v, i) \in held /\ store[Element(v, i)] = wrote[<<v, i>>]
    BY <2>4, <2>5, <2>6 DEF Agreement
  <2> QED BY <1>1, <2>7, ReadsBack
<1>2. ASSUME NEW e \in held, e \notin orphans
      PROVE  \E v \in DOMAIN var_size : e \in Elements(v, 0, var_size[v])
  <2>1. PICK v \in Names : \E i \in 0..(SizeOf(v) - 1) : e = Element(v, i)
    BY <1>2 DEF ConnectorInv, HeldIsOwned, Owned
  <2>2. v \in DOMAIN var_size /\ SizeOf(v) = var_size[v]
    <3>1. SizeOf(v) # 0
      BY <2>1
    <3> QED BY <3>1, SizesFit DEF ConnectorInv
  <2> QED BY <2>1, <2>2 DEF Elements
<1> QED BY <1>1, <1>2 DEF AskedIsThere, NothingLeftBehind

\* Until the server's database may have failed it (a first DES, a lost connection, a sentence
\* longer than the client's buffer, a put whose compaction misses a file), every element a
\* connector asked for is at the server and reads as it was last written under that name, over
\* QUITs and new connections too: for every set of names of one word each, whatever is asked
\* for in between and however long the sentences are, except for elements that another variable
\* has under the same name (connector.h:70).
THEOREM ClientReadsItsOwn == ConnectorSpec => []AskedIsThere
<1>1. ConnectorSpec => []ConnectorInv
  BY ConnectorInvHolds, PTL DEF ConnectorSpec
<1> QED BY <1>1, ConnectorInvSays, PTL

\* What a NEW was sent for, and no DES since, has a connector that will free it (connector.cpp:79),
\* or was forgotten by a smaller ask or left behind by the end of a connection.
THEOREM ClientFreesItsOwn == ConnectorSpec => []NothingLeftBehind
<1>1. ConnectorSpec => []ConnectorInv
  BY ConnectorInvHolds, PTL DEF ConnectorSpec
<1> QED BY <1>1, ConnectorInvSays, PTL

=============================================================================
