-------------------------- MODULE NegiReport_proofs --------------------------
(***************************************************************************)
(* Theorems about the error list and the reports, for every source and any *)
(* number of errors: vectors and the string builder keep their assertions, *)
(* and a report says of every error where it is.                           *)
(*                                                                         *)
(* What a recursive function computes is proved with sets of numbers that  *)
(* have a least element (Induct, below): the theorems of NaturalsInduction *)
(* are about an operator, which no prover here can instantiate.            *)
(***************************************************************************)
EXTENDS NegiReport, NegiTokenize_proofs, WellFoundedInduction, FiniteSetTheorems

---------------------------------------------------------------------------
(* Induction.                                                              *)

LEMMA LeastNumber ==
    ASSUME NEW T, T \subseteq Nat, T # {}
    PROVE  \E m \in T : \A k \in T : m <= k
<1>1. PICK m \in T : \A k \in T : ~(<<k, m>> \in OpToRel(<, Nat))
  BY NatLessThanWellFounded, WFMin, Zenon
<1>2. ASSUME NEW k \in T PROVE m <= k
  <2>1. k \in Nat /\ m \in Nat
    OBVIOUS
  <2>2. <<k, m>> \in Nat \X Nat /\ <<k, m>>[1] = k /\ <<k, m>>[2] = m
    BY <2>1
  <2>3. k < m => <<k, m>> \in OpToRel(<, Nat)
    BY <2>2, Zenon DEF OpToRel
  <2>4. ~(k < m)
    BY <1>1, <2>3, Zenon
  <2> QED BY <2>1, <2>4
<1> QED BY <1>2

\* A set that every number is in when all smaller ones are.
LEMMA Induct ==
    ASSUME NEW T, \A n \in Nat : (\A m \in 0 .. n - 1 : m \in T) => n \in T
    PROVE  \A n \in Nat : n \in T
<1> DEFINE others == {n \in Nat : n \notin T}
<1>1. CASE others = {}
  BY <1>1
<1>2. CASE others # {}
  <2>1. PICK m \in others : \A k \in others : m <= k
    BY <1>2, LeastNumber
  <2>2. \A k \in 0 .. m - 1 : k \in T
    BY <2>1
  <2> QED BY <2>1, <2>2
<1> QED BY <1>1, <1>2

---------------------------------------------------------------------------
(* What FlattenSeq does.                                                   *)

\* The function that it defines.
Joins(seqs, n, g) == g = [i \in 1 .. n |-> IF i = 1 THEN seqs[i] ELSE g[i - 1] \o seqs[i]]

LEMMA JoinStep ==
    ASSUME NEW seqs, NEW n \in Nat, NEW g, Joins(seqs, n, g), NEW m \in 1 .. n
    PROVE  /\ m = 1 => g[m] = seqs[m]
           /\ m # 1 => g[m] = g[m - 1] \o seqs[m]
<1> DEFINE body == [i \in 1 .. n |-> IF i = 1 THEN seqs[i] ELSE g[i - 1] \o seqs[i]]
<1>1. body[m] = IF m = 1 THEN seqs[m] ELSE g[m - 1] \o seqs[m]
  OBVIOUS
<1>2. g = body
  BY DEF Joins
<1> HIDE DEF body
<1> QED BY <1>1, <1>2

LEMMA JoinFirst ==
    ASSUME NEW seqs, NEW n \in Nat \ {0}, NEW g, Joins(seqs, n, g)
    PROVE  g[1] = seqs[1]
<1> DEFINE body == [i \in 1 .. n |-> IF i = 1 THEN seqs[i] ELSE g[i - 1] \o seqs[i]]
<1>1. body[1] = seqs[1]
  OBVIOUS
<1>2. g = body
  BY DEF Joins
<1> HIDE DEF body
<1> QED BY <1>1, <1>2

LEMMA JoinExists ==
    ASSUME NEW S, NEW n \in Nat, NEW seqs \in [1 .. n -> Seq(S)]
    PROVE  \E g : Joins(seqs, n, g)
<1> DEFINE T == {m \in Nat : m <= n => \E g : Joins(seqs, m, g)}
<1>1. ASSUME NEW m \in Nat, \A k \in 0 .. m - 1 : k \in T PROVE m \in T
  <2>1. CASE m = 0
    <3> DEFINE g == [i \in 1 .. 0 |-> << >>]
    <3>1. Joins(seqs, 0, g)
      BY DEF Joins
    <3> QED BY <2>1, <3>1
  <2>2. CASE m # 0 /\ m <= n
    <3>1. m - 1 \in 0 .. m - 1 /\ m - 1 <= n
      BY <2>2
    <3>2. PICK g : Joins(seqs, m - 1, g)
      BY <1>1, <3>1
    <3> DEFINE h == [i \in 1 .. m |-> IF i = 1 THEN seqs[i] ELSE g[i - 1] \o seqs[i]]
    <3>3. ASSUME NEW i \in 1 .. m - 1 PROVE h[i] = g[i]
      <4>1. /\ i = 1 => g[i] = seqs[i]
            /\ i # 1 => g[i] = g[i - 1] \o seqs[i]
        <5>1. m - 1 \in Nat
          BY <3>1
        <5> QED BY <5>1, <3>2, JoinStep, Zenon
      <4>2. i \in 1 .. m
        OBVIOUS
      <4> QED BY <4>1, <4>2
    <3>4. h = [i \in 1 .. m |-> IF i = 1 THEN seqs[i] ELSE h[i - 1] \o seqs[i]]
      <4>1. \A i \in 1 .. m : i = 1 \/ h[i - 1] = g[i - 1]
        <5> HIDE DEF h
        <5> QED BY <3>3
      <4> QED BY <4>1
    <3>5. Joins(seqs, m, h)
      <4> HIDE DEF h
      <4> QED BY <3>4 DEF Joins
    <3> QED BY <3>5
  <2> QED BY <2>1, <2>2
<1>2. n \in T
  <2> HIDE DEF T
  <2> QED BY <1>1, Induct
<1> QED BY <1>2

LEMMA JoinTyped ==
    ASSUME NEW S, NEW n \in Nat, NEW seqs \in [1 .. n -> Seq(S)], NEW g, Joins(seqs, n, g)
    PROVE  \A i \in 1 .. n : g[i] \in Seq(S)
<1> DEFINE T == {m \in Nat : m \in 1 .. n => g[m] \in Seq(S)}
<1>1. ASSUME NEW m \in Nat, \A k \in 0 .. m - 1 : k \in T PROVE m \in T
  <2>1. CASE m = 1 /\ 1 <= n
    <3>1. 1 \in 1 .. n /\ n \in Nat \ {0}
      BY <2>1
    <3>2. g[1] = seqs[1]
      BY <3>1, JoinFirst
    <3>3. seqs[1] \in Seq(S)
      BY <3>1
    <3> QED BY <2>1, <3>2, <3>3
  <2>2. CASE m \in 2 .. n
    <3>1. m - 1 \in 0 .. m - 1 /\ m - 1 \in 1 .. n /\ m \in 1 .. n
      BY <2>2
    <3>2. g[m - 1] \in Seq(S) /\ seqs[m] \in Seq(S)
      BY <1>1, <3>1
    <3>3. g[m] = g[m - 1] \o seqs[m]
      <4>1. m # 1
        BY <2>2
      <4> QED BY <4>1, <3>1, JoinStep, Zenon
    <3> QED BY <3>2, <3>3, ConcatProperties
  <2> QED BY <2>1, <2>2
<1>2. \A m \in Nat : m \in T
  <2> HIDE DEF T
  <2> QED BY <1>1, Induct
<1> QED BY <1>2

Agree(f, e, n) == \A i \in 1 .. n : e[i] = f[i]

\* Functions for lists that begin in the same way do, too.
LEMMA JoinAgrees ==
    ASSUME NEW n \in Nat, NEW f, NEW e, Agree(f, e, n),
           NEW g, Joins(f, n, g), NEW h, Joins(e, n + 1, h)
    PROVE  Agree(g, h, n)
<1> USE DEF Agree
<1> DEFINE T == {m \in Nat : m \in 1 .. n => h[m] = g[m]}
<1>1. ASSUME NEW m \in Nat, \A i \in 0 .. m - 1 : i \in T PROVE m \in T
  <2>1. CASE m = 1 /\ 1 <= n
    <3>1. 1 \in 1 .. n /\ n \in Nat \ {0} /\ n + 1 \in Nat \ {0}
      BY <2>1
    <3>2. g[1] = f[1]
      BY <3>1, JoinFirst
    <3>3. h[1] = e[1]
      BY <3>1, JoinFirst
    <3> QED BY <2>1, <3>1, <3>2, <3>3
  <2>2. CASE m \in 2 .. n
    <3>1. m - 1 \in 0 .. m - 1 /\ m - 1 \in 1 .. n /\ m \in 1 .. n /\ m \in 1 .. n + 1
      BY <2>2
    <3>2. h[m - 1] = g[m - 1] /\ e[m] = f[m]
      BY <1>1, <3>1
    <3>3. g[m] = g[m - 1] \o f[m] /\ h[m] = h[m - 1] \o e[m]
      <4>1. m # 1
        BY <2>2
      <4>2. n + 1 \in Nat
        OBVIOUS
      <4>3. g[m] = g[m - 1] \o f[m]
        BY <4>1, <3>1, JoinStep, Zenon
      <4>4. h[m] = h[m - 1] \o e[m]
        BY <4>1, <4>2, <3>1, JoinStep, Zenon
      <4> QED BY <4>3, <4>4
    <3> QED BY <3>2, <3>3
  <2> QED BY <2>1, <2>2
<1>2. \A m \in Nat : m \in T
  <2> HIDE DEF T
  <2> QED BY <1>1, Induct
<1> QED BY <1>2

LEMMA FlattenNone == ASSUME NEW f, f \in [1 .. 0 -> {}] PROVE Seqs!FlattenSeq(f) = << >>
<1>1. f = << >> /\ Len(f) = 0
  OBVIOUS
<1> QED BY <1>1 DEF Seqs!FlattenSeq

LEMMA FlattenJoins ==
    ASSUME NEW S, NEW n \in Nat \ {0}, NEW f \in [1 .. n -> Seq(S)]
    PROVE  \E g : Joins(f, n, g) /\ Seqs!FlattenSeq(f) = g[n]
<1>1. Len(f) = n /\ f \in Seq(Seq(S))
  BY FunctionIsSeq
<1> DEFINE j == CHOOSE g : Joins(f, n, g)
<1>2. Joins(f, n, j)
  BY JoinExists
<1>3. Seqs!FlattenSeq(f) = (CHOOSE g : g = [i \in 1 .. n |-> IF i = 1 THEN f[i] ELSE g[i - 1] \o f[i]])[n]
  BY <1>1, Zenon DEF Seqs!FlattenSeq
<1>4. Seqs!FlattenSeq(f) = j[n]
  BY <1>3 DEF Joins
<1> QED BY <1>2, <1>4

LEMMA FlattenTyped ==
    ASSUME NEW S, NEW n \in Nat, NEW f \in [1 .. n -> Seq(S)]
    PROVE  Seqs!FlattenSeq(f) \in Seq(S)
<1>1. CASE n = 0
  <2>1. f \in [1 .. 0 -> {}]
    BY <1>1
  <2> QED BY <2>1, FlattenNone, EmptySeq
<1>2. CASE n # 0
  <2>1. PICK g : Joins(f, n, g) /\ Seqs!FlattenSeq(f) = g[n]
    BY <1>2, FlattenJoins
  <2>2. n \in 1 .. n
    BY <1>2
  <2> QED BY <2>1, <2>2, JoinTyped
<1> QED BY <1>1, <1>2

\* One more sequence is added at the end.
LEMMA FlattenAdds ==
    ASSUME NEW S, NEW n \in Nat, NEW f \in [1 .. n -> Seq(S)], NEW e \in [1 .. n + 1 -> Seq(S)],
           \A i \in 1 .. n : e[i] = f[i]
    PROVE  Seqs!FlattenSeq(e) = Seqs!FlattenSeq(f) \o e[n + 1]
<1>1. PICK h : Joins(e, n + 1, h) /\ Seqs!FlattenSeq(e) = h[n + 1]
  BY FlattenJoins
<1>2. e[n + 1] \in Seq(S) /\ n + 1 \in 1 .. n + 1
  OBVIOUS
<1>3. CASE n = 0
  <2>1. f \in [1 .. 0 -> {}]
    BY <1>3
  <2>2. h[n + 1] = e[n + 1]
    BY <1>1, <1>3 DEF Joins
  <2> QED BY <1>1, <1>2, <2>1, <2>2, FlattenNone, ConcatEmptySeq
<1>4. CASE n # 0
  <2>1. PICK g : Joins(f, n, g) /\ Seqs!FlattenSeq(f) = g[n]
    BY <1>4, FlattenJoins
  <2>2. \A i \in 1 .. n : h[i] = g[i]
    <3>1. n + 1 \in Nat /\ n <= n + 1
      OBVIOUS
    <3>2. Joins(e, n + 1, h) /\ Joins(f, n, g)
      BY <1>1, <2>1
    <3>3. n \in Nat /\ Agree(f, e, n)
      BY DEF Agree
    <3>4. Agree(g, h, n)
      BY <3>2, <3>3, JoinAgrees
    <3> QED BY <3>4 DEF Agree
  <2>3. h[n + 1] = h[n] \o e[n + 1]
    <3>1. n + 1 # 1 /\ n + 1 \in Nat /\ (n + 1) - 1 = n
      BY <1>4
    <3>2. h[n + 1] = h[(n + 1) - 1] \o e[n + 1]
      BY <1>1, <1>2, <3>1, JoinStep, Zenon
    <3> QED BY <3>1, <3>2
  <2>4. h[n] = g[n]
    <3>1. n \in 1 .. n
      BY <1>4
    <3> QED BY <3>1, <2>2
  <2> QED BY <1>1, <2>1, <2>3, <2>4
<1> QED BY <1>3, <1>4

\* Texts are joined to a text, in any order.
LEMMA TextsJoin ==
    ASSUME NEW x \in Texts, NEW y \in Texts, NEW z \in Texts
    PROVE  x \o y \in Texts /\ (x \o y) \o z = x \o (y \o z)
<1>1. x \in Seq(Chars) /\ y \in Seq(Chars) /\ z \in Seq(Chars)
  BY DEF Texts
<1>2. x \o y \in Seq(Chars)
  BY <1>1, ConcatProperties
<1>3. (x \o y) \o z = x \o (y \o z)
  BY <1>1, ConcatAssociative, SMT
<1> QED BY <1>2, <1>3 DEF Texts

---------------------------------------------------------------------------
(* The digits of a number.                                                 *)

DigitOf(d) == CHOOSE c \in Digits : \E i \in 0 .. 9 :
                  d = i /\ c = <<"0", "1", "2", "3", "4", "5", "6", "7", "8", "9">>[i + 1]

Numerals(n, g) ==
    g = [k \in 0 .. n |-> IF k < 10 THEN <<DigitOf(k)>> ELSE Append(g[k \div 10], DigitOf(k % 10))]

LEMMA DigitOK == ASSUME NEW d \in 0 .. 9 PROVE DigitOf(d) \in Digits
<1> DEFINE tuple == <<"0", "1", "2", "3", "4", "5", "6", "7", "8", "9">>
<1>1. tuple[d + 1] \in Digits
  BY DEF Digits
<1> HIDE DEF tuple
<1>2. \E c \in Digits : \E i \in 0 .. 9 : d = i /\ c = tuple[i + 1]
  BY <1>1
<1> QED BY <1>2 DEF DigitOf, tuple

LEMMA TenthOK == ASSUME NEW k \in Nat PROVE /\ k % 10 \in 0 .. 9
                                             /\ k >= 10 => k \div 10 \in 0 .. k - 1
OBVIOUS

LEMMA NumeralStep ==
    ASSUME NEW n \in Nat, NEW g, Numerals(n, g), NEW k \in 0 .. n
    PROVE  /\ k < 10 => g[k] = <<DigitOf(k)>>
           /\ k >= 10 => g[k] = Append(g[k \div 10], DigitOf(k % 10))
<1> DEFINE body == [i \in 0 .. n |-> IF i < 10 THEN <<DigitOf(i)>>
                                     ELSE Append(g[i \div 10], DigitOf(i % 10))]
<1>1. /\ k < 10 => body[k] = <<DigitOf(k)>>
      /\ k >= 10 => body[k] = Append(g[k \div 10], DigitOf(k % 10))
  OBVIOUS
<1>2. g = body
  BY DEF Numerals
<1> HIDE DEF body
<1> QED BY <1>1, <1>2

LEMMA NumeralsExist == ASSUME NEW n \in Nat PROVE \E g : Numerals(n, g)
<1> DEFINE T == {m \in Nat : \E g : Numerals(m, g)}
<1>1. ASSUME NEW m \in Nat, \A k \in 0 .. m - 1 : k \in T PROVE m \in T
  <2>1. CASE m = 0
    <3> DEFINE g == [k \in 0 .. 0 |-> <<DigitOf(k)>>]
    <3>1. g = [k \in 0 .. 0 |-> IF k < 10 THEN <<DigitOf(k)>> ELSE Append(g[k \div 10], DigitOf(k % 10))]
      OBVIOUS
    <3> HIDE DEF g
    <3> QED BY <2>1, <3>1 DEF Numerals
  <2>2. CASE m # 0
    <3>1. m - 1 \in 0 .. m - 1 /\ m - 1 \in Nat
      BY <2>2
    <3>2. PICK g : Numerals(m - 1, g)
      BY <1>1, <3>1
    <3> DEFINE h == [k \in 0 .. m |-> IF k < 10 THEN <<DigitOf(k)>>
                                      ELSE Append(g[k \div 10], DigitOf(k % 10))]
    <3>3. ASSUME NEW k \in 0 .. m - 1 PROVE h[k] = g[k]
      <4>1. /\ k < 10 => g[k] = <<DigitOf(k)>>
            /\ k >= 10 => g[k] = Append(g[k \div 10], DigitOf(k % 10))
        BY <3>1, <3>2, NumeralStep, Zenon
      <4>2. h[k] = IF k < 10 THEN <<DigitOf(k)>> ELSE Append(g[k \div 10], DigitOf(k % 10))
        OBVIOUS
      <4>3. k < 10 \/ k >= 10
        OBVIOUS
      <4> HIDE DEF h
      <4> QED BY <4>1, <4>2, <4>3
    <3>4. ASSUME NEW k \in 0 .. m PROVE k < 10 \/ h[k \div 10] = g[k \div 10]
      <4>1. CASE k >= 10
        <5>1. k \div 10 \in 0 .. m - 1
          BY <4>1, TenthOK
        <5> HIDE DEF h
        <5> QED BY <5>1, <3>3
      <4> QED BY <4>1
    <3>5. h = [k \in 0 .. m |-> IF k < 10 THEN <<DigitOf(k)>>
                                ELSE Append(h[k \div 10], DigitOf(k % 10))]
      BY <3>4
    <3> HIDE DEF h
    <3>6. Numerals(m, h)
      BY <3>5 DEF Numerals
    <3> QED BY <3>6
  <2> QED BY <2>1, <2>2
<1>2. n \in T
  <2> HIDE DEF T
  <2> QED BY <1>1, Induct
<1> QED BY <1>2

\* string_format writes digits.
LEMMA DecimalText == ASSUME NEW n \in Nat PROVE Decimal(n) \in Texts
<1> DEFINE g == CHOOSE f : Numerals(n, f)
<1>1. Numerals(n, g)
  BY NumeralsExist
<1>2. Decimal(n) = g[n]
  BY Zenon DEF Decimal, Numerals, DigitOf
<1> HIDE DEF g
<1> DEFINE T == {m \in Nat : m \in 0 .. n => g[m] \in Texts}
<1>3. ASSUME NEW m \in Nat, \A k \in 0 .. m - 1 : k \in T PROVE m \in T
  <2>1. ASSUME NEW d \in 0 .. 9 PROVE DigitOf(d) \in Chars
    <3>1. Digits \subseteq Chars
      BY Zenon DEF Chars
    <3> QED BY <3>1, DigitOK
  <2>2. CASE m \in 0 .. n
    <3>1. /\ m < 10 => g[m] = <<DigitOf(m)>>
          /\ m >= 10 => g[m] = Append(g[m \div 10], DigitOf(m % 10))
      BY <1>1, <2>2, NumeralStep, Zenon
    <3>2. CASE m < 10
      <4>1. DigitOf(m) \in Chars
        BY <2>1, <3>2
      <4>2. <<DigitOf(m)>> \in Texts
        BY <4>1 DEF Texts
      <4>3. g[m] \in Texts
        BY <3>1, <3>2, <4>2
      <4> HIDE DEF Texts
      <4> QED BY <4>3
    <3>3. CASE m >= 10
      <4>1. m \div 10 \in 0 .. m - 1 /\ m % 10 \in 0 .. 9
        BY <3>3, TenthOK
      <4>2. g[m \div 10] \in Texts
        BY <1>3, <2>2, <4>1
      <4>3. DigitOf(m % 10) \in Chars
        BY <2>1, <4>1
      <4>4. Append(g[m \div 10], DigitOf(m % 10)) \in Texts
        BY <4>2, <4>3, AppendProperties DEF Texts
      <4>5. g[m] \in Texts
        BY <3>1, <3>3, <4>4
      <4> QED BY <4>5
    <3> QED BY <3>2, <3>3
  <2> QED BY <2>2
<1>4. n \in T
  <2> HIDE DEF T
  <2> QED BY <1>3, Induct
<1>5. n \in 0 .. n
  OBVIOUS
<1> QED BY <1>2, <1>4, <1>5

---------------------------------------------------------------------------
(* Lines and columns.                                                      *)

\* Where the line of a place begins.
LineBegin(i) ==
    IF LineEndsBefore(i) = {} THEN 0
    ELSE CHOOSE k \in LineEndsBefore(i) : \A j \in LineEndsBefore(i) : j <= k

LEMMA PlaceTextIs ==
    ASSUME NEW i
    PROVE  PlaceText(i) = Decimal(Cardinality(LineEndsBefore(i)) + 1) \o <<":">>
                          \o Decimal(i - LineBegin(i) + 1)
BY Zenon DEF PlaceText, LineBegin

\* What one more character does to them.
LEMMA LineStep ==
    ASSUME NEW k \in Nat \ {0}
    PROVE  /\ src[k] = Newline =>
                  /\ Cardinality(LineEndsBefore(k)) = Cardinality(LineEndsBefore(k - 1)) + 1
                  /\ LineBegin(k) = k
           /\ src[k] # Newline =>
                  /\ LineEndsBefore(k) = LineEndsBefore(k - 1)
                  /\ LineBegin(k) = LineBegin(k - 1)
<1>1. CASE src[k] = Newline
  <2> DEFINE ends == LineEndsBefore(k - 1)
  <2>1. LineEndsBefore(k) = ends \cup {k} /\ k \notin ends /\ \A j \in ends : j \in Nat /\ j < k
    BY <1>1 DEF LineEndsBefore
  <2>2. IsFiniteSet(ends)
    <3>1. IsFiniteSet(1 .. k - 1)
      BY FS_Interval
    <3>2. ends \subseteq 1 .. k - 1
      BY DEF LineEndsBefore
    <3> QED BY <3>1, <3>2, FS_Subset
  <2> HIDE DEF ends
  <2>3. Cardinality(LineEndsBefore(k)) = Cardinality(ends) + 1
    BY <2>1, <2>2, FS_AddElement
  <2>4. LineBegin(k) = k
    <3> DEFINE all == LineEndsBefore(k)
               last == CHOOSE m \in all : \A j \in all : j <= m
    <3>1. k \in all /\ \A j \in all : j \in Nat /\ j <= k
      BY <2>1
    <3> HIDE DEF all
    <3>2. last \in all /\ \A j \in all : j <= last
      BY <3>1
    <3>3. LineBegin(k) = last
      BY <3>1 DEF LineBegin, all
    <3> HIDE DEF last
    <3> QED BY <3>1, <3>2, <3>3
  <2> QED BY <1>1, <2>3, <2>4 DEF ends
<1>2. CASE src[k] # Newline
  <2>1. LineEndsBefore(k) = LineEndsBefore(k - 1)
    BY <1>2 DEF LineEndsBefore
  <2> QED BY <1>2, <2>1 DEF LineBegin
<1> QED BY <1>1, <1>2

LEMMA LineNone == LineEndsBefore(0) = {} /\ Cardinality(LineEndsBefore(0)) = 0 /\ LineBegin(0) = 0
<1>1. LineEndsBefore(0) = {}
  BY DEF LineEndsBefore
<1> QED BY <1>1, FS_EmptySet DEF LineBegin

LEMMA LineTyped ==
    \A k \in Nat : Cardinality(LineEndsBefore(k)) \in Nat /\ LineBegin(k) \in 0 .. k
<1> DEFINE T == {k \in Nat : Cardinality(LineEndsBefore(k)) \in Nat /\ LineBegin(k) \in 0 .. k}
<1>1. ASSUME NEW k \in Nat, \A m \in 0 .. k - 1 : m \in T PROVE k \in T
  <2>1. CASE k = 0
    BY <2>1, LineNone
  <2>2. CASE k # 0
    <3>1. k - 1 \in T /\ k \in Nat \ {0}
      BY <1>1, <2>2
    <3>2. Cardinality(LineEndsBefore(k - 1)) \in Nat /\ LineBegin(k - 1) \in 0 .. k - 1
      BY <3>1
    <3> DEFINE new == Cardinality(LineEndsBefore(k))
               old == Cardinality(LineEndsBefore(k - 1))
    <3>3. \/ new = old + 1 /\ LineBegin(k) = k
          \/ new = old /\ LineBegin(k) = LineBegin(k - 1)
      BY <3>1, LineStep
    <3>4. new \in Nat /\ LineBegin(k) \in 0 .. k
      <4> HIDE DEF new, old
      <4>1. old \in Nat
        BY <3>2 DEF old
      <4> QED BY <3>2, <3>3, <4>1
    <3> QED BY <3>4
  <2> QED BY <2>1, <2>2
<1>2. \A k \in Nat : k \in T
  <2> HIDE DEF T
  <2> QED BY <1>1, Induct
<1> QED BY <1>2

\* find_pos counts the ends of lines, and the characters since the last one.
LEMMA FindPosCounts ==
    ASSUME NEW i \in Nat
    PROVE  FindPos(i) = [y |-> Cardinality(LineEndsBefore(i)), x |-> i - LineBegin(i)]
<1> DEFINE Body(g) == [k \in 0 .. i |->
                          IF k = 0 THEN [y |-> 0, x |-> 0]
                          ELSE IF src[k] = Newline THEN [y |-> g[k - 1].y + 1, x |-> 0]
                          ELSE [g[k - 1] EXCEPT !.x = @ + 1]]
           w == [k \in 0 .. i |-> [y |-> Cardinality(LineEndsBefore(k)), x |-> k - LineBegin(k)]]
           p == CHOOSE g : g = Body(g)
<1>1. ASSUME NEW k \in 0 .. i, k # 0
      PROVE  w[k] = IF src[k] = Newline THEN [y |-> w[k - 1].y + 1, x |-> 0]
                    ELSE [w[k - 1] EXCEPT !.x = @ + 1]
  <2> DEFINE y0 == Cardinality(LineEndsBefore(k - 1))
             b0 == LineBegin(k - 1)
             y1 == Cardinality(LineEndsBefore(k))
             b1 == LineBegin(k)
  <2>1. k \in Nat \ {0} /\ k - 1 \in 0 .. i /\ k - 1 \in Nat
    BY <1>1
  <2>2. w[k] = [y |-> y1, x |-> k - b1] /\ w[k - 1] = [y |-> y0, x |-> (k - 1) - b0]
    BY <2>1
  <2>3. /\ src[k] = Newline => y1 = y0 + 1 /\ b1 = k
        /\ src[k] # Newline => y1 = y0 /\ b1 = b0
    BY <2>1, LineStep
  <2>4. y0 \in Nat /\ b0 \in Int /\ b1 \in Int
    BY <2>1, LineTyped
  <2> HIDE DEF w, y0, y1, b0, b1
  <2>5. w[k - 1].y = y0 /\ [w[k - 1] EXCEPT !.x = @ + 1] = [y |-> y0, x |-> ((k - 1) - b0) + 1]
    BY <2>2
  <2>6. ((k - 1) - b0) + 1 = k - b0 /\ k - k = 0
    BY <2>1, <2>4
  <2>7. CASE src[k] = Newline
    BY <2>2, <2>3, <2>5, <2>6, <2>7
  <2>8. CASE src[k] # Newline
    BY <2>2, <2>3, <2>5, <2>6, <2>8
  <2> QED BY <2>7, <2>8
<1>2. w[0] = [y |-> 0, x |-> 0]
  BY LineNone
<1>3. w = Body(w)
  <2>1. \A k \in 0 .. i : w[k] = Body(w)[k]
    <3> HIDE DEF w
    <3> QED BY <1>1, <1>2
  <2>2. w = [k \in 0 .. i |-> w[k]]
    OBVIOUS
  <2>3. Body(w) = [k \in 0 .. i |-> Body(w)[k]]
    <3> HIDE DEF w
    <3> QED OBVIOUS
  <2> HIDE DEF w, Body
  <2> QED BY <2>1, <2>2, <2>3
<1>4. p = Body(p)
  <2> HIDE DEF w, Body
  <2> QED BY <1>3
<1>5. FindPos(i) = p[i]
  BY Zenon DEF FindPos
<1> DEFINE T == {k \in Nat : k \in 0 .. i => p[k] = w[k]}
<1>6. ASSUME NEW k \in Nat, \A m \in 0 .. k - 1 : m \in T PROVE k \in T
  <2>1. CASE k \in 0 .. i
    <3>1. p[k] = Body(p)[k]
      <4> HIDE DEF p, Body
      <4> QED BY <1>4
    <3> HIDE DEF p
    <3>2. Body(p)[k] = IF k = 0 THEN [y |-> 0, x |-> 0]
                       ELSE IF src[k] = Newline THEN [y |-> p[k - 1].y + 1, x |-> 0]
                       ELSE [p[k - 1] EXCEPT !.x = @ + 1]
      BY <2>1
    <3>3. k # 0 => p[k - 1] = w[k - 1]
      BY <1>6, <2>1
    <3> HIDE DEF Body, w
    <3>4. p[k] = w[k]
      BY <1>1, <1>2, <2>1, <3>1, <3>2, <3>3
    <3> QED BY <3>4
  <2> QED BY <2>1
<1>7. i \in T
  <2> HIDE DEF T
  <2> QED BY <1>6, Induct
<1>8. i \in 0 .. i
  OBVIOUS
<1> QED BY <1>5, <1>7, <1>8

\* The place that the summary writes.
LEMMA PlaceRight ==
    ASSUME NEW i \in Nat
    PROVE  PosText(i) = PlaceText(i) /\ PlaceText(i) \in Texts
<1> DEFINE y == Cardinality(LineEndsBefore(i))
           x == i - LineBegin(i)
<1>1. y \in Nat /\ x \in Nat
  BY LineTyped
<1>2. PosText(i) = Decimal(1 + y) \o <<":">> \o Decimal(1 + x)
  <2>1. FindPos(i).y = y /\ FindPos(i).x = x
    BY FindPosCounts
  <2> QED BY <2>1, Zenon DEF PosText
<1>3. PlaceText(i) = Decimal(y + 1) \o <<":">> \o Decimal(x + 1)
  BY PlaceTextIs
<1> HIDE DEF y, x
<1>4. 1 + y = y + 1 /\ 1 + x = x + 1 /\ y + 1 \in Nat /\ x + 1 \in Nat
  BY <1>1
<1>5. Decimal(y + 1) \in Texts /\ Decimal(x + 1) \in Texts /\ <<":">> \in Texts
  <2>1. ":" \in Chars
    BY Zenon DEF Chars
  <2>2. <<":">> \in Texts
    BY <2>1 DEF Texts
  <2> QED BY <1>4, <2>2, DecimalText
<1>6. PosText(i) = PlaceText(i)
  BY <1>2, <1>3, <1>4, Zenon
<1>7. PlaceText(i) \in Texts
  <2> DEFINE a == Decimal(y + 1)
             b == <<":">>
             c == Decimal(x + 1)
  <2>1. a \in Texts /\ b \in Texts /\ c \in Texts /\ PlaceText(i) = (a \o b) \o c
    BY <1>3, <1>5
  <2> HIDE DEF a, b, c
  <2>2. a \o b \in Texts
    BY <2>1, TextsJoin
  <2> QED BY <2>1, <2>2, TextsJoin
<1> QED BY <1>6, <1>7

---------------------------------------------------------------------------
(* The inductive invariant.                                                *)

Places == [l : Nat, r : Nat]
ErrSlots == Places \cup {Zero}

\* The errors are where tokens are.
ErrorsInv ==
    /\ VecOver(errs, ErrSlots)
    /\ \A i \in 1 .. errs.len : \E j \in DOMAIN Toks :
          errs.data[i] = [l |-> Toks[j].l, r |-> Toks[j].r]

\* A report begins when the tokenizer and the parser are done, and goes through one list.
UseInv ==
    /\ turn \in Nat /\ use \in {"none", "summary", "dump"}
    /\ use = "none" => turn = 0
    /\ use = "summary" => turn <= errs.len
    /\ use = "dump" => turn <= toks.len
    /\ mode # "done" => errs.len = 0 /\ use = "none"

\* What was to be written of an element, and of all so far.
Item(i) == IF use = "summary" THEN ErrorText(errs.data[i]) ELSE TokenText(toks.data[i])
Said == Seqs!FlattenSeq([i \in 1 .. turn |-> Item(i)])

ReportInv == ErrorsInv /\ UseInv /\ Holds(out, Said)

LEMMA NothingSaid ==
    /\ turn = 0 => Said = << >>
    /\ turn' = 0 => Said' = << >>
<1>1. ASSUME turn = 0 PROVE Said = << >>
  <2> DEFINE f == [i \in 1 .. turn |-> Item(i)]
  <2>1. f \in [1 .. 0 -> {}]
    BY <1>1
  <2> HIDE DEF f
  <2>2. Seqs!FlattenSeq(f) = << >>
    BY <2>1, FlattenNone
  <2> QED BY <2>2 DEF Said, f
<1>2. ASSUME turn' = 0 PROVE Said' = << >>
  <2> DEFINE f == [i \in 1 .. turn' |-> Item(i)']
  <2>1. f \in [1 .. 0 -> {}]
    BY <1>2
  <2> HIDE DEF f
  <2>2. Seqs!FlattenSeq(f) = << >>
    BY <2>1, FlattenNone
  <2> QED BY <2>2 DEF Said, f
<1> QED BY <1>1, <1>2

\* The places of the tokens, and the tokens in their vector.
LEMMA TokenPlaces ==
    ASSUME LexInv, NEW j \in DOMAIN Toks
    PROVE  /\ Toks[j].l \in Nat /\ Toks[j].r \in Nat
           /\ Toks[j].l <= Len(src) /\ Toks[j].r <= Len(src)
<1>1. /\ l \in Nat /\ r \in Nat /\ l <= r /\ r <= Len(src) /\ Len(src) \in Nat
      /\ At \in Nat /\ At <= r
  BY LenProperties DEF LexInv, TypeInv, At
<1>2. j \in 1 .. Len(Toks) /\ Toks[j] \in Tokens
  BY ElementOfSeq, LenProperties DEF LexInv, TypeInv
<1>3. Toks[j].l \in Nat /\ Toks[j].r \in Nat
  BY <1>2 DEF Tokens
<1>4. Toks[j].r <= At /\ (Toks[j].l < Toks[j].r \/ Toks[j].l = Toks[j].r)
  BY <1>2 DEF LexInv, OrderInv
<1> QED BY <1>1, <1>3, <1>4

LEMMA ToksAre ==
    ASSUME LexInv
    PROVE  /\ toks.len \in Nat /\ DOMAIN Toks = 1 .. toks.len
           /\ \A i \in 1 .. toks.len : toks.data[i] = Toks[i]
<1>1. toks.data \in Seq(Slots) /\ toks.len \in Nat /\ toks.len <= Len(toks.data) /\ Len(toks.data) \in Nat
  BY LenProperties DEF LexInv, TypeInv, VecTyped, VecOver
<1>2. \A i \in 1 .. toks.len : toks.data[i] \in Slots
  BY <1>1, ElementOfSeq
<1>3. /\ SubSeq(toks.data, 1, toks.len) \in Seq(Slots) /\ Len(SubSeq(toks.data, 1, toks.len)) = toks.len
      /\ \A i \in 1 .. toks.len : SubSeq(toks.data, 1, toks.len)[i] = toks.data[i]
  BY <1>1, <1>2, SubSeqProperties
<1> QED BY <1>1, <1>3, LenProperties DEF Toks, Elements

---------------------------------------------------------------------------
(* What is written of an error and of a token.                             *)

LEMMA FewChars ==
    ASSUME NEW a \in Chars, NEW b \in Chars, NEW c \in Chars, NEW d \in Chars
    PROVE  <<a>> \in Texts /\ <<a, b>> \in Texts /\ <<a, b, c, d>> \in Texts
BY DEF Texts

LEMMA SevenChars ==
    ASSUME NEW a \in Chars, NEW b \in Chars, NEW c \in Chars, NEW d \in Chars,
           NEW e \in Chars, NEW f \in Chars, NEW g \in Chars
    PROVE  <<a, b, c, d, e, f, g>> \in Texts
BY DEF Texts

LEMMA Pieces ==
    /\ <<".", ".">> \in Texts /\ <<" ", "n", "e", "a", "r", " ", "'">> \in Texts
    /\ <<"'", Newline, " ", " ">> \in Texts /\ Message \in Texts /\ <<Newline>> \in Texts
    /\ <<",">> \in Texts
<1>1. /\ "." \in Chars /\ " " \in Chars /\ "n" \in Chars /\ "e" \in Chars /\ "a" \in Chars
      /\ "r" \in Chars /\ "'" \in Chars /\ Newline \in Chars /\ "!" \in Chars /\ "," \in Chars
  BY Zenon DEF Chars
<1>2. <<".", ".">> \in Texts
  BY <1>1, FewChars, Zenon
<1>3. <<" ", "n", "e", "a", "r", " ", "'">> \in Texts
  BY <1>1, SevenChars, Zenon
<1>4. <<"'", Newline, " ", " ">> \in Texts
  BY <1>1, FewChars, Zenon
<1>5. Message \in Texts
  BY <1>1, FewChars, Zenon DEF Message
<1>6. <<Newline>> \in Texts /\ <<",">> \in Texts
  BY <1>1, FewChars, Zenon
<1> QED BY <1>2, <1>3, <1>4, <1>5, <1>6

Moves(x, y, z) == (x \o y) \o z = x \o (y \o z)

LEMMA TextsMove == ASSUME NEW x \in Texts, NEW y \in Texts, NEW z \in Texts PROVE Moves(x, y, z)
BY TextsJoin DEF Moves

\* Six pieces that are added one after the other are added as one.
Joint(a, b, c, d, e, f) == a \o b \o c \o d \o e \o f
Adds(s, a, b, c, d, e, f) ==
    s \o a \o b \o c \o d \o e \o f = s \o Joint(a, b, c, d, e, f)

LEMMA SixPieces ==
    ASSUME NEW s \in Texts, NEW a \in Texts, NEW b \in Texts, NEW c \in Texts,
           NEW d \in Texts, NEW e \in Texts, NEW f \in Texts
    PROVE  Joint(a, b, c, d, e, f) \in Texts /\ Adds(s, a, b, c, d, e, f)
<1> DEFINE ab == a \o b
           abc == ab \o c
           abcd == abc \o d
           abcde == abcd \o e
           all == abcde \o f
<1>1. ab \in Texts
  BY TextsJoin
<1>2. abc \in Texts
  <2> HIDE DEF ab
  <2> QED BY <1>1, TextsJoin
<1>3. abcd \in Texts
  <2> HIDE DEF abc
  <2> QED BY <1>2, TextsJoin
<1>4. abcde \in Texts
  <2> HIDE DEF abcd
  <2> QED BY <1>3, TextsJoin
<1>5. all \in Texts
  <2> HIDE DEF abcde
  <2> QED BY <1>4, TextsJoin
<1>6. /\ Moves(s, a, b) /\ Moves(s, ab, c) /\ Moves(s, abc, d) /\ Moves(s, abcd, e)
      /\ Moves(s, abcde, f)
  <2> HIDE DEF ab, abc, abcd, abcde
  <2> QED BY <1>1, <1>2, <1>3, <1>4, TextsMove
<1>7. (((((s \o a) \o b) \o c) \o d) \o e) \o f = s \o all
  BY <1>6, Zenon DEF Moves
<1> QED BY <1>5, <1>7, Zenon DEF Joint, Adds

LEMMA JointText ==
    ASSUME NEW a \in Texts, NEW b \in Texts, NEW c \in Texts,
           NEW d \in Texts, NEW e \in Texts, NEW f \in Texts
    PROVE  Joint(a, b, c, d, e, f) \in Texts
BY SixPieces

\* The first of the pieces of an error.
Near(err) == PlaceText(err.l) \o <<".", ".">> \o PlaceText(err.r)

LEMMA NearRight ==
    ASSUME NEW err, err.l \in Nat, err.r \in Nat
    PROVE  /\ PosText(err.l) \o <<".", ".">> \o PosText(err.r) = Near(err)
           /\ Near(err) \in Texts
<1>1. /\ PosText(err.l) = PlaceText(err.l) /\ PosText(err.r) = PlaceText(err.r)
      /\ PlaceText(err.l) \in Texts /\ PlaceText(err.r) \in Texts
  BY PlaceRight
<1>2. Near(err) \in Texts
  BY <1>1, Pieces, ConcatProperties DEF Near, Texts
<1> QED BY <1>1, <1>2 DEF Near

LEMMA ErrorTextIs ==
    ASSUME NEW err
    PROVE  ErrorText(err) = Near(err) \o <<" ", "n", "e", "a", "r", " ", "'">>
                            \o Slice(src, err.l, err.r)
                            \o <<"'", Newline, " ", " ">> \o Message \o <<Newline>>
BY Zenon DEF ErrorText, Near

LEMMA ErrorTyped ==
    ASSUME LexInv, ErrorsInv, NEW i \in 1 .. errs.len
    PROVE  /\ errs.data[i].l \in Nat /\ errs.data[i].r \in Nat
           /\ Slice(src, errs.data[i].l, errs.data[i].r) \in Texts
           /\ ErrorText(errs.data[i]) \in Texts
<1>1. PICK j \in DOMAIN Toks : errs.data[i] = [l |-> Toks[j].l, r |-> Toks[j].r]
  BY DEF ErrorsInv
<1> DEFINE err == errs.data[i]
<1>2. err.l \in Nat /\ err.r \in Nat /\ err.r <= Len(src)
  BY <1>1, TokenPlaces
<1> HIDE DEF err
<1>3. src \in Seq(STRING \ {Nul})
  BY DEF LexInv, TypeInv
<1>4. Slice(src, err.l, err.r) \in Texts
  BY <1>2, <1>3, SliceText, Zenon
<1>5. ErrorText(err) \in Texts
  <2>1. Near(err) \in Texts
    BY <1>2, NearRight
  <2> DEFINE a == Near(err)
             b == <<" ", "n", "e", "a", "r", " ", "'">>
             c == Slice(src, err.l, err.r)
             d == <<"'", Newline, " ", " ">>
             f == <<Newline>>
  <2>2. a \in Texts /\ b \in Texts /\ c \in Texts /\ d \in Texts /\ Message \in Texts /\ f \in Texts
    BY <1>4, <2>1, Pieces, Zenon
  <2>3. ErrorText(err) = Joint(a, b, c, d, Message, f)
    BY ErrorTextIs, Zenon DEF Joint
  <2> HIDE DEF a, b, c, d, f
  <2> QED BY <2>2, <2>3, JointText
<1> QED BY <1>2, <1>4, <1>5 DEF err

LEMMA TokenTyped ==
    ASSUME LexInv, NEW i \in 1 .. toks.len
    PROVE  /\ Slice(src, toks.data[i].l, toks.data[i].r) \in Texts
           /\ TokenText(toks.data[i]) \in Texts
<1> DEFINE tok == toks.data[i]
<1>1. tok.l \in Nat /\ tok.r \in Nat /\ tok.r <= Len(src)
  BY ToksAre, TokenPlaces
<1> HIDE DEF tok
<1>2. src \in Seq(STRING \ {Nul})
  BY DEF LexInv, TypeInv
<1>3. Slice(src, tok.l, tok.r) \in Texts
  BY <1>1, <1>2, SliceText, Zenon
<1>4. TokenText(tok) \in Texts
  BY <1>3, Pieces, ConcatProperties DEF TokenText, Texts
<1> QED BY <1>3, <1>4 DEF tok

LEMMA ItemsTyped ==
    ASSUME LexInv, ReportInv
    PROVE  [i \in 1 .. turn |-> Item(i)] \in [1 .. turn -> Texts]
<1>1. ASSUME NEW i \in 1 .. turn PROVE Item(i) \in Texts
  <2>1. CASE use = "summary"
    <3>1. i \in 1 .. errs.len
      BY <2>1 DEF ReportInv, UseInv, ErrorsInv, VecOver
    <3> QED BY <2>1, <3>1, ErrorTyped DEF ReportInv, Item
  <2>2. CASE use = "dump"
    <3>1. i \in 1 .. toks.len
      BY <2>2, ToksAre DEF ReportInv, UseInv
    <3> QED BY <2>2, <3>1, TokenTyped DEF Item
  <2>3. CASE use = "none"
    BY <2>3 DEF ReportInv, UseInv
  <2> QED BY <2>1, <2>2, <2>3 DEF ReportInv, UseInv
<1> QED BY <1>1

\* What was to be written stays so.
LEMMA ItemStays ==
    ASSUME src' = src, errs' = errs, toks' = toks, use' = use, NEW i
    PROVE  Item(i)' = Item(i)
BY DEF Item, ErrorText, TokenText, PlaceText, LineEndsBefore

---------------------------------------------------------------------------
(* Steps.                                                                  *)

LEMMA InitReport == ReportInit => ReportInv
<1> SUFFICES ASSUME ReportInit PROVE ReportInv
  OBVIOUS
<1>1. errs = VecNew /\ out = SbNew /\ turn = 0 /\ use = "none"
  BY Zenon DEF ReportInit
<1>2. VecNew = [data |-> << >>, len |-> 0] /\ << >> \in Seq(ErrSlots) /\ Len(<< >>) = 0
  BY EmptySeq DEF VecNew
<1>3. errs.len = 0 /\ VecOver(errs, ErrSlots)
  BY <1>1, <1>2 DEF VecOver
<1>4. ErrorsInv
  BY <1>3 DEF ErrorsInv
<1>5. UseInv
  BY <1>1, <1>3 DEF UseInv
<1>6. Holds(out, Said)
  BY <1>1, NothingSaid, NewHolds, Zenon
<1> QED BY <1>4, <1>5, <1>6 DEF ReportInv

\* The tokenizer reads on before there are any errors.
LEMMA TokenizeStep == ASSUME ReportInv, Tokenize PROVE ReportInv'
<1>1. mode # "done"
  BY DEF Tokenize, Next, Turn, Inner, SkipBlank, BeginComment, BeginInt, BeginQuoted, BeginWord,
         BeginOp, Single, End, AtHead, CommentChar, CommentEnd, CommentOverrun, IntChar, IntEnd,
         WordChar, WordEnd, OpChar, OpEnd, QuotedEscape, QuotedChar, QuotedClosed, QuotedCut
<1>2. errs' = errs /\ out' = out /\ turn' = turn /\ use' = use
  BY Zenon DEF Tokenize
<1>3. errs.len = 0 /\ use = "none" /\ turn = 0
  BY <1>1 DEF ReportInv, UseInv
<1>4. ErrorsInv'
  BY <1>2, <1>3 DEF ReportInv, ErrorsInv, VecOver
<1>5. UseInv'
  BY <1>2, <1>3 DEF UseInv
<1>6. Holds(out, << >>)
  BY <1>3, NothingSaid, Zenon DEF ReportInv
<1>7. Holds(out', Said')
  BY <1>2, <1>3, <1>6, NothingSaid, Zenon
<1> QED BY <1>4, <1>5, <1>7 DEF ReportInv

\* An element that is added leaves the others where they are.
LEMMA PushPlaces ==
    ASSUME NEW S, Zero \in S, NEW vec, VecOver(vec, S), NEW e \in S
    PROVE  /\ VecPush(vec, e).len = vec.len + 1
           /\ \A i \in 1 .. vec.len : VecPush(vec, e).data[i] = vec.data[i]
           /\ VecPush(vec, e).data[vec.len + 1] = e
<1> DEFINE g == VecGrow(vec, 1).data
           data == [g EXCEPT ![vec.len + 1] = e]
<1>1. /\ vec.len \in Nat /\ g \in Seq(S) /\ vec.len + 1 <= Len(g)
      /\ \A i \in 1 .. vec.len : g[i] = vec.data[i]
  BY GrowKeeps DEF VecOver
<1>2. VecPush(vec, e).len = vec.len + 1 /\ VecPush(vec, e).data = data
  BY DEF VecPush
<1> HIDE DEF g
<1>3. (\A i \in 1 .. vec.len : data[i] = g[i]) /\ data[vec.len + 1] = e
  BY <1>1, LenProperties
<1> QED BY <1>1, <1>2, <1>3

\* An error is added at the place of a token.
LEMMA FailStep == ASSUME LexInv, ReportInv, Fail PROVE ReportInv'
<1>1. /\ src' = src /\ toks' = toks /\ mode' = mode /\ mode = "done"
      /\ out' = out /\ turn' = turn /\ use' = use /\ use = "none"
  BY Zenon DEF Fail, vars
<1>2. PICK j \in DOMAIN Toks : ErrAdd(Toks[j])
  BY Zenon DEF Fail
<1> DEFINE e == [l |-> Toks[j].l, r |-> Toks[j].r]
<1>3. e \in ErrSlots /\ Zero \in ErrSlots
  BY TokenPlaces DEF ErrSlots, Places
<1>4. errs' = VecPush(errs, e)
  BY <1>2, Zenon DEF ErrAdd
<1>5. VecOver(errs, ErrSlots) /\ errs.len \in Nat
  BY DEF ReportInv, ErrorsInv, VecOver
<1>6. e = [l |-> Toks[j].l, r |-> Toks[j].r]
  OBVIOUS
<1> HIDE DEF e
<1>7. VecOver(errs', ErrSlots)
  BY <1>3, <1>4, <1>5, PushAppends
<1>8. /\ errs'.len = errs.len + 1 /\ errs'.data[errs.len + 1] = e
      /\ \A i \in 1 .. errs.len : errs'.data[i] = errs.data[i]
  BY <1>3, <1>4, <1>5, PushPlaces
<1>9. ErrorsInv'
  <2>1. Toks' = Toks
    BY <1>1, Zenon DEF Toks
  <2>2. ASSUME NEW i \in 1 .. errs'.len
        PROVE  \E k \in DOMAIN Toks : errs'.data[i] = [l |-> Toks[k].l, r |-> Toks[k].r]
    <3>1. CASE i = errs.len + 1
      BY <1>6, <1>8, <3>1
    <3>2. CASE i # errs.len + 1
      <4>1. i \in 1 .. errs.len
        BY <1>5, <1>8, <3>2
      <4> QED BY <1>8, <4>1 DEF ReportInv, ErrorsInv
    <3> QED BY <3>1, <3>2
  <2> QED BY <1>7, <2>1, <2>2 DEF ErrorsInv
<1>10. turn = 0
  BY <1>1 DEF ReportInv, UseInv
<1>11. UseInv'
  BY <1>1, <1>10 DEF UseInv
<1>12. Holds(out', Said')
  <2>1. Holds(out, << >>)
    BY <1>10, NothingSaid, Zenon DEF ReportInv
  <2> QED BY <1>1, <1>10, <2>1, NothingSaid, Zenon
<1> QED BY <1>9, <1>11, <1>12 DEF ReportInv

LEMMA BeginStep ==
    ASSUME LexInv, ReportInv, NEW what \in {"summary", "dump"}, Begin(what)
    PROVE  ReportInv'
<1>1. /\ src' = src /\ toks' = toks /\ mode' = mode /\ mode = "done" /\ errs' = errs
      /\ out' = out /\ turn' = turn /\ use' = what /\ use = "none"
  BY Zenon DEF Begin, vars
<1>2. turn = 0 /\ toks.len \in Nat /\ errs.len \in Nat
  BY <1>1, ToksAre DEF ReportInv, UseInv, ErrorsInv, VecOver
<1>3. ErrorsInv'
  <2>1. Toks' = Toks
    BY <1>1, Zenon DEF Toks
  <2> QED BY <1>1, <2>1, Zenon DEF ReportInv, ErrorsInv
<1>4. UseInv'
  BY <1>1, <1>2 DEF UseInv
<1>5. Holds(out', Said')
  <2>1. Holds(out, << >>)
    BY <1>2, NothingSaid, Zenon DEF ReportInv
  <2> QED BY <1>1, <1>2, <2>1, NothingSaid, Zenon
<1> QED BY <1>3, <1>4, <1>5 DEF ReportInv

\* One more element is written.
LEMMA SaidAdds ==
    ASSUME LexInv, ReportInv, src' = src, errs' = errs, toks' = toks, use' = use,
           turn' = turn + 1, Item(turn + 1) \in Texts
    PROVE  Said' = Said \o Item(turn + 1) /\ Said \in Texts
<1> DEFINE f == [i \in 1 .. turn |-> Item(i)]
           e == [i \in 1 .. turn + 1 |-> Item(i)]
<1>1. turn \in Nat
  BY DEF ReportInv, UseInv
<1>2. f \in [1 .. turn -> Texts] /\ \A i \in 1 .. turn : Item(i) \in Texts
  <2>1. f \in [1 .. turn -> Texts]
    BY ItemsTyped
  <2>2. \A i \in 1 .. turn : f[i] = Item(i)
    OBVIOUS
  <2> HIDE DEF f
  <2> QED BY <2>1, <2>2
<1>3. e \in [1 .. turn + 1 -> Texts]
  BY <1>1, <1>2
<1>4. \A i \in 1 .. turn : e[i] = f[i]
  BY <1>1
<1>5. e[turn + 1] = Item(turn + 1)
  BY <1>1
<1>6. Said' = Seqs!FlattenSeq(e)
  BY ItemStays DEF Said
<1>7. Said = Seqs!FlattenSeq(f)
  BY DEF Said
<1> HIDE DEF e, f
<1>8. Seqs!FlattenSeq(e) = Seqs!FlattenSeq(f) \o e[turn + 1]
  BY <1>1, <1>2, <1>3, <1>4, FlattenAdds DEF Texts
<1>9. Seqs!FlattenSeq(f) \in Texts
  BY <1>1, <1>2, FlattenTyped DEF Texts
<1> QED BY <1>5, <1>6, <1>7, <1>8, <1>9

\* err_summary writes one more error.
LEMMA SummarizeStep == ASSUME LexInv, ReportInv, Summarize PROVE ReportInv'
<1> DEFINE err == errs.data[turn + 1]
           b == <<" ", "n", "e", "a", "r", " ", "'">>
           c == Slice(src, err.l, err.r)
           d == <<"'", Newline, " ", " ">>
           f == <<Newline>>
<1>1. /\ use = "summary" /\ turn < errs.len
      /\ src' = src /\ toks' = toks /\ mode' = mode /\ errs' = errs /\ use' = use
      /\ turn' = turn + 1
  BY Zenon DEF Summarize, vars
<1>2. turn \in Nat /\ errs.len \in Nat
  BY DEF ReportInv, UseInv, ErrorsInv, VecOver
<1>3. turn + 1 \in 1 .. errs.len
  BY <1>1, <1>2
<1>4. err.l \in Nat /\ err.r \in Nat /\ c \in Texts /\ ErrorText(err) \in Texts
  BY <1>3, ErrorTyped DEF ReportInv
<1>5. PosText(err.l) \o <<".", ".">> \o PosText(err.r) = Near(err) /\ Near(err) \in Texts
  <2> HIDE DEF err
  <2> QED BY <1>4, NearRight
<1> DEFINE a == Near(err)
           o1 == SbAppend(out, a)
           o2 == SbAppend(o1, b)
           o3 == SbAppend(o2, c)
           o4 == SbAppend(o3, d)
           o5 == SbAppend(o4, Message)
           o6 == SbAppend(o5, f)
<1>6. out' = o6
  <2>1. out' = SbAppend(SbAppend(SbAppend(SbAppend(SbAppend(
                   SbAppend(out, PosText(err.l) \o <<".", ".">> \o PosText(err.r)), b), c), d),
                   Message), f)
    BY Zenon DEF Summarize
  <2> QED BY <1>5, <2>1, Zenon
<1>7. ErrorText(err) = Joint(a, b, c, d, Message, f)
  BY ErrorTextIs, Zenon DEF Joint
<1>8. /\ a \in Texts /\ b \in Texts /\ c \in Texts /\ d \in Texts /\ Message \in Texts
      /\ f \in Texts
  BY <1>4, <1>5, Pieces, Zenon
<1>9. Item(turn + 1) = ErrorText(err)
  BY <1>1 DEF Item
<1>10. Said' = Said \o ErrorText(err) /\ Said \in Texts
  <2> HIDE DEF err
  <2> QED BY <1>1, <1>4, <1>9, SaidAdds
<1> HIDE DEF err, a, b, c, d, f
<1>11. Holds(out', Said \o a \o b \o c \o d \o Message \o f)
  <2>1. Holds(out, Said)
    BY DEF ReportInv
  <2>2. Holds(o1, Said \o a)
    BY <1>8, <2>1, AppendHolds
  <2> HIDE DEF o1
  <2>3. Holds(o2, (Said \o a) \o b)
    BY <1>8, <2>2, AppendHolds
  <2> HIDE DEF o2
  <2>4. Holds(o3, ((Said \o a) \o b) \o c)
    BY <1>8, <2>3, AppendHolds
  <2> HIDE DEF o3
  <2>5. Holds(o4, (((Said \o a) \o b) \o c) \o d)
    BY <1>8, <2>4, AppendHolds
  <2> HIDE DEF o4
  <2>6. Holds(o5, ((((Said \o a) \o b) \o c) \o d) \o Message)
    BY <1>8, <2>5, AppendHolds
  <2> HIDE DEF o5
  <2>7. Holds(o6, (((((Said \o a) \o b) \o c) \o d) \o Message) \o f)
    BY <1>8, <2>6, AppendHolds
  <2> HIDE DEF o6
  <2> QED BY <1>6, <2>7
<1>12. Adds(Said, a, b, c, d, Message, f)
  BY <1>8, <1>10, SixPieces
<1>13. Holds(out', Said')
  BY <1>7, <1>10, <1>11, <1>12, Zenon DEF Adds
<1>14. ErrorsInv'
  <2>1. Toks' = Toks
    BY <1>1, Zenon DEF Toks
  <2> QED BY <1>1, <2>1, Zenon DEF ReportInv, ErrorsInv
<1>15. UseInv'
  BY <1>1, <1>2 DEF ReportInv, UseInv
<1> QED BY <1>13, <1>14, <1>15 DEF ReportInv

\* negi_lang_tokenize_dump writes one more token.
LEMMA DumpStep == ASSUME LexInv, ReportInv, Dump PROVE ReportInv'
<1> DEFINE tok == toks.data[turn + 1]
           a == Slice(src, tok.l, tok.r)
           comma == <<",">>
           o1 == SbAppend(out, a)
           o2 == SbAppend(o1, comma)
<1>1. /\ use = "dump" /\ turn < toks.len
      /\ src' = src /\ toks' = toks /\ mode' = mode /\ errs' = errs /\ use' = use
      /\ turn' = turn + 1
  BY Zenon DEF Dump, vars
<1>2. turn \in Nat /\ toks.len \in Nat
  BY ToksAre DEF ReportInv, UseInv
<1>3. turn + 1 \in 1 .. toks.len
  BY <1>1, <1>2
<1>4. a \in Texts /\ TokenText(tok) \in Texts /\ comma \in Texts
  <2>1. a \in Texts /\ TokenText(tok) \in Texts
    BY <1>3, TokenTyped
  <2> QED BY <2>1, Pieces, Zenon
<1>5. out' = o2
  BY Zenon DEF Dump
<1>6. TokenText(tok) = a \o comma
  BY Zenon DEF TokenText
<1>7. Item(turn + 1) = TokenText(tok)
  BY <1>1 DEF Item
<1> HIDE DEF tok, a, comma
<1>8. Said' = Said \o TokenText(tok) /\ Said \in Texts
  BY <1>1, <1>4, <1>7, SaidAdds
<1>9. Holds(out', (Said \o a) \o comma)
  <2>1. Holds(out, Said)
    BY DEF ReportInv
  <2>2. Holds(o1, Said \o a)
    BY <1>4, <2>1, AppendHolds
  <2> HIDE DEF o1
  <2>3. Holds(o2, (Said \o a) \o comma)
    BY <1>4, <2>2, AppendHolds
  <2> HIDE DEF o2
  <2> QED BY <1>5, <2>3
<1>10. Moves(Said, a, comma)
  BY <1>4, <1>8, TextsMove
<1>11. Holds(out', Said')
  BY <1>6, <1>8, <1>9, <1>10, Zenon DEF Moves
<1>12. ErrorsInv'
  <2>1. Toks' = Toks
    BY <1>1, Zenon DEF Toks
  <2> QED BY <1>1, <2>1, Zenon DEF ReportInv, ErrorsInv
<1>13. UseInv'
  BY <1>1, <1>2 DEF ReportInv, UseInv
<1> QED BY <1>11, <1>12, <1>13 DEF ReportInv

LEMMA StutterStep == ASSUME ReportInv, UNCHANGED reportVars PROVE ReportInv'
<1>1. /\ src' = src /\ toks' = toks /\ mode' = mode /\ errs' = errs /\ out' = out
      /\ turn' = turn /\ use' = use
  BY Zenon DEF reportVars, vars
<1>2. Toks' = Toks
  BY <1>1, Zenon DEF Toks
<1>3. Said' = Said
  BY <1>1, ItemStays DEF Said
<1> QED BY <1>1, <1>2, <1>3 DEF ReportInv, ErrorsInv, UseInv

---------------------------------------------------------------------------
(* Theorems.                                                               *)

\* The error list and the reports leave the tokenizer alone, so that all that is proved
\* of NegiTokenize holds of NegiReport as well.
THEOREM ReportKeepsTokens == ReportSpec => Spec
<1>1. ReportInit => Init
  BY DEF ReportInit
<1>2. [ReportNext]_reportVars => [Next]_vars
  BY DEF ReportNext, reportVars, Tokenize, Fail, Begin, Summarize, Dump, vars
<1> QED BY <1>1, <1>2, PTL DEF Spec, ReportSpec

\* The inductive invariant holds, for every source and any number of errors.
THEOREM ReportInvariant == ReportSpec => []ReportInv
<1>1. LexInv /\ ReportInv /\ [ReportNext]_reportVars => ReportInv'
  <2> SUFFICES ASSUME LexInv, ReportInv, [ReportNext]_reportVars PROVE ReportInv'
    OBVIOUS
  <2>1. CASE Tokenize
    BY <2>1, TokenizeStep
  <2>2. CASE Fail
    BY <2>2, FailStep
  <2>3. CASE Begin("summary")
    BY <2>3, BeginStep
  <2>4. CASE Begin("dump")
    BY <2>4, BeginStep
  <2>5. CASE Summarize
    BY <2>5, SummarizeStep
  <2>6. CASE Dump
    BY <2>6, DumpStep
  <2>7. CASE UNCHANGED reportVars
    BY <2>7, StutterStep
  <2> QED BY <2>1, <2>2, <2>3, <2>4, <2>5, <2>6, <2>7, Zenon DEF ReportNext
<1> QED BY <1>1, InitReport, ReportKeepsTokens, LexInvariant, PTL DEF ReportSpec

\* The assertions of find_pos, vec_grow and sb_append hold whatever the source is and
\* however many errors there are: each error is at the place of a token, and the
\* vector of errors and the string builder have the room they say.
THEOREM ErrorsHaveRoom == ReportSpec => []FrontOK
<1>1. ReportInv => FrontOK
  <2> SUFFICES ASSUME ReportInv PROVE FrontOK
    OBVIOUS
  <2>1. VecOK(errs)
    <3>1. VecOver(errs, ErrSlots) /\ Zero \in ErrSlots
      BY DEF ReportInv, ErrorsInv, ErrSlots
    <3> QED BY <3>1, PushAppends
  <2>2. SbOK(out)
    BY HeldContent DEF ReportInv
  <2> QED BY <2>1, <2>2 DEF ReportInv, ErrorsInv, FrontOK
<1> QED BY <1>1, ReportInvariant, PTL

\* err_summary and negi_lang_tokenize_dump write of every source what they should: of
\* each error, in the order the errors were met, the lines and the columns of its two
\* ends as counted from the ends of lines before them, and the text between.
THEOREM ReportsAreRight == ReportSpec => []ReportRight
<1>1. ReportInv => ReportRight
  <2> SUFFICES ASSUME ReportInv PROVE ReportRight
    OBVIOUS
  <2>1. Content(out.data) = Said
    BY HeldContent DEF ReportInv
  <2> QED BY <2>1, Zenon DEF ReportRight, Said, Item
<1> QED BY <1>1, ReportInvariant, PTL
=============================================================================
