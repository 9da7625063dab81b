--------------------------- MODULE NegiGen_proofs ---------------------------
(***************************************************************************)
(* Theorems about the code generator.                                      *)
(***************************************************************************)
EXTENDS NegiGen, NegiBalance_proofs, WellFoundedInduction, SequenceTheorems

---------------------------------------------------------------------------
(* Induction.                                                              *)

LEMMA LeastNumber ==
    ASSUME NEW T, T \subseteq Nat, T # {}
    PROVE  \E m \in T : \A k \in T : m <= k
<1>1. PICK m \in T : \A k \in T : ~(<<k, m>> \in OpToRel(<, Nat))
  BY NatLessThanWellFounded, WFMin, Zenon
<1>2. ASSUME NEW k \in T PROVE m <= k
  <2>1. k \in Nat /\ m \in Nat
    OBVIOUS
  <2>2. <<k, m>> \in Nat \X Nat /\ <<k, m>>[1] = k /\ <<k, m>>[2] = m
    BY <2>1
  <2>3. k < m => <<k, m>> \in OpToRel(<, Nat)
    BY <2>2, Zenon DEF OpToRel
  <2>4. ~(k < m)
    BY <1>1, <2>3, Zenon
  <2> QED BY <2>1, <2>4
<1> QED BY <1>2

\* A set that every number is in when all smaller ones are.
LEMMA Induct ==
    ASSUME NEW T, \A n \in Nat : (\A m \in 0 .. n - 1 : m \in T) => n \in T
    PROVE  \A n \in Nat : n \in T
<1> DEFINE others == {n \in Nat : n \notin T}
<1>1. CASE others = {}
  BY <1>1
<1>2. CASE others # {}
  <2>1. PICK m \in others : \A k \in others : m <= k
    BY <1>2, LeastNumber
  <2>2. \A k \in 0 .. m - 1 : k \in T
    BY <2>1
  <2> QED BY <2>1, <2>2
<1> QED BY <1>1, <1>2

---------------------------------------------------------------------------
(* What Repeat does.                                                       *)

\* The function that it defines.
Runs(step, n, first, f) ==
    f = [i \in 0 .. n |-> IF i = 0 THEN first ELSE step[<<i, f[i - 1]>>]]

LEMMA RunStep ==
    ASSUME NEW n \in Nat, NEW step, NEW first, NEW f, Runs(step, n, first, f), NEW i \in 0 .. n
    PROVE  /\ i = 0 => f[i] = first
           /\ i # 0 => f[i] = step[<<i, f[i - 1]>>]
<1> DEFINE body == [j \in 0 .. n |-> IF j = 0 THEN first ELSE step[<<j, f[j - 1]>>]]
<1>1. body[i] = IF i = 0 THEN first ELSE step[<<i, f[i - 1]>>]
  OBVIOUS
<1>2. f = body
  BY DEF Runs
<1> HIDE DEF body
<1> QED BY <1>1, <1>2

LEMMA RunFirst ==
    ASSUME NEW n \in Nat, NEW step, NEW first, NEW f, Runs(step, n, first, f)
    PROVE  f[0] = first
<1> DEFINE body == [j \in 0 .. n |-> IF j = 0 THEN first ELSE step[<<j, f[j - 1]>>]]
<1>1. body[0] = first
  OBVIOUS
<1>2. f = body
  BY DEF Runs
<1> HIDE DEF body
<1> QED BY <1>1, <1>2

LEMMA RunExists ==
    ASSUME NEW n \in Nat, NEW step, NEW first
    PROVE  \E f : Runs(step, n, first, f)
<1> DEFINE T == {m \in Nat : \E f : Runs(step, m, first, f)}
<1>1. ASSUME NEW m \in Nat, \A k \in 0 .. m - 1 : k \in T PROVE m \in T
  <2>1. CASE m = 0
    <3> DEFINE f == [i \in 0 .. 0 |-> first]
    <3>1. f = [i \in 0 .. 0 |-> IF i = 0 THEN first ELSE step[<<i, f[i - 1]>>]]
      OBVIOUS
    <3>2. Runs(step, 0, first, f)
      <4> HIDE DEF f
      <4> QED BY <3>1 DEF Runs
    <3> QED BY <2>1, <3>2
  <2>2. CASE m # 0
    <3>1. m - 1 \in 0 .. m - 1 /\ m - 1 \in Nat
      BY <2>2
    <3>2. PICK f : Runs(step, m - 1, first, f)
      BY <1>1, <3>1
    <3> DEFINE h == [i \in 0 .. m |-> IF i = 0 THEN first ELSE step[<<i, f[i - 1]>>]]
    <3>3. ASSUME NEW i \in 0 .. m - 1 PROVE h[i] = f[i]
      <4>1. /\ i = 0 => f[i] = first
            /\ i # 0 => f[i] = step[<<i, f[i - 1]>>]
        BY <3>1, <3>2, RunStep
      <4>2. i \in 0 .. m
        OBVIOUS
      <4> QED BY <4>1, <4>2
    <3>4. h = [i \in 0 .. m |-> IF i = 0 THEN first ELSE step[<<i, h[i - 1]>>]]
      <4>1. \A i \in 0 .. m : i = 0 \/ h[i - 1] = f[i - 1]
        <5> HIDE DEF h
        <5> QED BY <3>3
      <4> QED BY <4>1
    <3>5. Runs(step, m, first, h)
      <4> HIDE DEF h
      <4> QED BY <3>4 DEF Runs
    <3> QED BY <3>5
  <2> QED BY <2>1, <2>2
<1>2. n \in T
  <2> HIDE DEF T
  <2> QED BY <1>1, Induct
<1> QED BY <1>2

\* What holds at first and is kept by each turn holds in the end.
LEMMA RepeatHolds ==
    ASSUME NEW n \in Nat, NEW step, NEW first, NEW S,
           first \in S[0],
           \A i \in 1 .. n : \A x \in S[i - 1] : step[<<i, x>>] \in S[i]
    PROVE  Repeat(step, n, first) \in S[n]
<1> DEFINE f == CHOOSE g : Runs(step, n, first, g)
<1>1. Runs(step, n, first, f)
  BY RunExists
<1>2. Repeat(step, n, first) = f[n]
  BY DEF Repeat, Runs
<1> HIDE DEF f
<1>3. \A i \in 0 .. n : i # 0 => f[i] = step[<<i, f[i - 1]>>]
  BY <1>1, RunStep
<1>4. f[0] = first
  BY <1>1, RunFirst
<1> DEFINE T == {m \in Nat : m <= n => f[m] \in S[m]}
<1>5. ASSUME NEW m \in Nat, \A k \in 0 .. m - 1 : k \in T PROVE m \in T
  <2>1. CASE m = 0
    BY <1>4, <2>1
  <2>2. CASE m # 0 /\ m <= n
    <3>1. m - 1 \in 0 .. m - 1 /\ m - 1 <= n /\ m \in 1 .. n /\ m \in 0 .. n
      BY <2>2
    <3>2. f[m - 1] \in S[m - 1]
      BY <1>5, <3>1
    <3>3. f[m] = step[<<m, f[m - 1]>>]
      BY <1>3, <2>2, <3>1
    <3> QED BY <3>1, <3>2, <3>3
  <2> QED BY <2>1, <2>2
<1>6. n \in T
  <2> HIDE DEF T
  <2> QED BY <1>5, Induct
<1> QED BY <1>2, <1>6

---------------------------------------------------------------------------
(* Trees and Gen are functions, which satisfy their equations.             *)

Grows(n, f) == f = [i \in 0 .. n |-> Level(IF i = 0 THEN NoTrees ELSE f[i - 1])]

LEMMA GrowsStep ==
    ASSUME NEW n \in Nat, NEW f, Grows(n, f), NEW i \in 0 .. n
    PROVE  /\ i = 0 => f[i] = Level(NoTrees)
           /\ i # 0 => f[i] = Level(f[i - 1])
<1> DEFINE body == [i_1 \in 0 .. n |-> Level(IF i_1 = 0 THEN NoTrees ELSE f[i_1 - 1])]
<1>1. body[i] = Level(IF i = 0 THEN NoTrees ELSE f[i - 1])
  OBVIOUS
<1>2. f = body
  BY DEF Grows
<1> HIDE DEF body
<1> QED BY <1>1, <1>2

LEMMA GrowsSame ==
    ASSUME NEW n \in Nat, NEW m \in Nat, NEW f, NEW h, Grows(n, f), Grows(m, h)
    PROVE  \A i \in Nat : i <= n /\ i <= m => f[i] = h[i]
<1> DEFINE T == {i \in Nat : i <= n /\ i <= m => f[i] = h[i]}
<1>1. ASSUME NEW i \in Nat, \A k \in 0 .. i - 1 : k \in T PROVE i \in T
  <2> SUFFICES ASSUME i <= n, i <= m PROVE f[i] = h[i]
    OBVIOUS
  <2>1. i \in 0 .. n /\ i \in 0 .. m
    OBVIOUS
  <2>2. CASE i = 0
    BY <2>1, <2>2, GrowsStep
  <2>3. CASE i # 0
    <3>1. i - 1 \in 0 .. i - 1 /\ i - 1 <= n /\ i - 1 <= m
      BY <2>3
    <3>2. f[i - 1] = h[i - 1]
      BY <1>1, <3>1
    <3>3. f[i] = Level(f[i - 1])
      BY <2>1, <2>3, GrowsStep
    <3>4. h[i] = Level(h[i - 1])
      BY <2>1, <2>3, GrowsStep
    <3> QED BY <3>2, <3>3, <3>4
  <2> QED BY <2>2, <2>3
<1>2. \A i \in Nat : i \in T
  <2> HIDE DEF T
  <2> QED BY <1>1, Induct
<1> QED BY <1>2

LEMMA GrowsExists == ASSUME NEW n \in Nat PROVE \E f : Grows(n, f)
<1> DEFINE T == {m \in Nat : \E f : Grows(m, f)}
<1>1. ASSUME NEW m \in Nat, \A k \in 0 .. m - 1 : k \in T PROVE m \in T
  <2>1. CASE m = 0
    <3> DEFINE f == [i \in 0 .. 0 |-> Level(NoTrees)]
    <3>1. f = [i \in 0 .. 0 |-> Level(IF i = 0 THEN NoTrees ELSE f[i - 1])]
      OBVIOUS
    <3>2. Grows(0, f)
      <4> HIDE DEF f
      <4> QED BY <3>1 DEF Grows
    <3> QED BY <2>1, <3>2
  <2>2. CASE m # 0
    <3>1. m - 1 \in 0 .. m - 1 /\ m - 1 \in Nat
      BY <2>2
    <3>2. PICK f : Grows(m - 1, f)
      BY <1>1, <3>1
    <3> DEFINE h == [i \in 0 .. m |-> Level(IF i = 0 THEN NoTrees ELSE f[i - 1])]
    <3>3. ASSUME NEW i \in 0 .. m - 1 PROVE h[i] = f[i]
      <4>1. /\ i = 0 => f[i] = Level(NoTrees)
            /\ i # 0 => f[i] = Level(f[i - 1])
        BY <3>1, <3>2, GrowsStep
      <4>2. i \in 0 .. m
        OBVIOUS
      <4> QED BY <4>1, <4>2
    <3>4. h = [i \in 0 .. m |-> Level(IF i = 0 THEN NoTrees ELSE h[i - 1])]
      <4>1. \A i \in 0 .. m : i = 0 \/ h[i - 1] = f[i - 1]
        <5> HIDE DEF h
        <5> QED BY <3>3
      <4> QED BY <4>1
    <3>5. Grows(m, h)
      <4> HIDE DEF h
      <4> QED BY <3>4 DEF Grows
    <3> QED BY <3>5
  <2> QED BY <2>1, <2>2
<1>2. n \in T
  <2> HIDE DEF T
  <2> QED BY <1>1, Induct
<1> QED BY <1>2

LEMMA TreesDef == Trees = [i \in Nat |-> Level(IF i = 0 THEN NoTrees ELSE Trees[i - 1])]
<1> DEFINE upTo(n) == CHOOSE f : Grows(n, f)
           f == [i \in Nat |-> upTo(i)[i]]
<1>1. ASSUME NEW n \in Nat PROVE Grows(n, upTo(n))
  BY GrowsExists
<1>2. ASSUME NEW i \in Nat PROVE f[i] = Level(IF i = 0 THEN NoTrees ELSE f[i - 1])
  <2>1. f[i] = upTo(i)[i] /\ i \in 0 .. i
    OBVIOUS
  <2>2. CASE i = 0
    <3>1. upTo(i)[i] = Level(NoTrees)
      <4> HIDE DEF upTo
      <4> QED BY <1>1, <2>1, <2>2, GrowsStep
    <3> QED BY <2>1, <2>2, <3>1
  <2>3. CASE i # 0
    <3>1. i - 1 \in Nat /\ i - 1 <= i
      BY <2>3
    <3>2. f[i - 1] = upTo(i - 1)[i - 1]
      BY <3>1
    <3> HIDE DEF f, upTo
    <3>3. Grows(i, upTo(i)) /\ Grows(i - 1, upTo(i - 1))
      BY <1>1, <3>1
    <3>4. upTo(i - 1)[i - 1] = upTo(i)[i - 1]
      BY <3>1, <3>3, GrowsSame
    <3>5. upTo(i)[i] = Level(upTo(i)[i - 1])
      BY <2>1, <2>3, <3>3, GrowsStep
    <3> QED BY <2>1, <2>3, <3>2, <3>4, <3>5
  <2> QED BY <2>2, <2>3
<1>3. f = [i \in Nat |-> f[i]]
  OBVIOUS
<1> HIDE DEF f
<1>4. f = [i \in Nat |-> Level(IF i = 0 THEN NoTrees ELSE f[i - 1])]
  BY <1>2, <1>3
<1>5. \E g : g = [i \in Nat |-> Level(IF i = 0 THEN NoTrees ELSE g[i - 1])]
  BY <1>4
<1> QED BY <1>5 DEF Trees

Generates(n, f) == f = [i \in 0 .. n |-> GenTrees(i, IF i = 0 THEN << >> ELSE f[i - 1])]

LEMMA GeneratesStep ==
    ASSUME NEW n \in Nat, NEW f, Generates(n, f), NEW i \in 0 .. n
    PROVE  /\ i = 0 => f[i] = GenTrees(i, << >>)
           /\ i # 0 => f[i] = GenTrees(i, f[i - 1])
<1> DEFINE body == [i_1 \in 0 .. n |-> GenTrees(i_1, IF i_1 = 0 THEN << >> ELSE f[i_1 - 1])]
<1>1. body[i] = GenTrees(i, IF i = 0 THEN << >> ELSE f[i - 1])
  OBVIOUS
<1>2. f = body
  BY DEF Generates
<1> HIDE DEF body
<1> QED BY <1>1, <1>2

LEMMA GeneratesSame ==
    ASSUME NEW n \in Nat, NEW m \in Nat, NEW f, NEW h, Generates(n, f), Generates(m, h)
    PROVE  \A i \in Nat : i <= n /\ i <= m => f[i] = h[i]
<1> DEFINE T == {i \in Nat : i <= n /\ i <= m => f[i] = h[i]}
<1>1. ASSUME NEW i \in Nat, \A k \in 0 .. i - 1 : k \in T PROVE i \in T
  <2> SUFFICES ASSUME i <= n, i <= m PROVE f[i] = h[i]
    OBVIOUS
  <2>1. i \in 0 .. n /\ i \in 0 .. m
    OBVIOUS
  <2>2. CASE i = 0
    BY <2>1, <2>2, GeneratesStep
  <2>3. CASE i # 0
    <3>1. i - 1 \in 0 .. i - 1 /\ i - 1 <= n /\ i - 1 <= m
      BY <2>3
    <3>2. f[i - 1] = h[i - 1]
      BY <1>1, <3>1
    <3>3. f[i] = GenTrees(i, f[i - 1])
      BY <2>1, <2>3, GeneratesStep
    <3>4. h[i] = GenTrees(i, h[i - 1])
      BY <2>1, <2>3, GeneratesStep
    <3> QED BY <3>2, <3>3, <3>4
  <2> QED BY <2>2, <2>3
<1>2. \A i \in Nat : i \in T
  <2> HIDE DEF T
  <2> QED BY <1>1, Induct
<1> QED BY <1>2

LEMMA GeneratesExists == ASSUME NEW n \in Nat PROVE \E f : Generates(n, f)
<1> DEFINE T == {m \in Nat : \E f : Generates(m, f)}
<1>1. ASSUME NEW m \in Nat, \A k \in 0 .. m - 1 : k \in T PROVE m \in T
  <2>1. CASE m = 0
    <3> DEFINE f == [i \in 0 .. 0 |-> GenTrees(i, << >>)]
    <3>1. f = [i \in 0 .. 0 |-> GenTrees(i, IF i = 0 THEN << >> ELSE f[i - 1])]
      OBVIOUS
    <3>2. Generates(0, f)
      <4> HIDE DEF f
      <4> QED BY <3>1 DEF Generates
    <3> QED BY <2>1, <3>2
  <2>2. CASE m # 0
    <3>1. m - 1 \in 0 .. m - 1 /\ m - 1 \in Nat
      BY <2>2
    <3>2. PICK f : Generates(m - 1, f)
      BY <1>1, <3>1
    <3> DEFINE h == [i \in 0 .. m |-> GenTrees(i, IF i = 0 THEN << >> ELSE f[i - 1])]
    <3>3. ASSUME NEW i \in 0 .. m - 1 PROVE h[i] = f[i]
      <4>1. /\ i = 0 => f[i] = GenTrees(i, << >>)
            /\ i # 0 => f[i] = GenTrees(i, f[i - 1])
        BY <3>1, <3>2, GeneratesStep
      <4>2. i \in 0 .. m
        OBVIOUS
      <4> QED BY <4>1, <4>2
    <3>4. h = [i \in 0 .. m |-> GenTrees(i, IF i = 0 THEN << >> ELSE h[i - 1])]
      <4>1. \A i \in 0 .. m : i = 0 \/ h[i - 1] = f[i - 1]
        <5> HIDE DEF h
        <5> QED BY <3>3
      <4> QED BY <4>1
    <3>5. Generates(m, h)
      <4> HIDE DEF h
      <4> QED BY <3>4 DEF Generates
    <3> QED BY <3>5
  <2> QED BY <2>1, <2>2
<1>2. n \in T
  <2> HIDE DEF T
  <2> QED BY <1>1, Induct
<1> QED BY <1>2

LEMMA GenDef == Gen = [i \in Nat |-> GenTrees(i, IF i = 0 THEN << >> ELSE Gen[i - 1])]
<1> DEFINE upTo(n) == CHOOSE f : Generates(n, f)
           f == [i \in Nat |-> upTo(i)[i]]
<1>1. ASSUME NEW n \in Nat PROVE Generates(n, upTo(n))
  BY GeneratesExists
<1>2. ASSUME NEW i \in Nat PROVE f[i] = GenTrees(i, IF i = 0 THEN << >> ELSE f[i - 1])
  <2>1. f[i] = upTo(i)[i] /\ i \in 0 .. i
    OBVIOUS
  <2>2. CASE i = 0
    <3>1. upTo(i)[i] = GenTrees(i, << >>)
      <4> HIDE DEF upTo
      <4> QED BY <1>1, <2>1, <2>2, GeneratesStep
    <3> QED BY <2>1, <2>2, <3>1
  <2>3. CASE i # 0
    <3>1. i - 1 \in Nat /\ i - 1 <= i
      BY <2>3
    <3>2. f[i - 1] = upTo(i - 1)[i - 1]
      BY <3>1
    <3> HIDE DEF f, upTo
    <3>3. Generates(i, upTo(i)) /\ Generates(i - 1, upTo(i - 1))
      BY <1>1, <3>1
    <3>4. upTo(i - 1)[i - 1] = upTo(i)[i - 1]
      BY <3>1, <3>3, GeneratesSame
    <3>5. upTo(i)[i] = GenTrees(i, upTo(i)[i - 1])
      BY <2>1, <2>3, <3>3, GeneratesStep
    <3> QED BY <2>1, <2>3, <3>2, <3>4, <3>5
  <2> QED BY <2>2, <2>3
<1>3. f = [i \in Nat |-> f[i]]
  OBVIOUS
<1> HIDE DEF f
<1>4. f = [i \in Nat |-> GenTrees(i, IF i = 0 THEN << >> ELSE f[i - 1])]
  BY <1>2, <1>3
<1>5. \E g : g = [i \in Nat |-> GenTrees(i, IF i = 0 THEN << >> ELSE g[i - 1])]
  BY <1>4
<1> QED BY <1>5 DEF Gen

---------------------------------------------------------------------------
(* The trees of each depth.                                                *)

Below(n) == IF n = 0 THEN NoTrees ELSE Trees[n - 1]

LEMMA TreesAt ==
    ASSUME NEW n \in Nat, NEW c \in Surroundings
    PROVE  Trees[n][c] = Nodes(Below(n), c)
<1>1. Trees[n] = Level(Below(n))
  <2> DEFINE f == Trees
  <2>1. f = [i \in Nat |-> Level(IF i = 0 THEN NoTrees ELSE f[i - 1])]
    BY TreesDef
  <2> HIDE DEF f
  <2>2. f[n] = Level(IF n = 0 THEN NoTrees ELSE f[n - 1])
    BY <2>1
  <2> QED BY <2>2 DEF Below, f
<1> QED BY <1>1 DEF Level, Surroundings

\* What stands nowhere in particular may stand anywhere.
Wider(T) == \A c \in Surroundings : T[c] \subseteq T["free"]

LEMMA SeqWider ==
    ASSUME NEW S, NEW T, S \subseteq T
    PROVE  Seq(S) \subseteq Seq(T)
OBVIOUS

LEMMA NodesGrow ==
    ASSUME NEW S, NEW T, NEW c, NEW d,
           S[c] \subseteq T[d], S[AsOperand[c]] \subseteq T[AsOperand[d]],
           S[AsBody[c]] \subseteq T[AsBody[d]], S[AsLoop[c]] \subseteq T[AsLoop[d]],
           c \in BreakContexts => d \in BreakContexts,
           c \in ReturnContexts => d \in ReturnContexts
    PROVE  Nodes(S, c) \subseteq Nodes(T, d)
BY SeqWider DEF Nodes

LEMMA Around ==
    /\ \A c \in Surroundings : /\ AsOperand[c] \in Surroundings
                               /\ AsBody[c] \in Surroundings
                               /\ AsLoop[c] \in Surroundings
    /\ AsOperand["free"] = "free" /\ AsBody["free"] = "free" /\ AsLoop["free"] = "free"
    /\ "free" \in Surroundings /\ "free" \in BreakContexts /\ "free" \in ReturnContexts
BY DEF Surroundings, AsOperand, AsBody, AsLoop, BreakContexts, ReturnContexts

LEMMA BelowAt ==
    ASSUME NEW n \in Nat, NEW c \in Surroundings
    PROVE  /\ n = 0 => Below(n)[c] = {}
           /\ n # 0 => n - 1 \in Nat /\ Below(n) = Trees[n - 1]
                       /\ Below(n)[c] = Nodes(Below(n - 1), c)
<1>1. n = 0 => Below(n)[c] = {}
  BY DEF Below, NoTrees
<1>2. ASSUME n # 0
      PROVE  n - 1 \in Nat /\ Below(n) = Trees[n - 1] /\ Below(n)[c] = Nodes(Below(n - 1), c)
  <2>1. n - 1 \in Nat
    BY <1>2
  <2>2. Trees[n - 1][c] = Nodes(Below(n - 1), c)
    BY <2>1, TreesAt, Zenon
  <2>3. Below(n) = Trees[n - 1]
    BY <1>2 DEF Below
  <2> QED BY <2>1, <2>2, <2>3
<1> QED BY <1>1, <1>2

LEMMA TreesWider == \A n \in Nat : Wider(Below(n))
<1> DEFINE T == {n \in Nat : Wider(Below(n))}
<1>1. ASSUME NEW n \in Nat, \A m \in 0 .. n - 1 : m \in T PROVE n \in T
  <2>1. ASSUME NEW c \in Surroundings PROVE Below(n)[c] \subseteq Below(n)["free"]
    <3>1. CASE n = 0
      BY <3>1, BelowAt
    <3>2. CASE n # 0
      <4>1. n - 1 \in 0 .. n - 1
        BY <3>2
      <4>2. Wider(Below(n - 1))
        BY <1>1, <4>1
      <4>3. Nodes(Below(n - 1), c) \subseteq Nodes(Below(n - 1), "free")
        <5> DEFINE S == Below(n - 1)
        <5>1. \A d \in Surroundings : S[d] \subseteq S["free"]
          BY <4>2 DEF Wider
        <5> HIDE DEF S
        <5>2. /\ S[c] \subseteq S["free"] /\ S[AsOperand[c]] \subseteq S[AsOperand["free"]]
              /\ S[AsBody[c]] \subseteq S[AsBody["free"]]
              /\ S[AsLoop[c]] \subseteq S[AsLoop["free"]]
          BY <5>1, Around
        <5>3. Nodes(S, c) \subseteq Nodes(S, "free")
          BY <5>2, Around, NodesGrow
        <5> QED BY <5>3 DEF S
      <4> QED BY <3>2, <4>3, BelowAt, Around
    <3> QED BY <3>1, <3>2
  <2> QED BY <2>1 DEF Wider
<1>2. \A n \in Nat : n \in T
  <2> HIDE DEF T
  <2> QED BY <1>1, Induct
<1> QED BY <1>2

\* A tree is one of each greater depth too.
Layered(T) == \A c \in Surroundings : T[c] \subseteq Nodes(T, c)

LEMMA TreesGrown == \A n \in Nat : Layered(Below(n))
<1> DEFINE T == {n \in Nat : Layered(Below(n))}
<1>1. ASSUME NEW n \in Nat, \A m \in 0 .. n - 1 : m \in T PROVE n \in T
  <2>1. ASSUME NEW c \in Surroundings PROVE Below(n)[c] \subseteq Nodes(Below(n), c)
    <3>1. CASE n = 0
      BY <3>1, BelowAt
    <3>2. CASE n # 0
      <4>1. n - 1 \in 0 .. n - 1
        BY <3>2
      <4>2. \A d \in Surroundings : Below(n - 1)[d] \subseteq Nodes(Below(n - 1), d)
        BY <1>1, <4>1 DEF Layered
      <4>3. \A d \in Surroundings : Below(n)[d] = Nodes(Below(n - 1), d)
        BY <3>2, BelowAt
      <4>4. \A d \in Surroundings : Below(n - 1)[d] \subseteq Below(n)[d]
        BY <4>2, <4>3
      <4>5. Nodes(Below(n - 1), c) \subseteq Nodes(Below(n), c)
        <5> DEFINE S == Below(n - 1)
                   Recs == Below(n)
        <5>1. \A d \in Surroundings : S[d] \subseteq Recs[d]
          BY <4>4
        <5> HIDE DEF S, Recs
        <5>2. /\ S[c] \subseteq Recs[c] /\ S[AsOperand[c]] \subseteq Recs[AsOperand[c]]
              /\ S[AsBody[c]] \subseteq Recs[AsBody[c]] /\ S[AsLoop[c]] \subseteq Recs[AsLoop[c]]
          BY <5>1, Around
        <5>3. Nodes(S, c) \subseteq Nodes(Recs, c)
          BY <5>2, NodesGrow
        <5> QED BY <5>3 DEF S, Recs
      <4> QED BY <4>3, <4>5
    <3> QED BY <3>1, <3>2
  <2> QED BY <2>1 DEF Layered
<1>2. \A n \in Nat : n \in T
  <2> HIDE DEF T
  <2> QED BY <1>1, Induct
<1> QED BY <1>2

\* What gen makes of a tree is what it makes of its node, with gen on its parts.
LEMMA GenAt ==
    ASSUME NEW n \in Nat, NEW g \in Generators, NEW e \in Trees[n]["free"]
    PROVE  Gen[n][<<g, e>>] = GenNode(IF n = 0 THEN << >> ELSE Gen[n - 1], g, e)
<1> DEFINE gen == IF n = 0 THEN << >> ELSE Gen[n - 1]
<1>1. Gen[n] = GenTrees(n, gen)
  <2> DEFINE f == Gen
  <2>1. f = [i \in Nat |-> GenTrees(i, IF i = 0 THEN << >> ELSE f[i - 1])]
    BY GenDef
  <2> HIDE DEF f
  <2>2. f[n] = GenTrees(n, IF n = 0 THEN << >> ELSE f[n - 1])
    BY <2>1
  <2> QED BY <2>2 DEF f
<1>2. <<g, e>> \in Generators \X Trees[n].free /\ <<g, e>>[1] = g /\ <<g, e>>[2] = e
  OBVIOUS
<1> HIDE DEF gen
<1>3. GenTrees(n, gen)[<<g, e>>] = GenNode(gen, <<g, e>>[1], <<g, e>>[2])
  BY <1>2, Zenon DEF GenTrees
<1>4. Gen[n][<<g, e>>] = GenNode(gen, g, e)
  BY <1>1, <1>2, <1>3
<1> QED BY <1>4 DEF gen

---------------------------------------------------------------------------
(* What the commands made so far keep to.                                  *)

\* What is known before a command: how much is on the stack, and the label of the
\* function the command is in.
Spot == [height : Nat, fun : Nat, zero : BOOLEAN]
On(height, fun) == [height |-> height, fun |-> fun, zero |-> FALSE]

IsLabel(cmd, x) == cmd.kind = "label" /\ cmd.x = x
IsJump(cmd, x) == cmd.kind = "jump_unless" /\ cmd.x = x

Labelled(g, x) == {i \in DOMAIN g.cmds : IsLabel(g.cmds[i], x)}

\* The operand of a command is there.
Known(g, cmd) ==
    /\ cmd.kind \in DOMAIN Pushes \ {"exit"}
    /\ cmd.kind \in {"label", "jump_unless"} => cmd.x \in 1 .. g.labels
    /\ cmd.kind = "push_closure" => cmd.x \in DOMAIN g.funs
    /\ cmd.kind \in {"push_env", "local_var", "call"} => cmd.x \in Nat
    /\ cmd.kind = "push_extern" => cmd.x \in DOMAIN Externs

\* A command can stand there, when each label stands where it should.
Suits(labels, q, cmd) ==
    /\ PopsOf(cmd) <= q.height
    /\ cmd.kind = "return" => q.height = 1
    /\ cmd.kind = "jump_unless" => labels[cmd.x] = On(q.height - 1, q.fun)
    /\ cmd.kind = "label" => q = labels[cmd.x]

\* What is known after it.
Leads(q, cmd, r) ==
    \/ Leaves(q, cmd)
    \/ /\ r.height = q.height - PopsOf(cmd) + Pushes[cmd.kind]
       /\ r.fun = q.fun
       /\ r.zero => cmd.kind = "push_int" /\ cmd.x = 0

\* Nothing leads between a label and a jump back to it but what follows the label.
NoWayIn(cmds, q, t, k) ==
    /\ cmds[k].x # q.fun
    /\ \A j \in DOMAIN cmds : IsJump(cmds[j], cmds[k].x) => t <= j

Closed(cmds, places) ==
    \A i, t, k \in DOMAIN cmds :
        /\ t < k /\ k <= i /\ cmds[k].kind = "label"
        /\ cmds[i].kind = "jump_unless" /\ IsLabel(cmds[t], cmds[i].x)
        => NoWayIn(cmds, places[t], t, k)

\* bal says whether the stack is looked at too.
Laid(bal, g, labels, places) ==
    /\ places \in Seq(Spot) /\ Len(places) = Len(g.cmds) + 1
    /\ \A i \in DOMAIN g.cmds : Known(g, g.cmds[i])
    /\ bal => /\ \A i \in DOMAIN g.cmds : /\ Suits(labels, places[i], g.cmds[i])
                                          /\ Leads(places[i], g.cmds[i], places[i + 1])
              /\ Closed(g.cmds, places)

Sound(bal, g, labels, q) ==
    /\ g \in Generators /\ g.scope \in DOMAIN g.scopes
    /\ labels \in Seq(Spot) /\ Len(labels) = g.labels
    /\ \A x \in DOMAIN labels : labels[x].zero = FALSE
    /\ \A k \in DOMAIN g.loops : g.loops[k] \in 1 .. g.labels
    /\ \A f \in DOMAIN g.funs :
           LET fun == g.funs[f]
           IN /\ fun.scope \in DOMAIN g.scopes /\ fun.label \in 2 .. g.labels
              /\ bal => labels[fun.label] = On(0, fun.label)
    /\ q \in Spot /\ q.fun \in 1 .. g.labels
    /\ \E places : Laid(bal, g, labels, places) /\ places[Len(places)] = q

\* The commands that are not operators.
Kinds == DOMAIN Pushes \ {"op"}

LEMMA CmdIs ==
    ASSUME NEW kind \in Kinds, NEW x \in Int
    PROVE  Cmd(kind, x) \in Command /\ Cmd(kind, x).kind = kind /\ Cmd(kind, x).x = x
BY DEF Cmd, Command, Kinds, Pushes

LEMMA OpIs ==
    ASSUME NEW op \in Ops \cup {"array_push", "index_ref"}
    PROVE  Op(op) \in Command /\ Op(op).kind = "op" /\ Op(op).x = op
BY DEF Op, Cmd, Command

LEMMA EmitFields ==
    ASSUME NEW g \in Generators, NEW cmd \in Command
    PROVE  LET h == Emit(g, <<cmd>>)
           IN /\ h \in Generators
              /\ h.cmds = Append(g.cmds, cmd)
              /\ h.labels = g.labels /\ h.locals = g.locals /\ h.loops = g.loops
              /\ h.funs = g.funs /\ h.scopes = g.scopes /\ h.scope = g.scope
              /\ h.data = g.data /\ h.ok = g.ok
<1>1. g.cmds \o <<cmd>> = Append(g.cmds, cmd) /\ Append(g.cmds, cmd) \in Seq(Command)
  BY DEF Generators
<1>2. Emit(g, <<cmd>>) = [g EXCEPT !.cmds = Append(g.cmds, cmd)]
  BY <1>1 DEF Emit, Generators
<1> QED BY <1>1, <1>2 DEF Generators

LEMMA NewLabelsFields ==
    ASSUME NEW g \in Generators
    PROVE  LET h == NewLabels(g)
           IN /\ h \in Generators /\ h.labels = g.labels + 2
              /\ h.cmds = g.cmds /\ h.locals = g.locals /\ h.loops = g.loops
              /\ h.funs = g.funs /\ h.scopes = g.scopes /\ h.scope = g.scope
              /\ h.data = g.data /\ h.ok = g.ok
<1>1. g.labels + 2 \in Nat
  BY DEF Generators
<1>2. NewLabels(g) = [g EXCEPT !.labels = g.labels + 2]
  BY DEF NewLabels, Generators
<1> QED BY <1>1, <1>2 DEF Generators

LEMMA EmitLaid ==
    ASSUME NEW g \in Generators, NEW cmd \in Command, NEW bal \in BOOLEAN,
           NEW labels, NEW places, NEW q \in Spot,
           Laid(bal, g, labels, places), Known(g, cmd),
           bal => Suits(labels, places[Len(places)], cmd) /\ Leads(places[Len(places)], cmd, q),
           bal /\ cmd.kind = "jump_unless" =>
               \A t, k \in DOMAIN g.cmds :
                   t < k /\ g.cmds[k].kind = "label" /\ IsLabel(g.cmds[t], cmd.x)
                   => NoWayIn(g.cmds, places[t], t, k)
    PROVE  Laid(bal, Emit(g, <<cmd>>), labels, Append(places, q))
<1> DEFINE h == Emit(g, <<cmd>>)
           n == Len(g.cmds)
           after == Append(places, q)
<1>1. h.cmds = Append(g.cmds, cmd) /\ h.labels = g.labels /\ h.funs = g.funs
  BY EmitFields
<1>2. g.cmds \in Seq(Command) /\ n \in Nat /\ DOMAIN g.cmds = 1 .. n
  BY DEF Generators
<1>3. places \in Seq(Spot) /\ Len(places) = n + 1
  BY DEF Laid
<1>4. /\ Len(h.cmds) = n + 1 /\ DOMAIN h.cmds = 1 .. n + 1 /\ h.cmds[n + 1] = cmd
      /\ \A i \in 1 .. n : h.cmds[i] = g.cmds[i]
  BY <1>1, <1>2
<1>5. /\ after \in Seq(Spot) /\ Len(after) = n + 2 /\ after[n + 2] = q
      /\ \A i \in 1 .. n + 1 : after[i] = places[i]
  BY <1>2, <1>3
<1> HIDE DEF h, after, n
<1>6. ASSUME NEW i \in DOMAIN h.cmds PROVE Known(h, h.cmds[i])
  <2>1. CASE i \in 1 .. n
    BY <2>1, <1>1, <1>2, <1>4 DEF Known, Laid
  <2>2. CASE i = n + 1
    BY <2>2, <1>1, <1>4 DEF Known
  <2> QED BY <2>1, <2>2, <1>2, <1>4
<1>7. ASSUME bal, NEW i \in DOMAIN h.cmds
      PROVE  /\ Suits(labels, after[i], h.cmds[i])
             /\ Leads(after[i], h.cmds[i], after[i + 1])
  <2>1. CASE i \in 1 .. n
    <3>1. i \in DOMAIN g.cmds /\ i + 1 \in 1 .. n + 1 /\ i \in 1 .. n + 1
      BY <2>1, <1>2
    <3>2. /\ Suits(labels, places[i], g.cmds[i])
          /\ Leads(places[i], g.cmds[i], places[i + 1])
      BY <3>1, <1>7 DEF Laid
    <3>3. after[i] = places[i] /\ after[i + 1] = places[i + 1] /\ h.cmds[i] = g.cmds[i]
      BY <3>1, <2>1, <1>4, <1>5
    <3> QED BY <3>2, <3>3
  <2>2. CASE i = n + 1
    <3>1. after[i] = places[n + 1] /\ after[i + 1] = q /\ h.cmds[i] = cmd
      BY <2>2, <1>2, <1>4, <1>5
    <3> QED BY <3>1, <1>3, <1>7
  <2> QED BY <2>1, <2>2, <1>2, <1>4
<1>8. ASSUME bal PROVE Closed(h.cmds, after)
  <2>1. SUFFICES ASSUME NEW i \in DOMAIN h.cmds, NEW t \in DOMAIN h.cmds,
                        NEW k \in DOMAIN h.cmds,
                        t < k, k <= i, h.cmds[k].kind = "label",
                        h.cmds[i].kind = "jump_unless", IsLabel(h.cmds[t], h.cmds[i].x)
                 PROVE  NoWayIn(h.cmds, after[t], t, k)
    BY DEF Closed
  <2>2. k # i
    BY <2>1
  <2>3. k \in 1 .. n /\ t \in 1 .. n /\ t \in 1 .. n + 1
    BY <1>2, <1>4, <2>1, <2>2
  <2>4. h.cmds[k] = g.cmds[k] /\ h.cmds[t] = g.cmds[t] /\ after[t] = places[t]
    BY <2>3, <1>4, <1>5
  <2>5. NoWayIn(g.cmds, places[t], t, k)
    <3>1. CASE i \in 1 .. n
      <4>1. Closed(g.cmds, places) /\ h.cmds[i] = g.cmds[i]
        BY <1>8, <3>1, <1>4 DEF Laid
      <4> QED BY <4>1, <3>1, <2>1, <2>3, <2>4, <1>2, Zenon DEF Closed
    <3>2. CASE i = n + 1
      BY <3>2, <1>2, <1>4, <1>8, <2>1, <2>3, <2>4
    <3> QED BY <3>1, <3>2, <1>2, <1>4
  <2>6. ASSUME NEW j \in DOMAIN h.cmds, IsJump(h.cmds[j], h.cmds[k].x) PROVE t <= j
    <3>1. CASE j \in 1 .. n
      BY <3>1, <2>4, <2>5, <2>6, <1>2, <1>4 DEF NoWayIn
    <3>2. CASE j = n + 1
      BY <3>2, <2>3, <1>2
    <3> QED BY <3>1, <3>2, <1>2, <1>4
  <2> QED BY <2>4, <2>5, <2>6 DEF NoWayIn
<1> QED BY <1>3, <1>4, <1>5, <1>6, <1>7, <1>8 DEF Laid, h, after

LEMMA SoundEmit ==
    ASSUME NEW bal \in BOOLEAN, NEW g, NEW labels, NEW q, NEW r, NEW cmd \in Command,
           Sound(bal, g, labels, q), Known(g, cmd), r \in Spot, r.fun \in 1 .. g.labels,
           bal => Suits(labels, q, cmd) /\ Leads(q, cmd, r),
           bal /\ cmd.kind = "jump_unless" =>
               \A t, k \in DOMAIN g.cmds :
                   t < k /\ g.cmds[k].kind = "label" /\ IsLabel(g.cmds[t], cmd.x)
                   => NoWayIn(g.cmds, labels[cmd.x], t, k)
    PROVE  Sound(bal, Emit(g, <<cmd>>), labels, r)
<1> DEFINE h == Emit(g, <<cmd>>)
<1>1. PICK places : Laid(bal, g, labels, places) /\ places[Len(places)] = q
  BY DEF Sound
<1>2. g \in Generators
  BY DEF Sound
<1>3. Laid(bal, h, labels, Append(places, r))
  <2>1. bal => Suits(labels, places[Len(places)], cmd) /\ Leads(places[Len(places)], cmd, r)
    BY <1>1
  <2>2. ASSUME bal, cmd.kind = "jump_unless", NEW t \in DOMAIN g.cmds, NEW k \in DOMAIN g.cmds,
               t < k, g.cmds[k].kind = "label", IsLabel(g.cmds[t], cmd.x)
        PROVE  NoWayIn(g.cmds, places[t], t, k)
    <3>1. Suits(labels, places[t], g.cmds[t])
      BY <1>1, <2>2 DEF Laid
    <3>2. places[t] = labels[cmd.x]
      BY <3>1, <2>2 DEF Suits, IsLabel
    <3> QED BY <2>2, <3>2
  <2> HIDE DEF h
  <2>3. Laid(bal, g, labels, places)
    BY <1>1
  <2> QED BY <1>2, <2>1, <2>2, <2>3, EmitLaid DEF h
<1>4. Append(places, r)[Len(Append(places, r))] = r
  BY <1>1 DEF Laid
<1>5. /\ h \in Generators
      /\ h.labels = g.labels /\ h.loops = g.loops
      /\ h.funs = g.funs /\ h.scopes = g.scopes /\ h.scope = g.scope
  BY <1>2, EmitFields
<1> HIDE DEF h
<1>6. \E p : Laid(bal, h, labels, p) /\ p[Len(p)] = r
  BY <1>3, <1>4
<1> QED BY <1>5, <1>6 DEF Sound, h

\* How far the generator has come from g: the labels that are new and not yet set.
Keeps(g, h, open) ==
    /\ g.labels <= h.labels /\ open \subseteq g.labels + 1 .. h.labels
    /\ Len(g.cmds) <= Len(h.cmds) /\ \A i \in DOMAIN g.cmds : h.cmds[i] = g.cmds[i]
    /\ \A i \in DOMAIN h.cmds :
           i > Len(g.cmds) /\ h.cmds[i].kind = "label" => h.cmds[i].x > g.labels
    /\ \A x \in g.labels + 1 .. h.labels :
           IF x \in open THEN Labelled(h, x) = {} ELSE \E i \in DOMAIN h.cmds : Labelled(h, x) = {i}
    /\ Len(g.scopes) <= Len(h.scopes)
    /\ \A s \in DOMAIN g.scopes : h.scopes[s].parent = g.scopes[s].parent

Reaches(bal, g, labels, open, h, more, q) ==
    /\ \E p : Sound(bal, g, labels, p)
    /\ Sound(bal, h, more, q)
    /\ \A x \in DOMAIN labels : more[x] = labels[x]
    /\ Keeps(g, h, open)

\* What Sound says of the state alone.
LEMMA SoundState ==
    ASSUME NEW bal, NEW g, NEW labels, NEW q, Sound(bal, g, labels, q)
    PROVE  /\ g \in Generators
           /\ g.labels \in Nat /\ g.scope \in DOMAIN g.scopes
           /\ g.cmds \in Seq(Command) /\ Len(g.cmds) \in Nat
           /\ DOMAIN g.cmds = 1 .. Len(g.cmds)
           /\ labels \in Seq(Spot) /\ DOMAIN labels = 1 .. g.labels
           /\ g.scopes \in Seq([parent : Nat, len : Nat])
           /\ Len(g.scopes) \in Nat /\ DOMAIN g.scopes = 1 .. Len(g.scopes)
BY DEF Sound, Generators

LEMMA SoundCmd ==
    ASSUME NEW bal, NEW g, NEW labels, NEW q, Sound(bal, g, labels, q), NEW i \in DOMAIN g.cmds
    PROVE  /\ g.cmds[i] \in Command /\ Known(g, g.cmds[i])
           /\ g.cmds[i].kind \in {"label", "jump_unless"} => g.cmds[i].x \in 1 .. g.labels
<1>1. g.cmds \in Seq(Command)
  BY SoundState
<1>2. Known(g, g.cmds[i])
  BY DEF Sound, Laid
<1>3. g.cmds[i] \in Command
  BY <1>1
<1> QED BY <1>2, <1>3 DEF Known

LEMMA SoundLabel ==
    ASSUME NEW bal, NEW g, NEW labels, NEW q, Sound(bal, g, labels, q), NEW x \in 1 .. g.labels
    PROVE  labels[x] \in Spot /\ labels[x].zero = FALSE
BY DEF Sound

LEMMA ReachSelf ==
    ASSUME NEW bal, NEW g, NEW labels, NEW q, Sound(bal, g, labels, q)
    PROVE  Reaches(bal, g, labels, {}, g, labels, q)
<1>1. /\ g.labels \in Nat /\ Len(g.cmds) \in Nat /\ DOMAIN g.cmds = 1 .. Len(g.cmds)
      /\ Len(g.scopes) \in Nat
  BY SoundState
<1>2. Keeps(g, g, {})
  BY <1>1 DEF Keeps
<1> QED BY <1>2 DEF Reaches

LEMMA LabelledKept ==
    ASSUME NEW g, NEW h, NEW open, NEW x \in 1 .. g.labels, Keeps(g, h, open),
           g.labels \in Nat, Len(g.cmds) \in Nat, Len(h.cmds) \in Nat,
           DOMAIN g.cmds = 1 .. Len(g.cmds), DOMAIN h.cmds = 1 .. Len(h.cmds)
    PROVE  Labelled(h, x) = Labelled(g, x)
<1>1. ASSUME NEW i \in DOMAIN h.cmds, IsLabel(h.cmds[i], x)
      PROVE  i \in DOMAIN g.cmds /\ IsLabel(g.cmds[i], x)
  <2>1. i <= Len(g.cmds)
    BY <1>1 DEF Keeps, IsLabel
  <2> QED BY <2>1, <1>1 DEF Keeps
<1>2. ASSUME NEW i \in DOMAIN g.cmds, IsLabel(g.cmds[i], x)
      PROVE  i \in DOMAIN h.cmds /\ IsLabel(h.cmds[i], x)
  BY <1>2 DEF Keeps
<1> QED BY <1>1, <1>2 DEF Labelled

LEMMA ReachTrans ==
    ASSUME NEW bal, NEW open, NEW g, NEW labels, NEW h, NEW more, NEW q, NEW k, NEW last, NEW r,
           Reaches(bal, g, labels, open, h, more, q), Reaches(bal, h, more, {}, k, last, r)
    PROVE  Reaches(bal, g, labels, open, k, last, r)
<1>1. PICK p : Sound(bal, g, labels, p)
  BY DEF Reaches
<1>2. Sound(bal, h, more, q) /\ Sound(bal, k, last, r)
  BY DEF Reaches
<1>3. Keeps(g, h, open) /\ Keeps(h, k, {})
  BY DEF Reaches
<1>4. /\ g.labels \in Nat /\ h.labels \in Nat /\ k.labels \in Nat
      /\ Len(g.cmds) \in Nat /\ Len(h.cmds) \in Nat /\ Len(k.cmds) \in Nat
      /\ DOMAIN g.cmds = 1 .. Len(g.cmds) /\ DOMAIN h.cmds = 1 .. Len(h.cmds)
      /\ DOMAIN k.cmds = 1 .. Len(k.cmds)
      /\ DOMAIN labels = 1 .. g.labels /\ DOMAIN more = 1 .. h.labels
  BY <1>1, <1>2, SoundState
<1>5. /\ g.labels <= h.labels /\ h.labels <= k.labels
      /\ open \subseteq g.labels + 1 .. h.labels
  BY <1>3 DEF Keeps
<1>6. ASSUME NEW x \in DOMAIN labels PROVE last[x] = labels[x]
  <2>1. x \in DOMAIN more
    BY <1>4, <1>5
  <2> QED BY <2>1 DEF Reaches
<1>7. Len(g.cmds) <= Len(k.cmds) /\ \A i \in DOMAIN g.cmds : k.cmds[i] = g.cmds[i]
  BY <1>3, <1>4 DEF Keeps
<1>8. ASSUME NEW i \in DOMAIN k.cmds, i > Len(g.cmds), k.cmds[i].kind = "label"
      PROVE  k.cmds[i].x > g.labels
  <2>1. CASE i \in DOMAIN h.cmds
    <3>1. k.cmds[i] = h.cmds[i]
      BY <2>1, <1>3 DEF Keeps
    <3> QED BY <3>1, <2>1, <1>3, <1>8 DEF Keeps
  <2>2. CASE i > Len(h.cmds)
    <3>1. k.cmds[i].x > h.labels
      BY <2>2, <1>3, <1>8 DEF Keeps
    <3>2. k.cmds[i].x \in 1 .. k.labels
      BY <1>2, <1>8, SoundCmd
    <3>3. /\ g.labels \in Nat /\ h.labels \in Nat /\ k.labels \in Nat
          /\ g.labels <= h.labels
      BY <1>4, <1>5
    <3> HIDE <1>8
    <3> QED BY <3>1, <3>2, <3>3
  <2> QED BY <2>1, <2>2, <1>4
<1>9. ASSUME NEW x \in g.labels + 1 .. k.labels
      PROVE  IF x \in open THEN Labelled(k, x) = {}
             ELSE \E i \in DOMAIN k.cmds : Labelled(k, x) = {i}
  <2>1. CASE x \in 1 .. h.labels
    <3>1. Labelled(k, x) = Labelled(h, x)
      BY <2>1, <1>3, <1>4, LabelledKept
    <3>2. x \in g.labels + 1 .. h.labels
      BY <2>1, <1>4
    <3>3. IF x \in open THEN Labelled(h, x) = {}
          ELSE \E i \in DOMAIN h.cmds : Labelled(h, x) = {i}
      BY <3>2, <1>3 DEF Keeps
    <3>4. DOMAIN h.cmds \subseteq DOMAIN k.cmds
      BY <1>3, <1>4 DEF Keeps
    <3> QED BY <3>1, <3>3, <3>4
  <2>2. CASE x \in h.labels + 1 .. k.labels
    <3>1. \E i \in DOMAIN k.cmds : Labelled(k, x) = {i}
      BY <2>2, <1>3 DEF Keeps
    <3>2. x \notin open
      BY <2>2, <1>3, <1>4 DEF Keeps
    <3> QED BY <3>1, <3>2
  <2> QED BY <2>1, <2>2, <1>4
<1>10. /\ Len(g.scopes) <= Len(k.scopes)
       /\ \A s \in DOMAIN g.scopes : k.scopes[s].parent = g.scopes[s].parent
  <2>1. /\ Len(g.scopes) \in Nat /\ Len(h.scopes) \in Nat /\ Len(k.scopes) \in Nat
        /\ DOMAIN g.scopes = 1 .. Len(g.scopes) /\ DOMAIN h.scopes = 1 .. Len(h.scopes)
    BY <1>1, <1>2, SoundState
  <2> QED BY <2>1, <1>3 DEF Keeps
<1>11. g.labels <= k.labels /\ open \subseteq g.labels + 1 .. k.labels
  BY <1>4, <1>5
<1>12. Keeps(g, k, open)
  BY <1>11, <1>5, <1>7, <1>8, <1>9, <1>10 DEF Keeps
<1> QED BY <1>1, <1>2, <1>6, <1>12 DEF Reaches

\* A command can be emitted at q and leads to r.
Goes(bal, g, labels, q, cmd, r) ==
    /\ cmd \in Command /\ Known(g, cmd)
    /\ r \in Spot /\ r.fun \in 1 .. g.labels
    /\ bal => Suits(labels, q, cmd) /\ Leads(q, cmd, r)

LEMMA LabelledEmit ==
    ASSUME NEW g \in Generators, NEW cmd \in Command, NEW x
    PROVE  Labelled(Emit(g, <<cmd>>), x) =
               Labelled(g, x) \cup (IF IsLabel(cmd, x) THEN {Len(g.cmds) + 1} ELSE {})
<1> DEFINE h == Emit(g, <<cmd>>)
           n == Len(g.cmds)
<1>1. h.cmds = Append(g.cmds, cmd) /\ g.cmds \in Seq(Command)
  BY EmitFields DEF Generators
<1>2. /\ n \in Nat /\ DOMAIN g.cmds = 1 .. n /\ DOMAIN h.cmds = 1 .. n + 1
      /\ h.cmds[n + 1] = cmd /\ \A i \in 1 .. n : h.cmds[i] = g.cmds[i]
  BY <1>1
<1> HIDE DEF h, n
<1>3. ASSUME NEW i
      PROVE  i \in Labelled(h, x) <=>
                 i \in Labelled(g, x) \/ (IsLabel(cmd, x) /\ i = n + 1)
  <2>1. CASE i \in 1 .. n
    BY <2>1, <1>2 DEF Labelled
  <2>2. CASE i = n + 1
    BY <2>2, <1>2 DEF Labelled
  <2>3. CASE i \notin 1 .. n + 1
    <3>1. i \notin 1 .. n /\ i # n + 1
      BY <2>3, <1>2
    <3> QED BY <2>3, <3>1, <1>2 DEF Labelled
  <2> QED BY <2>1, <2>2, <2>3, <1>2
<1> QED BY <1>3 DEF h, n

LEMMA KeepsEmit ==
    ASSUME NEW bal, NEW g, NEW labels, NEW p, NEW open, NEW h, NEW more, NEW q,
           NEW cmd \in Command,
           Sound(bal, g, labels, p), Sound(bal, h, more, q), Keeps(g, h, open),
           cmd.kind = "label" => cmd.x \in open
    PROVE  Keeps(g, Emit(h, <<cmd>>), IF cmd.kind = "label" THEN open \ {cmd.x} ELSE open)
<1> DEFINE k == Emit(h, <<cmd>>)
           n == Len(h.cmds)
           left == IF cmd.kind = "label" THEN open \ {cmd.x} ELSE open
<1>1. /\ g.labels \in Nat /\ h.labels \in Nat /\ Len(g.cmds) \in Nat /\ n \in Nat
      /\ DOMAIN g.cmds = 1 .. Len(g.cmds) /\ DOMAIN h.cmds = 1 .. n
      /\ h \in Generators /\ h.cmds \in Seq(Command)
  BY SoundState
<1>2. k.cmds = Append(h.cmds, cmd) /\ k.labels = h.labels /\ k.scopes = h.scopes
  BY <1>1, EmitFields
<1>3. /\ Len(k.cmds) = n + 1 /\ DOMAIN k.cmds = 1 .. n + 1
      /\ k.cmds[n + 1] = cmd /\ \A i \in 1 .. n : k.cmds[i] = h.cmds[i]
  BY <1>1, <1>2
<1>4. \A x : Labelled(k, x) = Labelled(h, x) \cup (IF IsLabel(cmd, x) THEN {n + 1} ELSE {})
  BY <1>1, LabelledEmit
<1>5. open \subseteq g.labels + 1 .. h.labels
  BY DEF Keeps
<1> HIDE DEF k, n
<1>6. /\ g.labels <= k.labels /\ left \subseteq g.labels + 1 .. k.labels
      /\ Len(g.cmds) <= Len(k.cmds) /\ \A i \in DOMAIN g.cmds : k.cmds[i] = h.cmds[i]
  <2>1. /\ g.labels <= h.labels /\ Len(g.cmds) <= n /\ left \subseteq open
    BY DEF Keeps, n
  <2>2. \A i \in DOMAIN g.cmds : i \in 1 .. n
    BY <1>1, <2>1
  <2> HIDE DEF left
  <2> QED BY <1>1, <1>2, <1>3, <1>5, <2>1, <2>2
<1>7. \A i \in DOMAIN g.cmds : k.cmds[i] = g.cmds[i]
  <2>1. \A i \in DOMAIN g.cmds : h.cmds[i] = g.cmds[i]
    BY DEF Keeps
  <2> QED BY <2>1, <1>6
<1>8. ASSUME NEW i \in DOMAIN k.cmds, i > Len(g.cmds), k.cmds[i].kind = "label"
      PROVE  k.cmds[i].x > g.labels
  <2>1. CASE i \in 1 .. n
    BY <2>1, <1>1, <1>3, <1>8 DEF Keeps
  <2>2. CASE i = n + 1
    <3>1. cmd.x \in g.labels + 1 .. h.labels
      BY <2>2, <1>3, <1>5, <1>8
    <3> QED BY <2>2, <3>1, <1>1, <1>3
  <2> QED BY <2>1, <2>2, <1>1, <1>3
<1>9. ASSUME NEW x \in g.labels + 1 .. k.labels
      PROVE  IF x \in left THEN Labelled(k, x) = {}
             ELSE \E i \in DOMAIN k.cmds : Labelled(k, x) = {i}
  <2>1. IF x \in open THEN Labelled(h, x) = {}
        ELSE \E i \in DOMAIN h.cmds : Labelled(h, x) = {i}
    BY <1>2, <1>9 DEF Keeps
  <2>2. CASE IsLabel(cmd, x)
    <3>1. x \in open /\ x \notin left
      BY <2>2 DEF IsLabel
    <3>2. Labelled(k, x) = {n + 1}
      BY <2>1, <2>2, <3>1, <1>4
    <3>3. n + 1 \in DOMAIN k.cmds
      BY <1>1, <1>3
    <3> QED BY <3>1, <3>2, <3>3
  <2>3. CASE ~IsLabel(cmd, x)
    <3>1. x \in left <=> x \in open
      BY <2>3 DEF IsLabel
    <3>2. Labelled(k, x) = Labelled(h, x)
      BY <2>3, <1>4
    <3>3. DOMAIN h.cmds \subseteq DOMAIN k.cmds
      BY <1>1, <1>3
    <3> QED BY <2>1, <3>1, <3>2, <3>3
  <2> QED BY <2>2, <2>3
<1>10. /\ Len(g.scopes) <= Len(k.scopes)
       /\ \A s \in DOMAIN g.scopes : k.scopes[s].parent = g.scopes[s].parent
  BY <1>2 DEF Keeps
<1> HIDE DEF left
<1>11. Keeps(g, k, left)
  BY <1>6, <1>7, <1>8, <1>9, <1>10 DEF Keeps
<1> QED BY <1>11 DEF k, left

LEMMA ReachEmit ==
    ASSUME NEW bal \in BOOLEAN, NEW g, NEW labels, NEW open, NEW h, NEW more, NEW q, NEW cmd, NEW r,
           Reaches(bal, g, labels, open, h, more, q), Goes(bal, h, more, q, cmd, r),
           cmd.kind # "label",
           bal /\ cmd.kind = "jump_unless" => Labelled(h, cmd.x) = {}
    PROVE  Reaches(bal, g, labels, open, Emit(h, <<cmd>>), more, r)
<1>1. PICK p : Sound(bal, g, labels, p)
  BY DEF Reaches
<1>2. Sound(bal, h, more, q) /\ Keeps(g, h, open)
  BY DEF Reaches
<1>3. cmd \in Command
  BY DEF Goes
<1>4. Keeps(g, Emit(h, <<cmd>>), open)
  BY <1>1, <1>2, <1>3, KeepsEmit
<1>5. Sound(bal, Emit(h, <<cmd>>), more, r)
  <2>1. ASSUME bal, cmd.kind = "jump_unless", NEW t \in DOMAIN h.cmds, IsLabel(h.cmds[t], cmd.x)
        PROVE  FALSE
    BY <2>1 DEF Labelled
  <2> QED BY <1>2, <2>1, SoundEmit DEF Goes
<1> QED BY <1>1, <1>4, <1>5 DEF Reaches

LEMMA ReachLabel ==
    ASSUME NEW bal \in BOOLEAN, NEW g, NEW labels, NEW open, NEW h, NEW more, NEW q, NEW x \in open,
           Reaches(bal, g, labels, open, h, more, q), bal => q = more[x]
    PROVE  Reaches(bal, g, labels, open \ {x}, Emit(h, <<Cmd("label", x)>>), more, q)
<1> DEFINE cmd == Cmd("label", x)
<1>1. PICK p : Sound(bal, g, labels, p)
  BY DEF Reaches
<1>2. Sound(bal, h, more, q) /\ Keeps(g, h, open)
  BY DEF Reaches
<1>3. x \in 1 .. h.labels /\ x \in Int
  <2>1. g.labels \in Nat /\ h.labels \in Nat
    BY <1>1, <1>2, SoundState
  <2> QED BY <2>1, <1>2 DEF Keeps
<1>4. cmd \in Command /\ cmd.kind = "label" /\ cmd.x = x
  <2>1. "label" \in Kinds
    BY DEF Kinds, Pushes
  <2> QED BY <1>3, <2>1, CmdIs, Zenon
<1>5. q \in Spot /\ q.fun \in 1 .. h.labels /\ q.zero \in BOOLEAN /\ q.height \in Nat
  BY <1>2 DEF Sound, Spot
<1> HIDE DEF cmd
<1>6. Known(h, cmd)
  BY <1>3, <1>4 DEF Known, Pushes
<1>7. bal => Suits(more, q, cmd) /\ Leads(q, cmd, q)
  <2>1. PopsOf(cmd) = 0 /\ Pushes[cmd.kind] = 0
    BY <1>4 DEF PopsOf, Pops, Pushes
  <2>2. bal => q.zero = FALSE
    BY <1>2, <1>3 DEF Sound
  <2> QED BY <2>1, <2>2, <1>4, <1>5 DEF Suits, Leads
<1>8. Sound(bal, Emit(h, <<cmd>>), more, q)
  BY <1>2, <1>4, <1>5, <1>6, <1>7, SoundEmit
<1>9. Keeps(g, Emit(h, <<cmd>>), open \ {x})
  BY <1>1, <1>2, <1>4, KeepsEmit
<1> QED BY <1>1, <1>8, <1>9 DEF Reaches, cmd

\* A jump back to the first command since g.
LEMMA ReachBack ==
    ASSUME NEW bal \in BOOLEAN, NEW g, NEW labels, NEW open, NEW h, NEW more, NEW q, NEW x, NEW r,
           Reaches(bal, g, labels, open, h, more, q),
           Goes(bal, h, more, q, Cmd("jump_unless", x), r),
           Labelled(h, x) = {Len(g.cmds) + 1},
           bal => more[x].fun \in 1 .. g.labels
    PROVE  Reaches(bal, g, labels, open, Emit(h, <<Cmd("jump_unless", x)>>), more, r)
<1> DEFINE cmd == Cmd("jump_unless", x)
<1>1. PICK p : Sound(bal, g, labels, p)
  BY DEF Reaches
<1>2. Sound(bal, h, more, q) /\ Keeps(g, h, open)
  BY DEF Reaches
<1>3. cmd \in Command /\ cmd.kind = "jump_unless" /\ cmd.x = x
  BY DEF Goes, Cmd
<1>4. /\ g.labels \in Nat /\ h.labels \in Nat /\ Len(g.cmds) \in Nat /\ Len(h.cmds) \in Nat
      /\ DOMAIN g.cmds = 1 .. Len(g.cmds) /\ DOMAIN h.cmds = 1 .. Len(h.cmds)
  BY <1>1, <1>2, SoundState
<1> HIDE DEF cmd
<1>5. ASSUME bal, NEW t \in DOMAIN h.cmds, NEW k \in DOMAIN h.cmds,
             t < k, h.cmds[k].kind = "label", IsLabel(h.cmds[t], x)
      PROVE  NoWayIn(h.cmds, more[x], t, k)
  <2>1. t = Len(g.cmds) + 1
    BY <1>5 DEF Labelled
  <2>2. h.cmds[k].x > g.labels /\ h.cmds[k].x \in 1 .. h.labels
    <3>1. k > Len(g.cmds)
      BY <1>4, <1>5, <2>1
    <3> QED BY <3>1, <1>2, <1>5, SoundCmd DEF Keeps
  <2>3. h.cmds[k].x # more[x].fun
    BY <1>4, <1>5, <2>2
  <2>4. ASSUME NEW j \in DOMAIN h.cmds, IsJump(h.cmds[j], h.cmds[k].x), j < t PROVE FALSE
    <3>1. j \in DOMAIN g.cmds
      BY <1>4, <2>1, <2>4
    <3>2. g.cmds[j] = h.cmds[j]
      BY <3>1, <1>2 DEF Keeps
    <3>3. g.cmds[j].kind = "jump_unless" /\ g.cmds[j].x = h.cmds[k].x
      BY <2>4, <3>2 DEF IsJump
    <3>4. g.cmds[j].x \in 1 .. g.labels
      BY <1>1, <3>1, <3>3, SoundCmd
    <3> QED BY <1>4, <2>2, <3>3, <3>4
  <2> QED BY <1>4, <2>3, <2>4 DEF NoWayIn
<1>6. Sound(bal, Emit(h, <<cmd>>), more, r)
  <2>1. Goes(bal, h, more, q, cmd, r)
    BY DEF cmd
  <2> QED BY <2>1, <1>2, <1>3, <1>5, SoundEmit DEF Goes
<1>7. Keeps(g, Emit(h, <<cmd>>), open)
  BY <1>1, <1>2, <1>3, KeepsEmit
<1> QED BY <1>1, <1>6, <1>7 DEF Reaches, cmd

\* What concerns neither commands, labels nor functions.
LEMMA ReachSame ==
    ASSUME NEW bal, NEW g, NEW labels, NEW open, NEW h, NEW more, NEW q, NEW k \in Generators,
           Reaches(bal, g, labels, open, h, more, q),
           k.cmds = h.cmds, k.labels = h.labels, k.funs = h.funs,
           Len(h.scopes) <= Len(k.scopes), k.scope \in DOMAIN k.scopes,
           \A s \in DOMAIN h.scopes : k.scopes[s].parent = h.scopes[s].parent,
           \A l \in DOMAIN k.loops : k.loops[l] \in 1 .. k.labels
    PROVE  Reaches(bal, g, labels, open, k, more, q)
<1>1. PICK p : Sound(bal, g, labels, p)
  BY DEF Reaches
<1>2. Sound(bal, h, more, q) /\ Keeps(g, h, open)
  BY DEF Reaches
<1>3. /\ Len(g.scopes) \in Nat /\ Len(h.scopes) \in Nat /\ DOMAIN g.scopes = 1 .. Len(g.scopes)
      /\ DOMAIN h.scopes = 1 .. Len(h.scopes)
  BY <1>1, <1>2, SoundState
<1>4. Len(k.scopes) \in Nat /\ DOMAIN k.scopes = 1 .. Len(k.scopes)
  BY DEF Generators
<1>5. \A s \in DOMAIN h.scopes : s \in DOMAIN k.scopes
  BY <1>3, <1>4
<1>6. \A places : Laid(bal, h, more, places) => Laid(bal, k, more, places)
  BY DEF Laid, Known
<1>7. \E places : Laid(bal, k, more, places) /\ places[Len(places)] = q
  BY <1>2, <1>6 DEF Sound
<1>8. Sound(bal, k, more, q)
  BY <1>2, <1>5, <1>7 DEF Sound
<1>9. \A x : Labelled(k, x) = Labelled(h, x)
  BY DEF Labelled
<1>10. Keeps(g, k, open)
  <2>1. /\ Len(g.scopes) <= Len(k.scopes)
        /\ \A s \in DOMAIN g.scopes : k.scopes[s].parent = g.scopes[s].parent
    BY <1>2, <1>3, <1>4 DEF Keeps
  <2> QED BY <2>1, <1>2, <1>9 DEF Keeps
<1> QED BY <1>1, <1>8, <1>10 DEF Reaches

\* Two labels are made, for the places that they will stand at.
Marks == {s \in Spot : s.zero = FALSE}

MakesNew(bal, g, labels, q, s, r) ==
    LET n == g.labels
        h == NewLabels(g)
    IN \E more : /\ Reaches(bal, g, labels, {n + 1, n + 2}, h, more, q)
                 /\ more[n + 1] = s /\ more[n + 2] = r
                 /\ h \in Generators /\ h.labels = n + 2 /\ h.cmds = g.cmds
                 /\ h.scopes = g.scopes /\ h.scope = g.scope /\ h.loops = g.loops
                 /\ h.funs = g.funs

LEMMA ReachNew ==
    ASSUME NEW bal, NEW g, NEW labels, NEW q, Sound(bal, g, labels, q),
           NEW s \in Marks, NEW r \in Marks
    PROVE  MakesNew(bal, g, labels, q, s, r)
<1> DEFINE n == g.labels
           h == NewLabels(g)
           more == labels \o <<s, r>>
<1>0. s \in Spot /\ r \in Spot /\ s.zero = FALSE /\ r.zero = FALSE
  BY DEF Marks
<1>1. /\ n \in Nat /\ g \in Generators /\ labels \in Seq(Spot) /\ DOMAIN labels = 1 .. n
      /\ DOMAIN g.cmds = 1 .. Len(g.cmds) /\ Len(g.cmds) \in Nat /\ Len(g.scopes) \in Nat
  BY SoundState
<1>2. /\ h \in Generators /\ h.labels = n + 2 /\ h.cmds = g.cmds
      /\ h.scopes = g.scopes /\ h.scope = g.scope /\ h.loops = g.loops
      /\ h.funs = g.funs
  BY <1>1, NewLabelsFields
<1>3. Len(labels) = n
  BY <1>1
<1>4. /\ more \in Seq(Spot) /\ Len(more) = n + 2 /\ more[n + 1] = s /\ more[n + 2] = r
      /\ \A x \in 1 .. n : more[x] = labels[x]
  <2> DEFINE two == <<s, r>>
  <2>1. two \in Seq(Spot) /\ Len(two) = 2 /\ two[1] = s /\ two[2] = r
    BY <1>0
  <2>2. /\ more \in Seq(Spot) /\ Len(more) = n + Len(two)
        /\ \A x \in 1 .. n + Len(two) : more[x] = IF x <= n THEN labels[x] ELSE two[x - n]
    <3> HIDE DEF two
    <3> QED BY <1>1, <1>3, <2>1, ConcatProperties DEF two
  <2> HIDE DEF two, more
  <2>3. n + 1 \in 1 .. n + 2 /\ n + 2 \in 1 .. n + 2 /\ \A x \in 1 .. n : x \in 1 .. n + 2
    BY <1>1
  <2>4. more[n + 1] = two[(n + 1) - n] /\ more[n + 2] = two[(n + 2) - n]
    BY <1>1, <2>1, <2>2, <2>3
  <2>5. (n + 1) - n = 1 /\ (n + 2) - n = 2
    BY <1>1
  <2> QED BY <1>1, <2>1, <2>2, <2>3, <2>4, <2>5
<1>5. DOMAIN more = 1 .. n + 2
  BY <1>1, <1>4
<1> HIDE DEF h, more, n
<1>6. ASSUME NEW places, Laid(bal, g, labels, places) PROVE Laid(bal, h, more, places)
  <2>1. ASSUME NEW i \in DOMAIN g.cmds PROVE Known(h, g.cmds[i])
    <3>1. Known(g, g.cmds[i])
      BY <1>6 DEF Laid
    <3> QED BY <3>1, <1>1, <1>2 DEF Known, n
  <2>2. ASSUME bal, NEW i \in DOMAIN g.cmds PROVE Suits(more, places[i], g.cmds[i])
    <3>1. Suits(labels, places[i], g.cmds[i])
      BY <1>6, <2>2 DEF Laid
    <3>2. g.cmds[i].kind \in {"label", "jump_unless"} => more[g.cmds[i].x] = labels[g.cmds[i].x]
      BY <1>4, SoundCmd DEF n
    <3> QED BY <3>1, <3>2 DEF Suits
  <2> QED BY <1>2, <1>6, <2>1, <2>2 DEF Laid
<1>7. \E places : Laid(bal, h, more, places) /\ places[Len(places)] = q
  BY <1>6 DEF Sound
<1>8. Sound(bal, h, more, q)
  <2>1. \A x \in DOMAIN more : more[x].zero = FALSE
    <3>1. \A x \in 1 .. n : labels[x].zero = FALSE
      BY SoundLabel DEF n
    <3> QED BY <1>0, <1>1, <1>4, <1>5, <3>1
  <2>2. \A k \in DOMAIN h.loops : h.loops[k] \in 1 .. h.labels
    <3>1. \A k \in DOMAIN g.loops : g.loops[k] \in 1 .. n
      BY DEF Sound, n
    <3> QED BY <3>1, <1>1, <1>2
  <2>3. ASSUME NEW f \in DOMAIN h.funs
        PROVE  /\ h.funs[f].scope \in DOMAIN h.scopes /\ h.funs[f].label \in 2 .. h.labels
               /\ bal => more[h.funs[f].label] = On(0, h.funs[f].label)
    <3>1. /\ g.funs[f].scope \in DOMAIN g.scopes /\ g.funs[f].label \in 2 .. n
          /\ bal => labels[g.funs[f].label] = On(0, g.funs[f].label)
      BY <2>3, <1>2 DEF Sound, n
    <3> QED BY <3>1, <1>1, <1>2, <1>4
  <2>4. q \in Spot /\ q.fun \in 1 .. h.labels
    <3>1. q \in Spot /\ q.fun \in 1 .. n
      BY DEF Sound, n
    <3> QED BY <3>1, <1>1, <1>2
  <2>5. h.scope \in DOMAIN h.scopes
    BY <1>2 DEF Sound
  <2> QED BY <1>2, <1>4, <1>7, <2>1, <2>2, <2>3, <2>4, <2>5 DEF Sound
<1>9. Keeps(g, h, {n + 1, n + 2})
  <2>1. ASSUME NEW x \in n + 1 .. n + 2 PROVE Labelled(h, x) = {}
    <3>1. \A i \in DOMAIN g.cmds : ~IsLabel(g.cmds[i], x)
      BY <1>1, SoundCmd DEF IsLabel, n
    <3> QED BY <3>1, <1>2 DEF Labelled
  <2>2. \A x \in n + 1 .. n + 2 : x \in {n + 1, n + 2}
    BY <1>1
  <2> QED BY <1>1, <1>2, <2>1, <2>2 DEF Keeps, n
<1>10. Reaches(bal, g, labels, {n + 1, n + 2}, h, more, q)
  BY <1>1, <1>4, <1>8, <1>9 DEF Reaches
<1> QED BY <1>2, <1>4, <1>10 DEF MakesNew, n, h

---------------------------------------------------------------------------
(* One command after the other.                                            *)

SameScope(g, h) == h.loops = g.loops /\ h.scope = g.scope

LEMMA CatCat ==
    ASSUME NEW r \in Seq(Command), NEW s \in Seq(Command), NEW t \in Seq(Command)
    PROVE  r \o (s \o t) = (r \o s) \o t
OBVIOUS

LEMMA EmitCat ==
    ASSUME NEW g \in Generators, NEW s \in Seq(Command), NEW t \in Seq(Command)
    PROVE  Emit(g, s \o t) = Emit(Emit(g, s), t)
<1>1. g.cmds \o (s \o t) = (g.cmds \o s) \o t
  <2>1. g.cmds \in Seq(Command)
    BY DEF Generators
  <2> QED BY <2>1, CatCat, Zenon
<1>2. Emit(g, s) = [g EXCEPT !.cmds = g.cmds \o s]
  BY DEF Emit, Generators
<1>3. Emit(g, s).cmds = g.cmds \o s
  BY <1>2 DEF Generators
<1>4. Emit(Emit(g, s), t) = [Emit(g, s) EXCEPT !.cmds = (g.cmds \o s) \o t]
  BY <1>2, <1>3 DEF Emit
<1>5. Emit(Emit(g, s), t) = [g EXCEPT !.cmds = (g.cmds \o s) \o t]
  BY <1>2, <1>4 DEF Generators
<1>6. Emit(g, s \o t) = [g EXCEPT !.cmds = g.cmds \o (s \o t)]
  BY DEF Emit, Generators
<1> QED BY <1>1, <1>5, <1>6

LEMMA EmitTwo ==
    ASSUME NEW g \in Generators, NEW a \in Command, NEW b \in Command
    PROVE  Emit(g, <<a, b>>) = Emit(Emit(g, <<a>>), <<b>>)
<1>1. <<a>> \in Seq(Command) /\ <<b>> \in Seq(Command) /\ <<a, b>> = Append(<<a>>, b)
  OBVIOUS
<1>2. Append(<<a>>, b) = <<a>> \o <<b>>
  BY <1>1, AppendIsConcat, Zenon
<1>3. Emit(g, <<a>> \o <<b>>) = Emit(Emit(g, <<a>>), <<b>>)
  BY <1>1, EmitCat
<1> QED BY <1>1, <1>2, <1>3, Zenon

LEMMA EmitSame ==
    ASSUME NEW g \in Generators, NEW cmd \in Command
    PROVE  SameScope(g, Emit(g, <<cmd>>))
BY EmitFields DEF SameScope

LEMMA ReachTypes ==
    ASSUME NEW bal, NEW g, NEW labels, NEW open, NEW h, NEW more, NEW q,
           Reaches(bal, g, labels, open, h, more, q)
    PROVE  /\ h \in Generators /\ h.labels \in Nat /\ q.height \in Nat /\ q.fun \in 1 .. h.labels
           /\ h.scope \in DOMAIN h.scopes
BY SoundState DEF Reaches, Sound, Spot

\* A command that neither is a label nor jumps.
LEMMA ReachPlain ==
    ASSUME NEW bal \in BOOLEAN, NEW g, NEW labels, NEW open, NEW h, NEW more, NEW q,
           NEW cmd \in Command, NEW height \in Nat,
           Reaches(bal, g, labels, open, h, more, q), Known(h, cmd),
           cmd.kind \notin {"label", "jump_unless"},
           PopsOf(cmd) <= q.height,
           bal /\ cmd.kind = "return" => q.height = 1,
           cmd.kind \notin {"return", "err"} =>
               height = q.height - PopsOf(cmd) + Pushes[cmd.kind]
    PROVE  /\ Reaches(bal, g, labels, open, Emit(h, <<cmd>>), more, On(height, q.fun))
           /\ SameScope(h, Emit(h, <<cmd>>))
<1> DEFINE r == On(height, q.fun)
<1>1. h \in Generators /\ q.fun \in 1 .. h.labels /\ h.labels \in Nat
  BY ReachTypes
<1>2. r \in Spot /\ r.fun = q.fun /\ r.height = height /\ r.zero = FALSE
  BY <1>1 DEF On, Spot
<1> HIDE DEF r
<1>3. bal => Suits(more, q, cmd)
  BY DEF Suits
<1>4. Leads(q, cmd, r)
  BY <1>2 DEF Leads, Leaves
<1>5. Goes(bal, h, more, q, cmd, r)
  BY <1>1, <1>2, <1>3, <1>4 DEF Goes
<1> QED BY <1>1, <1>5, ReachEmit, EmitSame DEF r

LEMMA NullIs ==
    PushNull \in Command /\ PushNull.kind = "push_int" /\ PushNull.x = 0
<1>1. "push_int" \in Kinds
  BY DEF Kinds, Pushes
<1>2. PushNull = Cmd("push_int", 0)
  BY DEF PushNull
<1>3. 0 \in Int
  OBVIOUS
<1> QED BY <1>1, <1>2, <1>3, CmdIs, Zenon

LEMMA JumpIs ==
    ASSUME NEW x \in Int
    PROVE  LET cmd == Cmd("jump_unless", x)
           IN cmd \in Command /\ cmd.kind = "jump_unless" /\ cmd.x = x
<1>1. "jump_unless" \in Kinds
  BY DEF Kinds, Pushes
<1> QED BY <1>1, CmdIs, Zenon

\* The jump of gen_if and gen_while.
LEMMA ReachJump ==
    ASSUME NEW bal \in BOOLEAN, NEW g, NEW labels, NEW open, NEW h, NEW more, NEW q,
           NEW x \in 1 .. h.labels,
           Reaches(bal, g, labels, open, h, more, q), q.height >= 1,
           bal => more[x] = On(q.height - 1, q.fun) /\ Labelled(h, x) = {}
    PROVE  LET k == Emit(h, <<Cmd("jump_unless", x)>>)
           IN Reaches(bal, g, labels, open, k, more, On(q.height - 1, q.fun)) /\ SameScope(h, k)
<1> DEFINE cmd == Cmd("jump_unless", x)
           r == On(q.height - 1, q.fun)
<1>1. h \in Generators /\ q.fun \in 1 .. h.labels /\ h.labels \in Nat /\ q.height \in Nat
  BY ReachTypes
<1>2. cmd \in Command /\ cmd.kind = "jump_unless" /\ cmd.x = x
  BY <1>1, JumpIs
<1>3. r \in Spot /\ r.fun = q.fun /\ r.height = q.height - 1 /\ r.zero = FALSE
  BY <1>1 DEF On, Spot
<1>4. bal => more[x] = r
  OBVIOUS
<1> HIDE DEF cmd
<1>5. PopsOf(cmd) = 1 /\ Pushes[cmd.kind] = 0 /\ Known(h, cmd)
  BY <1>2 DEF PopsOf, Pops, Pushes, Known
<1>6. bal => Suits(more, q, cmd)
  BY <1>1, <1>2, <1>5 DEF Suits
<1> HIDE DEF r
<1>7. Leads(q, cmd, r)
  BY <1>1, <1>3, <1>5 DEF Leads
<1>8. Goes(bal, h, more, q, cmd, r)
  BY <1>1, <1>2, <1>3, <1>5, <1>6, <1>7 DEF Goes
<1>9. Reaches(bal, g, labels, open, Emit(h, <<cmd>>), more, r)
  BY <1>2, <1>8, ReachEmit
<1>10. SameScope(h, Emit(h, <<cmd>>))
  BY <1>1, <1>2, EmitSame
<1> QED BY <1>9, <1>10 DEF cmd, r

Zeroed(q) == [height |-> q.height + 1, fun |-> q.fun, zero |-> TRUE]

LEMMA ReachZero ==
    ASSUME NEW bal \in BOOLEAN, NEW g, NEW labels, NEW open, NEW h, NEW more, NEW q,
           Reaches(bal, g, labels, open, h, more, q)
    PROVE  Reaches(bal, g, labels, open, Emit(h, <<PushNull>>), more, Zeroed(q))
<1> DEFINE s == Zeroed(q)
<1>1. /\ h \in Generators /\ q.fun \in 1 .. h.labels /\ h.labels \in Nat /\ q.height \in Nat
  BY ReachTypes
<1>2. PushNull \in Command /\ PushNull.kind = "push_int" /\ PushNull.x = 0
  BY NullIs
<1>3. s \in Spot /\ s.height = q.height + 1 /\ s.fun = q.fun /\ s.zero = TRUE
  BY <1>1 DEF Spot, Zeroed
<1> HIDE DEF s
<1>4. PopsOf(PushNull) = 0 /\ Pushes["push_int"] = 1 /\ Known(h, PushNull)
  BY <1>2 DEF PopsOf, Pops, Pushes, Known
<1>5. Suits(more, q, PushNull)
  BY <1>1, <1>2, <1>4 DEF Suits
<1>6. Leads(q, PushNull, s)
  BY <1>1, <1>2, <1>3, <1>4 DEF Leads
<1>7. Goes(bal, h, more, q, PushNull, s)
  BY <1>1, <1>2, <1>3, <1>4, <1>5, <1>6 DEF Goes
<1> QED BY <1>2, <1>7, ReachEmit DEF s

LEMMA ZeroFields ==
    ASSUME NEW h \in Generators
    PROVE  LET k == Emit(h, <<PushNull>>)
           IN k \in Generators /\ k.labels = h.labels /\ SameScope(h, k)
BY NullIs, EmitFields, EmitSame

LEMMA ZeroLabelled ==
    ASSUME NEW h \in Generators, NEW y
    PROVE  Labelled(Emit(h, <<PushNull>>), y) = Labelled(h, y)
<1>1. ~IsLabel(PushNull, y)
  BY NullIs DEF IsLabel
<1> QED BY <1>1, NullIs, LabelledEmit

LEMMA GotoIs ==
    ASSUME NEW h \in Generators, NEW x \in Int
    PROVE  /\ Emit(h, Goto(x)) = Emit(Emit(h, <<PushNull>>), <<Cmd("jump_unless", x)>>)
           /\ SameScope(h, Emit(h, Goto(x)))
<1> DEFINE k == Emit(h, <<PushNull>>)
           cmd == Cmd("jump_unless", x)
<1>1. cmd \in Command
  BY JumpIs
<1>2. k \in Generators /\ SameScope(h, k)
  BY ZeroFields
<1>3. Goto(x) = <<PushNull, cmd>>
  BY DEF Goto
<1> HIDE DEF cmd
<1>4. Emit(h, Goto(x)) = Emit(k, <<cmd>>)
  BY <1>1, <1>3, NullIs, EmitTwo
<1> HIDE DEF k
<1>5. SameScope(h, Emit(k, <<cmd>>))
  BY <1>1, <1>2, EmitSame DEF SameScope
<1> QED BY <1>4, <1>5 DEF cmd, k

\* A goto leads to its label only: what is after it may be anything.
LEMMA GotoGoes ==
    ASSUME NEW bal \in BOOLEAN, NEW k, NEW more, NEW q, NEW x \in 1 .. k.labels,
           NEW r \in Spot, r.fun \in 1 .. k.labels, k.labels \in Nat, q.height \in Nat,
           bal => more[x] = On(q.height, q.fun)
    PROVE  Goes(bal, k, more, Zeroed(q), Cmd("jump_unless", x), r)
<1> DEFINE s == Zeroed(q)
           cmd == Cmd("jump_unless", x)
<1>1. cmd \in Command /\ cmd.kind = "jump_unless" /\ cmd.x = x
  BY JumpIs
<1>2. s.height = q.height + 1 /\ s.fun = q.fun /\ s.zero = TRUE
  BY DEF Zeroed
<1> HIDE DEF s, cmd
<1>3. PopsOf(cmd) = 1 /\ Known(k, cmd)
  BY <1>1 DEF PopsOf, Pops, Pushes, Known
<1>4. bal => Suits(more, s, cmd)
  <2>1. s.height - 1 = q.height
    BY <1>2
  <2> QED BY <1>1, <1>2, <1>3, <2>1 DEF Suits
<1>5. Leads(s, cmd, r)
  BY <1>1, <1>2 DEF Leads, Leaves
<1> QED BY <1>1, <1>3, <1>4, <1>5 DEF Goes, s, cmd

LEMMA ReachGoto ==
    ASSUME NEW bal \in BOOLEAN, NEW g, NEW labels, NEW open, NEW h, NEW more, NEW q,
           NEW x \in 1 .. h.labels, NEW r \in Spot, r.fun \in 1 .. h.labels,
           Reaches(bal, g, labels, open, h, more, q),
           bal => more[x] = On(q.height, q.fun) /\ Labelled(h, x) = {}
    PROVE  /\ Reaches(bal, g, labels, open, Emit(h, Goto(x)), more, r)
           /\ SameScope(h, Emit(h, Goto(x)))
<1> DEFINE k == Emit(h, <<PushNull>>)
           cmd == Cmd("jump_unless", x)
<1>1. h \in Generators /\ h.labels \in Nat /\ x \in Int /\ q.height \in Nat
  BY ReachTypes
<1>2. k \in Generators /\ k.labels = h.labels /\ Labelled(k, x) = Labelled(h, x)
  BY <1>1, ZeroFields, ZeroLabelled
<1>3. Reaches(bal, g, labels, open, k, more, Zeroed(q))
  BY ReachZero
<1>4. cmd.kind = "jump_unless" /\ cmd.x = x
  BY <1>1, JumpIs
<1>5. Emit(h, Goto(x)) = Emit(k, <<cmd>>) /\ SameScope(h, Emit(h, Goto(x)))
  BY <1>1, GotoIs
<1> HIDE DEF k
<1>6. Goes(bal, k, more, Zeroed(q), cmd, r)
  BY <1>1, <1>2, GotoGoes
<1> HIDE DEF cmd
<1>7. Reaches(bal, g, labels, open, Emit(k, <<cmd>>), more, r)
  BY <1>2, <1>3, <1>4, <1>6, ReachEmit
<1> QED BY <1>5, <1>7

LEMMA ReachGotoBack ==
    ASSUME NEW bal \in BOOLEAN, NEW g, NEW labels, NEW open, NEW h, NEW more, NEW q,
           NEW x \in 1 .. h.labels, NEW r \in Spot, r.fun \in 1 .. h.labels,
           Reaches(bal, g, labels, open, h, more, q),
           bal => more[x] = On(q.height, q.fun) /\ q.fun \in 1 .. g.labels,
           Labelled(h, x) = {Len(g.cmds) + 1}
    PROVE  /\ Reaches(bal, g, labels, open, Emit(h, Goto(x)), more, r)
           /\ SameScope(h, Emit(h, Goto(x)))
<1> DEFINE k == Emit(h, <<PushNull>>)
<1>1. h \in Generators /\ h.labels \in Nat /\ x \in Int /\ q.height \in Nat
  BY ReachTypes
<1>2. k \in Generators /\ k.labels = h.labels /\ Labelled(k, x) = Labelled(h, x)
  BY <1>1, ZeroFields, ZeroLabelled
<1>3. Reaches(bal, g, labels, open, k, more, Zeroed(q))
  BY ReachZero
<1>4. Emit(h, Goto(x)) = Emit(k, <<Cmd("jump_unless", x)>>) /\ SameScope(h, Emit(h, Goto(x)))
  BY <1>1, GotoIs
<1> HIDE DEF k
<1>5. Goes(bal, k, more, Zeroed(q), Cmd("jump_unless", x), r)
  BY <1>1, <1>2, GotoGoes
<1>6. bal => more[x].fun \in 1 .. g.labels
  BY DEF On
<1>7. Reaches(bal, g, labels, open, Emit(k, <<Cmd("jump_unless", x)>>), more, r)
  BY <1>2, <1>3, <1>5, <1>6, ReachBack
<1> QED BY <1>4, <1>7

LEMMA LabelSame ==
    ASSUME NEW h \in Generators, NEW x \in Int
    PROVE  LET k == Emit(h, <<Cmd("label", x)>>)
           IN SameScope(h, k) /\ k.labels = h.labels /\ k.funs = h.funs /\ k.scopes = h.scopes
<1>1. "label" \in Kinds
  BY DEF Kinds, Pushes
<1>2. Cmd("label", x) \in Command
  BY <1>1, CmdIs, Zenon
<1> QED BY <1>2, EmitFields DEF SameScope

---------------------------------------------------------------------------
(* The parts of the generator's state that the commands are not part of.   *)

LEMMA AddDataFields ==
    ASSUME NEW g \in Generators, NEW s \in Seq(Int)
    PROVE  LET h == AddData(g, s)
           IN /\ h \in Generators /\ SameScope(g, h)
              /\ h.cmds = g.cmds /\ h.labels = g.labels /\ h.funs = g.funs
              /\ h.scopes = g.scopes
<1> DEFINE data == AddedData(g.data, s)
           ok == g.ok /\ DataOK(s)
<1>1. g.data \in Seq(Int) /\ Separator \in Seq(Int)
  BY DEF Generators, Separator, Newline
<1>2. data \in Seq(Int) /\ ok \in BOOLEAN
  BY <1>1 DEF AddedData
<1>3. AddData(g, s) = [g EXCEPT !.data = data, !.ok = ok]
  BY DEF AddData, Generators
<1> HIDE DEF data, ok
<1> QED BY <1>2, <1>3 DEF Generators, SameScope

LEMMA PushScopeFields ==
    ASSUME NEW g \in Generators, g.scope \in DOMAIN g.scopes
    PROVE  LET h == PushScope(g)
               n == Len(g.scopes)
           IN /\ h \in Generators /\ h.scope = n + 1 /\ h.loops = g.loops
              /\ h.cmds = g.cmds /\ h.labels = g.labels /\ h.funs = g.funs
              /\ Len(h.scopes) = n + 1 /\ h.scope \in DOMAIN h.scopes /\ n \in Nat
              /\ h.scopes[n + 1].parent = g.scope
              /\ \A s \in DOMAIN g.scopes : h.scopes[s].parent = g.scopes[s].parent
<1> DEFINE scopes == Append(g.scopes, [parent |-> g.scope, len |-> 0])
           n == Len(g.scopes)
<1>1. /\ g.scopes \in Seq([parent : Nat, len : Nat]) /\ g.scope \in Nat /\ n \in Nat
      /\ DOMAIN g.scopes = 1 .. n
  BY DEF Generators
<1>2. [parent |-> g.scope, len |-> 0] \in [parent : Nat, len : Nat]
  BY <1>1
<1>3. /\ scopes \in Seq([parent : Nat, len : Nat]) /\ Len(scopes) = n + 1
      /\ DOMAIN scopes = 1 .. n + 1
      /\ scopes[n + 1] = [parent |-> g.scope, len |-> 0]
      /\ \A s \in DOMAIN g.scopes : scopes[s] = g.scopes[s]
  BY <1>1, <1>2
<1>4. PushScope(g) = [g EXCEPT !.scopes = scopes, !.scope = n + 1]
  BY DEF PushScope, Generators
<1> HIDE DEF scopes, n
<1>5. /\ PushScope(g) \in Generators /\ PushScope(g).scopes = scopes
      /\ PushScope(g).scope = n + 1 /\ PushScope(g).loops = g.loops
      /\ PushScope(g).cmds = g.cmds /\ PushScope(g).labels = g.labels
      /\ PushScope(g).funs = g.funs
  <2>1. n + 1 \in Nat
    BY <1>1
  <2> QED BY <2>1, <1>3, <1>4 DEF Generators
<1>6. n + 1 \in DOMAIN scopes /\ scopes[n + 1].parent = g.scope
  BY <1>1, <1>3
<1> QED BY <1>1, <1>3, <1>5, <1>6 DEF n

LEMMA AddLocalFields ==
    ASSUME NEW g \in Generators, g.scope \in DOMAIN g.scopes, NEW name \in STRING
    PROVE  LET h == AddLocal(g, name)
           IN /\ h \in Generators /\ SameScope(g, h)
              /\ h.cmds = g.cmds /\ h.labels = g.labels /\ h.funs = g.funs
              /\ Len(h.scopes) = Len(g.scopes) /\ DOMAIN h.scopes = DOMAIN g.scopes
              /\ \A s \in DOMAIN g.scopes : h.scopes[s].parent = g.scopes[s].parent
              /\ Last(h.locals).index \in Nat
<1> DEFINE scope == g.scopes[g.scope]
           local == [name |-> name, scope |-> g.scope, index |-> scope.len]
           locals == Append(g.locals, local)
           grown == [scope EXCEPT !.len = scope.len + 1]
           scopes == [g.scopes EXCEPT ![g.scope] = grown]
<1>1. /\ g.scopes \in Seq([parent : Nat, len : Nat]) /\ g.scope \in Nat
      /\ g.locals \in Seq([name : STRING, scope : Nat, index : Nat])
  BY DEF Generators
<1>2. scope \in [parent : Nat, len : Nat]
  <2> DEFINE Recs == [parent : Nat, len : Nat]
  <2>1. g.scopes \in Seq(Recs)
    BY <1>1
  <2> HIDE DEF Recs
  <2>2. scope \in Recs
    BY <2>1
  <2> QED BY <2>2 DEF Recs
<1>3. local \in [name : STRING, scope : Nat, index : Nat] /\ local.index \in Nat
  BY <1>1, <1>2
<1>4. grown \in [parent : Nat, len : Nat] /\ grown.parent = scope.parent
  BY <1>2
<1>5. /\ locals \in Seq([name : STRING, scope : Nat, index : Nat]) /\ Last(locals) = local
  BY <1>1, <1>3 DEF Last
<1>6. /\ scopes \in Seq([parent : Nat, len : Nat]) /\ Len(scopes) = Len(g.scopes)
      /\ DOMAIN scopes = DOMAIN g.scopes
      /\ \A s \in DOMAIN g.scopes : scopes[s].parent = g.scopes[s].parent
  <2> DEFINE Recs == [parent : Nat, len : Nat]
  <2>1. g.scopes \in Seq(Recs) /\ grown \in Recs /\ grown.parent = scope.parent
    BY <1>1, <1>4
  <2> HIDE DEF Recs, grown
  <2>2. scopes \in Seq(Recs) /\ Len(scopes) = Len(g.scopes) /\ DOMAIN scopes = DOMAIN g.scopes
    BY <2>1
  <2>3. \A s \in DOMAIN g.scopes : scopes[s].parent = g.scopes[s].parent
    BY <2>1
  <2> QED BY <2>2, <2>3 DEF Recs
<1>7. AddLocal(g, name) = [g EXCEPT !.locals = locals, !.scopes = scopes]
  BY DEF AddLocal, Generators
<1> HIDE DEF locals, scopes, local
<1>8. /\ AddLocal(g, name) \in Generators /\ AddLocal(g, name).scopes = scopes
      /\ AddLocal(g, name).locals = locals
  BY <1>5, <1>6, <1>7 DEF Generators
<1>9. /\ SameScope(g, AddLocal(g, name)) /\ AddLocal(g, name).cmds = g.cmds
      /\ AddLocal(g, name).labels = g.labels /\ AddLocal(g, name).funs = g.funs
  BY <1>7 DEF Generators, SameScope
<1> QED BY <1>3, <1>5, <1>6, <1>8, <1>9

---------------------------------------------------------------------------
(* What every gen_ function does.                                          *)

\* Whether the stack is looked at.
Bal(c) == c # "free"

LEMMA BalIs == ASSUME NEW c PROVE Bal(c) \in BOOLEAN
BY DEF Bal

\* The label where a break goes: at the height that it is found at.
BreakReady(g, labels, q) ==
    /\ g.loops # << >>
    /\ labels[Last(g.loops)] = On(q.height, q.fun)
    /\ Labelled(g, Last(g.loops)) = {}

Placed(c, g, labels, q) ==
    /\ c \in ReturnContexts \ {"free"} => q.height = 0
    /\ c \in {"main", "operand"} => g.loops = << >>
    /\ c \in {"loop", "inner"} => BreakReady(g, labels, q)

\* At q, where it finds a tree of the context c, it makes commands that leave one
\* value more.
Done(c, g, labels, q, h) ==
    /\ SameScope(g, h)
    /\ \E more : Reaches(Bal(c), g, labels, {}, h, more, On(q.height + 1, q.fun))

Before(c, g, labels, q) ==
    /\ Sound(Bal(c), g, labels, q) /\ q.zero = FALSE
    /\ Placed(c, g, labels, q)

Meets(gen, T) ==
    \A c \in Surroundings : \A e \in T[c] :
        \A g, labels, q : Before(c, g, labels, q) => Done(c, g, labels, q, gen[<<g, e>>])

\* A part of a node, some way into the commands of the node.
LEMMA ReachPart ==
    ASSUME NEW gen, NEW T, Meets(gen, T), NEW c, NEW d \in Surroundings, NEW e \in T[d],
           Bal(d) = Bal(c),
           NEW g, NEW labels, NEW open, NEW h, NEW more, NEW q,
           Reaches(Bal(c), g, labels, open, h, more, q), q.zero = FALSE,
           Placed(d, h, more, q)
    PROVE  /\ SameScope(h, gen[<<h, e>>])
           /\ \E last : /\ Reaches(Bal(c), g, labels, open, gen[<<h, e>>], last,
                                   On(q.height + 1, q.fun))
                        /\ \A x \in DOMAIN more : last[x] = more[x]
                        /\ Keeps(h, gen[<<h, e>>], {})
<1> DEFINE k == gen[<<h, e>>]
<1>1. Sound(Bal(d), h, more, q)
  BY DEF Reaches
<1>2. Before(d, h, more, q)
  BY <1>1 DEF Before
<1>3. Done(d, h, more, q, k)
  BY <1>2 DEF Meets
<1> HIDE DEF k
<1>4. PICK last : Reaches(Bal(d), h, more, {}, k, last, On(q.height + 1, q.fun))
  BY <1>3 DEF Done
<1>5. Reaches(Bal(c), h, more, {}, k, last, On(q.height + 1, q.fun))
  BY <1>4
<1>6. Reaches(Bal(c), g, labels, open, k, last, On(q.height + 1, q.fun))
  BY <1>5, ReachTrans
<1>7. (\A x \in DOMAIN more : last[x] = more[x]) /\ Keeps(h, k, {})
  BY <1>4 DEF Reaches
<1> QED BY <1>3, <1>6, <1>7 DEF Done, k

\* A part that stands as its node does.
LEMMA PlacedSame ==
    ASSUME NEW c, NEW bal, NEW g, NEW labels, NEW p, NEW open, NEW h, NEW more, NEW q,
           Sound(bal, g, labels, p), Placed(c, g, labels, p),
           Reaches(bal, g, labels, open, h, more, q), SameScope(g, h),
           q.height = p.height, q.fun = p.fun
    PROVE  Placed(c, h, more, q)
<1>1. Sound(bal, h, more, q) /\ Keeps(g, h, open) /\ \A x \in DOMAIN labels : more[x] = labels[x]
  BY DEF Reaches
<1>2. /\ g.labels \in Nat /\ Len(g.cmds) \in Nat /\ Len(h.cmds) \in Nat
      /\ DOMAIN g.cmds = 1 .. Len(g.cmds) /\ DOMAIN h.cmds = 1 .. Len(h.cmds)
      /\ DOMAIN labels = 1 .. g.labels
  BY <1>1, SoundState
<1>3. ASSUME BreakReady(g, labels, p) PROVE BreakReady(h, more, q)
  <2> DEFINE x == Last(g.loops)
  <2>1. x \in 1 .. g.labels
    <3>1. g.loops \in Seq(Nat) /\ g.loops # << >>
      BY <1>3 DEF BreakReady, Sound, Generators
    <3>2. Len(g.loops) \in DOMAIN g.loops
      BY <3>1
    <3> QED BY <3>2 DEF Sound, Last
  <2>2. Last(h.loops) = x /\ h.loops # << >>
    BY <1>3 DEF SameScope, BreakReady
  <2> HIDE DEF x
  <2>3. more[x] = labels[x]
    BY <1>1, <1>2, <2>1
  <2>4. Labelled(h, x) = Labelled(g, x)
    BY <1>1, <1>2, <2>1, LabelledKept
  <2>5. labels[x] = On(p.height, p.fun) /\ Labelled(g, x) = {}
    BY <1>3 DEF BreakReady, x
  <2> QED BY <2>2, <2>3, <2>4, <2>5 DEF BreakReady
<1> QED BY <1>3 DEF Placed, SameScope

\* A part that is computed while others wait.
LEMMA PlacedOperand ==
    ASSUME NEW c \in Surroundings, NEW g, NEW labels, NEW p, NEW h, NEW more, NEW q,
           Placed(c, g, labels, p), SameScope(g, h)
    PROVE  /\ Placed(AsOperand[c], h, more, q)
           /\ AsOperand[c] \in Surroundings /\ Bal(AsOperand[c]) = Bal(c)
BY DEF Placed, SameScope, AsOperand, Surroundings, ReturnContexts, Bal

\* Some way into the commands of a node, with all labels set.
Makes(c, g, labels, q, h, height) ==
    /\ SameScope(g, h)
    /\ \E more : Reaches(Bal(c), g, labels, {}, h, more, On(height, q.fun))

LEMMA OnIs ==
    ASSUME NEW height, NEW fun
    PROVE  /\ On(height, fun).height = height /\ On(height, fun).fun = fun
           /\ On(height, fun).zero = FALSE
BY DEF On

LEMMA MakesDone ==
    ASSUME NEW c, NEW g, NEW labels, NEW q, NEW h, Makes(c, g, labels, q, h, q.height + 1)
    PROVE  Done(c, g, labels, q, h)
BY DEF Makes, Done

LEMMA DoneMakes ==
    ASSUME NEW c, NEW g, NEW labels, NEW q, NEW h, Done(c, g, labels, q, h)
    PROVE  Makes(c, g, labels, q, h, q.height + 1)
BY DEF Makes, Done

LEMMA SpotIs ==
    ASSUME NEW q \in Spot, q.zero = FALSE
    PROVE  q = On(q.height, q.fun)
BY DEF Spot, On

LEMMA BeforeTypes ==
    ASSUME NEW c, NEW g, NEW labels, NEW q, Before(c, g, labels, q)
    PROVE  /\ Sound(Bal(c), g, labels, q)
           /\ g \in Generators /\ g.labels \in Nat /\ g.scope \in DOMAIN g.scopes
           /\ q \in Spot /\ q.height \in Nat /\ q.fun \in 1 .. g.labels /\ q.zero = FALSE
           /\ q = On(q.height, q.fun)
<1>1. Sound(Bal(c), g, labels, q) /\ q.zero = FALSE
  BY DEF Before
<1>2. q \in Spot /\ q.fun \in 1 .. g.labels
  BY <1>1 DEF Sound
<1>3. q.height \in Nat /\ q = On(q.height, q.fun)
  BY <1>1, <1>2 DEF Spot, On
<1> QED BY <1>1, <1>2, <1>3, SoundState

LEMMA MakesTypes ==
    ASSUME NEW c, NEW g, NEW labels, NEW q, NEW h, NEW height, Makes(c, g, labels, q, h, height)
    PROVE  /\ h \in Generators /\ SameScope(g, h) /\ h.labels \in Nat /\ height \in Nat
           /\ h.scope \in DOMAIN h.scopes
<1>1. PICK more : Reaches(Bal(c), g, labels, {}, h, more, On(height, q.fun))
  BY DEF Makes
<1>2. /\ h \in Generators /\ h.labels \in Nat /\ On(height, q.fun).height \in Nat
      /\ h.scope \in DOMAIN h.scopes
  BY <1>1, ReachTypes
<1>3. On(height, q.fun).height = height
  BY DEF On
<1> QED BY <1>2, <1>3 DEF Makes

LEMMA MakesSelf ==
    ASSUME NEW c, NEW g, NEW labels, NEW q, Before(c, g, labels, q)
    PROVE  Makes(c, g, labels, q, g, q.height)
<1>1. Reaches(Bal(c), g, labels, {}, g, labels, On(q.height, q.fun))
  BY BeforeTypes, ReachSelf
<1> QED BY <1>1 DEF Makes, SameScope

LEMMA MakesPlain ==
    ASSUME NEW c, NEW g, NEW labels, NEW q, NEW h, NEW before, NEW cmd \in Command, NEW height \in Nat,
           Makes(c, g, labels, q, h, before), Known(h, cmd),
           cmd.kind \notin {"label", "jump_unless"},
           PopsOf(cmd) <= before,
           Bal(c) /\ cmd.kind = "return" => before = 1,
           cmd.kind \notin {"return", "err"} =>
               height = before - PopsOf(cmd) + Pushes[cmd.kind]
    PROVE  Makes(c, g, labels, q, Emit(h, <<cmd>>), height)
<1> DEFINE r == On(before, q.fun)
           bal == Bal(c)
<1>1. PICK more : Reaches(bal, g, labels, {}, h, more, r)
  BY DEF Makes
<1>2. r.height = before /\ r.fun = q.fun /\ bal \in BOOLEAN
  BY BalIs DEF On
<1>3. PopsOf(cmd) <= r.height /\ (bal /\ cmd.kind = "return" => r.height = 1)
      /\ (cmd.kind \notin {"return", "err"} =>
              height = r.height - PopsOf(cmd) + Pushes[cmd.kind])
  BY <1>2
<1> HIDE DEF r, bal
<1>4. /\ Reaches(bal, g, labels, {}, Emit(h, <<cmd>>), more, On(height, q.fun))
      /\ SameScope(h, Emit(h, <<cmd>>))
  BY <1>1, <1>2, <1>3, ReachPlain
<1> QED BY <1>4 DEF Makes, SameScope, bal

LEMMA MakesPart ==
    ASSUME NEW gen, NEW T, Meets(gen, T), NEW c \in Surroundings, NEW e \in T[c],
           NEW g, NEW labels, NEW q, NEW h,
           Before(c, g, labels, q), Makes(c, g, labels, q, h, q.height)
    PROVE  Makes(c, g, labels, q, gen[<<h, e>>], q.height + 1)
<1> DEFINE r == On(q.height, q.fun)
<1>1. PICK more : Reaches(Bal(c), g, labels, {}, h, more, r)
  BY DEF Makes
<1>2. r.height = q.height /\ r.fun = q.fun /\ r.zero = FALSE
  BY DEF On
<1> HIDE DEF r
<1>3. Placed(c, h, more, r)
  <2>1. Sound(Bal(c), g, labels, q) /\ Placed(c, g, labels, q)
    BY DEF Before
  <2>2. SameScope(g, h)
    BY DEF Makes
  <2> QED BY <1>1, <1>2, <2>1, <2>2, PlacedSame
<1>4. /\ SameScope(h, gen[<<h, e>>])
      /\ \E last : Reaches(Bal(c), g, labels, {}, gen[<<h, e>>], last, On(r.height + 1, r.fun))
  BY <1>1, <1>2, <1>3, ReachPart
<1>5. SameScope(g, gen[<<h, e>>])
  BY <1>4 DEF Makes, SameScope
<1>6. On(r.height + 1, r.fun) = On(q.height + 1, q.fun)
  BY <1>2
<1> QED BY <1>4, <1>5, <1>6 DEF Makes

LEMMA MakesOperand ==
    ASSUME NEW gen, NEW T, Meets(gen, T), NEW c \in Surroundings, NEW e \in T[AsOperand[c]],
           NEW g, NEW labels, NEW q, NEW h, NEW height,
           Before(c, g, labels, q), Makes(c, g, labels, q, h, height)
    PROVE  Makes(c, g, labels, q, gen[<<h, e>>], height + 1)
<1> DEFINE r == On(height, q.fun)
           d == AsOperand[c]
<1>1. PICK more : Reaches(Bal(c), g, labels, {}, h, more, r)
  BY DEF Makes
<1>2. r.height = height /\ r.fun = q.fun /\ r.zero = FALSE
  BY DEF On
<1> HIDE DEF r
<1>3. Placed(d, h, more, r) /\ d \in Surroundings /\ Bal(d) = Bal(c)
  BY PlacedOperand DEF Before, Makes
<1>4. e \in T[d]
  OBVIOUS
<1> HIDE DEF d
<1>5. /\ SameScope(h, gen[<<h, e>>])
      /\ \E last : Reaches(Bal(c), g, labels, {}, gen[<<h, e>>], last, On(r.height + 1, r.fun))
  BY <1>1, <1>2, <1>3, <1>4, ReachPart
<1>6. SameScope(g, gen[<<h, e>>])
  BY <1>5 DEF Makes, SameScope
<1>7. On(r.height + 1, r.fun) = On(height + 1, q.fun)
  BY <1>2
<1> QED BY <1>5, <1>6, <1>7 DEF Makes

\* What concerns neither commands, labels nor functions.
LEMMA MakesSame ==
    ASSUME NEW c, NEW g, NEW labels, NEW q, NEW h, NEW height, NEW k \in Generators,
           Makes(c, g, labels, q, h, height), SameScope(h, k),
           k.cmds = h.cmds, k.labels = h.labels, k.funs = h.funs,
           Len(h.scopes) <= Len(k.scopes), k.scope \in DOMAIN k.scopes,
           \A s \in DOMAIN h.scopes : k.scopes[s].parent = h.scopes[s].parent
    PROVE  Makes(c, g, labels, q, k, height)
<1>1. PICK more : Reaches(Bal(c), g, labels, {}, h, more, On(height, q.fun))
  BY DEF Makes
<1>2. \A l \in DOMAIN k.loops : k.loops[l] \in 1 .. k.labels
  BY <1>1 DEF Reaches, Sound, SameScope
<1>3. Reaches(Bal(c), g, labels, {}, k, more, On(height, q.fun))
  BY <1>1, <1>2, ReachSame
<1> QED BY <1>3 DEF Makes, SameScope

\* The commands by what they take from the stack and leave on it.
Kinds01 == {"push_int", "push_str", "push_array", "push_env"}
Kinds11 == {"local_var", "cell_get"}
Steps(kind, before, after) ==
    \/ kind \in Kinds01 /\ after = before + 1
    \/ kind \in Kinds11 /\ 1 <= before /\ after = before
    \/ kind = "cell_set" /\ 2 <= before /\ after = before - 1
    \/ kind = "pop" /\ 1 <= before /\ after = before - 1
    \/ kind = "swap" /\ 2 <= before /\ after = before
    \/ kind = "dup" /\ 1 <= before /\ after = before + 1

LEMMA MakesCmd ==
    ASSUME NEW c, NEW g, NEW labels, NEW q, NEW h, NEW before, NEW kind, NEW x \in Int, NEW after,
           Makes(c, g, labels, q, h, before), Steps(kind, before, after),
           kind \in {"push_env", "local_var"} => x \in Nat
    PROVE  Makes(c, g, labels, q, Emit(h, <<Cmd(kind, x)>>), after)
<1> DEFINE cmd == Cmd(kind, x)
<1>1. before \in Nat
  BY MakesTypes
<1>2. kind \in Kinds01 \cup Kinds11 \cup {"cell_set", "pop", "swap", "dup"}
  BY DEF Steps
<1>3. kind \in Kinds
  BY <1>2 DEF Kinds, Pushes, Kinds01, Kinds11
<1>4. cmd \in Command /\ cmd.kind = kind /\ cmd.x = x
  BY <1>3, CmdIs
<1> HIDE DEF cmd
<1>5. PopsOf(cmd) = Pops[kind]
  BY <1>2, <1>4 DEF PopsOf, Kinds01, Kinds11
<1>6. Pops[kind] <= before /\ after = before - Pops[kind] + Pushes[kind] /\ after \in Nat
  BY <1>1 DEF Steps, Kinds01, Kinds11, Pops, Pushes
<1>7. Known(h, cmd)
  BY <1>2, <1>4 DEF Known, Kinds01, Kinds11, Pushes
<1>8. cmd.kind \notin {"label", "jump_unless", "return", "err"}
  BY <1>2, <1>4 DEF Kinds01, Kinds11
<1>9. Makes(c, g, labels, q, Emit(h, <<cmd>>), after)
  BY <1>4, <1>5, <1>6, <1>7, <1>8, MakesPlain
<1> QED BY <1>9 DEF cmd

LEMMA MakesOp ==
    ASSUME NEW c, NEW g, NEW labels, NEW q, NEW h, NEW before, NEW op \in Ops \cup {"array_push", "index_ref"},
           Makes(c, g, labels, q, h, before), 2 <= before
    PROVE  Makes(c, g, labels, q, Emit(h, <<Op(op)>>), before - 1)
<1> DEFINE cmd == Op(op)
<1>1. before \in Nat
  BY MakesTypes
<1>2. cmd \in Command /\ cmd.kind = "op"
  BY OpIs
<1> HIDE DEF cmd
<1>3. PopsOf(cmd) = 2 /\ Pushes[cmd.kind] = 1 /\ Known(h, cmd)
  BY <1>2 DEF PopsOf, Pops, Pushes, Known
<1>4. /\ PopsOf(cmd) <= before /\ before - 1 = before - PopsOf(cmd) + Pushes[cmd.kind]
      /\ before - 1 \in Nat
  BY <1>1, <1>3
<1>5. Makes(c, g, labels, q, Emit(h, <<cmd>>), before - 1)
  BY <1>2, <1>3, <1>4, MakesPlain
<1> QED BY <1>5 DEF cmd

LEMMA MakesErr ==
    ASSUME NEW c, NEW g, NEW labels, NEW q, NEW h, NEW before, NEW after \in Nat,
           Makes(c, g, labels, q, h, before)
    PROVE  Makes(c, g, labels, q, EmitErr(h, Message), after)
<1> DEFINE k == AddData(h, Message)
           x == Len(h.data)
           cmd == Cmd("err", x)
<1>1. before \in Nat /\ h \in Generators /\ h.scope \in DOMAIN h.scopes /\ x \in Nat
  BY MakesTypes DEF Generators
<1>2. Message \in Seq(Int)
  BY DEF Message
<1>3. /\ k \in Generators /\ SameScope(h, k)
      /\ k.cmds = h.cmds /\ k.labels = h.labels /\ k.funs = h.funs /\ k.scopes = h.scopes
  BY <1>1, <1>2, AddDataFields
<1> HIDE DEF k
<1>4. Makes(c, g, labels, q, k, before)
  <2>1. k.scope \in DOMAIN k.scopes /\ Len(h.scopes) <= Len(k.scopes)
    BY <1>1, <1>3 DEF SameScope, Generators
  <2> QED BY <1>3, <2>1, MakesSame
<1>5. cmd \in Command /\ cmd.kind = "err"
  <2>1. "err" \in Kinds
    BY DEF Kinds, Pushes
  <2> QED BY <1>1, <2>1, CmdIs
<1> HIDE DEF cmd
<1>6. PopsOf(cmd) = 0 /\ Known(k, cmd)
  BY <1>5 DEF PopsOf, Pops, Pushes, Known
<1>7. Makes(c, g, labels, q, Emit(k, <<cmd>>), after)
  BY <1>1, <1>4, <1>5, <1>6, MakesPlain
<1> QED BY <1>7 DEF cmd, k, EmitErr

---------------------------------------------------------------------------
(* The nodes without labels.                                               *)

LEMMA MinIn == ASSUME NEW S, S \subseteq Nat, S # {} PROVE Min(S) \in S
BY LeastNumber DEF Min

LEMMA MakesCell ==
    ASSUME NEW c, NEW g, NEW labels, NEW q, NEW h, NEW before, NEW index \in Nat, NEW level \in Nat,
           Makes(c, g, labels, q, h, before)
    PROVE  Makes(c, g, labels, q, Emit(h, CellOf(index, level)), before + 1)
<1> DEFINE a == Cmd("push_env", level)
           b == Cmd("local_var", index)
<1>1. before \in Nat /\ h \in Generators
  BY MakesTypes
<1>2. a \in Command /\ b \in Command
  <2>1. "push_env" \in Kinds /\ "local_var" \in Kinds
    BY DEF Kinds, Pushes
  <2> QED BY <2>1, CmdIs
<1>3. Steps("push_env", before, before + 1) /\ Steps("local_var", before + 1, before + 1)
  BY <1>1 DEF Steps, Kinds01, Kinds11
<1>4. Makes(c, g, labels, q, Emit(h, <<a>>), before + 1)
  BY <1>3, MakesCmd
<1>5. Makes(c, g, labels, q, Emit(Emit(h, <<a>>), <<b>>), before + 1)
  BY <1>3, <1>4, MakesCmd
<1>6. CellOf(index, level) = <<a, b>>
  BY DEF CellOf
<1> HIDE DEF a, b
<1>7. Emit(h, CellOf(index, level)) = Emit(Emit(h, <<a>>), <<b>>)
  BY <1>1, <1>2, <1>6, EmitTwo
<1> QED BY <1>5, <1>7

LEMMA MakesIdent ==
    ASSUME NEW c, NEW g, NEW labels, NEW q, NEW h, NEW before, NEW e, NEW lval \in BOOLEAN,
           Makes(c, g, labels, q, h, before), Externs \in Seq(STRING)
    PROVE  Makes(c, g, labels, q, GenIdent(h, e, lval), before + 1)
<1> DEFINE found == InSight(h, e.name)
           level == Min({f[1] : f \in found})
           first == Min({f[2] : f \in {f \in found : f[1] = level}})
           index == h.locals[first].index
           cell == Emit(h, CellOf(index, level))
<1>1. before \in Nat /\ h \in Generators
  BY MakesTypes
<1>2. CASE found # {}
  <2>1. /\ h.locals \in Seq([name : STRING, scope : Nat, index : Nat])
        /\ Len(h.scopes) \in Nat /\ Len(h.locals) \in Nat
        /\ DOMAIN h.locals = 1 .. Len(h.locals)
    BY <1>1 DEF Generators
  <2>2. found \subseteq (0 .. Len(h.scopes)) \X (DOMAIN h.locals)
    BY DEF InSight
  <2> HIDE DEF found
  <2>3. level \in {f[1] : f \in found} /\ level \in Nat
    <3>1. {f[1] : f \in found} \subseteq Nat /\ {f[1] : f \in found} # {}
      BY <1>2, <2>1, <2>2
    <3>2. level \in {f[1] : f \in found}
      BY <3>1, MinIn
    <3> QED BY <3>1, <3>2
  <2> HIDE DEF level
  <2>4. first \in DOMAIN h.locals
    <3> DEFINE firsts == {f[2] : f \in {f \in found : f[1] = level}}
    <3>1. firsts \subseteq Nat /\ firsts # {} /\ firsts \subseteq DOMAIN h.locals
      BY <2>1, <2>2, <2>3
    <3>2. first \in firsts
      <4> HIDE DEF firsts
      <4> QED BY <3>1, MinIn DEF firsts
    <3> QED BY <3>1, <3>2
  <2> HIDE DEF first
  <2>5. index \in Nat
    <3> DEFINE Recs == [name : STRING, scope : Nat, index : Nat]
    <3>1. \A x \in Recs : x.index \in Nat
      OBVIOUS
    <3>2. h.locals \in Seq(Recs)
      BY <2>1
    <3> HIDE DEF Recs
    <3>3. h.locals[first] \in Recs
      BY <2>4, <3>2
    <3> QED BY <3>1, <3>3
  <2> HIDE DEF index
  <2>6. Makes(c, g, labels, q, cell, before + 1)
    BY <2>3, <2>5, MakesCell
  <2> HIDE DEF cell
  <2>7. Makes(c, g, labels, q, Emit(cell, <<Cmd("cell_get", 0)>>), before + 1)
    <3>1. Steps("cell_get", before + 1, before + 1)
      BY <1>1 DEF Steps, Kinds11
    <3> QED BY <2>6, <3>1, MakesCmd
  <2>8. GenIdent(h, e, lval) = IF lval THEN cell ELSE Emit(cell, <<Cmd("cell_get", 0)>>)
    BY <1>2 DEF GenIdent, found, level, first, index, cell
  <2> QED BY <2>6, <2>7, <2>8
<1>3. CASE found = {} /\ ~lval /\ e.name \in ToSet(Externs)
  <2> DEFINE n == CHOOSE i \in DOMAIN Externs : Externs[i] = e.name
             cmd == Cmd("push_extern", n)
  <2>1. n \in DOMAIN Externs /\ n \in Int
    BY <1>3 DEF ToSet
  <2> HIDE DEF n
  <2>2. cmd \in Command /\ cmd.kind = "push_extern" /\ cmd.x = n
    <3>1. "push_extern" \in Kinds
      BY DEF Kinds, Pushes
    <3> QED BY <2>1, <3>1, CmdIs
  <2>3. GenIdent(h, e, lval) = Emit(h, <<cmd>>)
    BY <1>3 DEF GenIdent, n
  <2> HIDE DEF cmd, found
  <2>4. PopsOf(cmd) = 0 /\ Pushes[cmd.kind] = 1 /\ Known(h, cmd)
    BY <2>1, <2>2 DEF PopsOf, Pops, Pushes, Known
  <2>5. PopsOf(cmd) <= before /\ before + 1 = before - PopsOf(cmd) + Pushes[cmd.kind]
    BY <1>1, <2>4
  <2>6. before + 1 \in Nat
    BY <1>1
  <2>7. Makes(c, g, labels, q, Emit(h, <<cmd>>), before + 1)
    BY <2>2, <2>4, <2>5, <2>6, MakesPlain
  <2> QED BY <2>3, <2>7
<1>4. CASE found = {} /\ ~(~lval /\ e.name \in ToSet(Externs))
  <2>1. GenIdent(h, e, lval) = EmitErr(h, Message)
    BY <1>4 DEF GenIdent
  <2>2. before + 1 \in Nat
    BY <1>1
  <2> QED BY <2>1, <2>2, MakesErr
<1> QED BY <1>2, <1>3, <1>4

\* Operands one after the other.
LEMMA MakesTwo ==
    ASSUME NEW gen, NEW T, Meets(gen, T), NEW c \in Surroundings, NEW a \in T[c],
           NEW b \in T[AsOperand[c]], NEW g, NEW labels, NEW q, Before(c, g, labels, q)
    PROVE  Makes(c, g, labels, q, gen[<<gen[<<g, a>>], b>>], q.height + 2)
<1>1. Makes(c, g, labels, q, gen[<<g, a>>], q.height + 1)
  BY MakesSelf, MakesPart
<1>2. Makes(c, g, labels, q, gen[<<gen[<<g, a>>], b>>], (q.height + 1) + 1)
  BY <1>1, MakesOperand
<1>3. q.height \in Nat
  BY BeforeTypes, Zenon
<1>4. (q.height + 1) + 1 = q.height + 2
  BY <1>3
<1> QED BY <1>2, <1>4

LEMMA MakesBinary ==
    ASSUME NEW gen, NEW T, Meets(gen, T), NEW c \in Surroundings,
           NEW e, e.l \in T[c], e.r \in T[AsOperand[c]],
           NEW op \in Ops \cup {"array_push", "index_ref"},
           NEW g, NEW labels, NEW q, Before(c, g, labels, q)
    PROVE  Makes(c, g, labels, q, GenBinary(gen, g, e, <<Op(op)>>), q.height + 1)
<1>1. Makes(c, g, labels, q, gen[<<gen[<<g, e.l>>], e.r>>], q.height + 2)
  BY MakesTwo
<1>2. q.height \in Nat
  BY BeforeTypes, Zenon
<1>3. 2 <= q.height + 2 /\ (q.height + 2) - 1 = q.height + 1
  BY <1>2
<1>4. Makes(c, g, labels, q, Emit(gen[<<gen[<<g, e.l>>], e.r>>], <<Op(op)>>), q.height + 1)
  BY <1>1, <1>3, MakesOp
<1> QED BY <1>4 DEF GenBinary

\* The cell that is written.
LEMMA MakesLval ==
    ASSUME NEW gen, NEW T, Meets(gen, T), Layered(T), NEW c \in Surroundings, NEW e \in T[c],
           NEW g, NEW labels, NEW q, Before(c, g, labels, q), Externs \in Seq(STRING)
    PROVE  Makes(c, g, labels, q, GenLval(gen, g, e), q.height + 1)
<1>1. Makes(c, g, labels, q, g, q.height)
  BY MakesSelf
<1>2. CASE e.kind = "ident"
  BY <1>1, <1>2, MakesIdent DEF GenLval
<1>3. CASE e.kind = "op" /\ e.op = "index"
  <2>1. e \in Nodes(T, c)
    BY DEF Layered
  <2>2. e.l \in T[c] /\ e.r \in T[AsOperand[c]]
    BY <1>3, <2>1 DEF Nodes
  <2>3. Makes(c, g, labels, q, GenBinary(gen, g, e, <<Op("index_ref")>>), q.height + 1)
    BY <2>2, MakesBinary
  <2>4. e.kind # "ident"
    BY <1>3
  <2> QED BY <1>3, <2>3, <2>4 DEF GenLval
<1>4. CASE e.kind # "ident" /\ ~(e.kind = "op" /\ e.op = "index")
  <2>1. q.height \in Nat
    BY BeforeTypes, Zenon
  <2>2. q.height + 1 \in Nat
    BY <2>1
  <2>3. Makes(c, g, labels, q, EmitErr(g, Message), q.height + 1)
    BY <1>1, <2>2, MakesErr
  <2> QED BY <1>4, <2>3 DEF GenLval
<1> QED BY <1>2, <1>3, <1>4

\* What a node is made of.
LEMMA NodeIs ==
    ASSUME NEW T, NEW c, NEW e \in Nodes(T, c)
    PROVE  /\ e.kind \in {"int", "str", "ident", "err", "array", "call", "fun", "op", "let", "if",
                          "while", "break", "return"}
           /\ e.kind = "int" => e.val \in Int
           /\ e.kind = "str" => e.text \in Seq(Int)
           /\ e.kind = "ident" => e.name \in STRING
           /\ e.kind = "array" => e.subs \in Seq(T[AsOperand[c]])
           /\ e.kind = "call" => e.l \in T[c] /\ e.subs \in Seq(T[AsOperand[c]])
           /\ e.kind = "fun" => e.l \in T[AsBody[c]] /\ e.subs \in Seq(T[AsOperand[c]])
           /\ e.kind = "let" => e.name \in STRING /\ e.l \in T[c]
           /\ e.kind = "if" => e.cond \in T[c] /\ e.l \in T[c] /\ e.r \in T[c]
           /\ e.kind = "while" => e.cond \in T[AsLoop[c]] /\ e.l \in T[AsLoop[c]]
           /\ e.kind = "break" => c \in BreakContexts
           /\ e.kind = "return" => c \in ReturnContexts /\ e.l \in T[c]
<1> DEFINE operands == Seq(T[AsOperand[c]])
           chars == Seq(Int)
           names == STRING
<1>1. \/ e \in [kind : {"int"}, val : Int]
      \/ e \in [kind : {"str"}, text : chars]
      \/ e \in [kind : {"ident", "err"}, name : names]
      \/ e \in [kind : {"array"}, subs : operands]
      \/ e \in [kind : {"call"}, l : T[c], subs : operands]
      \/ e \in [kind : {"fun"}, l : T[AsBody[c]], subs : operands]
      \/ e \in [kind : {"op"}, op : Ops, l : T[c], r : T[AsOperand[c]]]
      \/ e \in [kind : {"op"}, op : {"semi", "log_or", "log_and"}, l : T[c], r : T[c]]
      \/ e \in [kind : {"let"}, name : names, l : T[c]]
      \/ e \in [kind : {"if"}, cond : T[c], l : T[c], r : T[c]]
      \/ e \in [kind : {"while"}, cond : T[AsLoop[c]], l : T[AsLoop[c]]]
      \/ e \in [kind : IF c \in BreakContexts THEN {"break"} ELSE {}]
      \/ e \in [kind : IF c \in ReturnContexts THEN {"return"} ELSE {}, l : T[c]]
  BY DEF Nodes
<1> HIDE DEF operands, chars, names
<1>2. /\ e.kind \in {"int", "str", "ident", "err", "array", "call", "fun", "op", "let", "if",
                     "while", "break", "return"}
      /\ e.kind = "int" => e.val \in Int
      /\ e.kind = "str" => e.text \in chars
      /\ e.kind = "ident" => e.name \in names
      /\ e.kind = "array" => e.subs \in operands
      /\ e.kind = "call" => e.l \in T[c] /\ e.subs \in operands
      /\ e.kind = "fun" => e.l \in T[AsBody[c]] /\ e.subs \in operands
      /\ e.kind = "let" => e.name \in names /\ e.l \in T[c]
      /\ e.kind = "if" => e.cond \in T[c] /\ e.l \in T[c] /\ e.r \in T[c]
      /\ e.kind = "while" => e.cond \in T[AsLoop[c]] /\ e.l \in T[AsLoop[c]]
      /\ e.kind = "break" => c \in BreakContexts
      /\ e.kind = "return" => c \in ReturnContexts /\ e.l \in T[c]
  BY <1>1
<1> QED BY <1>2 DEF operands, chars, names

LEMMA NodeOp ==
    ASSUME NEW T, NEW c, NEW e \in Nodes(T, c), e.kind = "op"
    PROVE  /\ e.op \in Ops /\ e.l \in T[c]
           /\ \/ e.r \in T[AsOperand[c]]
              \/ e.op \in {"semi", "log_or", "log_and"} /\ e.r \in T[c]
BY DEF Nodes, Ops

LEMMA MakesInt ==
    ASSUME NEW c, NEW g, NEW labels, NEW q, Before(c, g, labels, q), NEW n \in Int
    PROVE  Makes(c, g, labels, q, Emit(g, <<Cmd("push_int", n)>>), q.height + 1)
<1>1. Makes(c, g, labels, q, g, q.height)
  BY MakesSelf
<1>2. Steps("push_int", q.height, q.height + 1)
  BY DEF Steps, Kinds01
<1> QED BY <1>1, <1>2, MakesCmd

LEMMA MakesStr ==
    ASSUME NEW c, NEW g, NEW labels, NEW q, Before(c, g, labels, q), NEW s \in Seq(Int)
    PROVE  Makes(c, g, labels, q, Emit(AddData(g, s), <<Cmd("push_str", Len(g.data))>>),
                 q.height + 1)
<1> DEFINE h == AddData(g, s)
<1>1. Makes(c, g, labels, q, g, q.height)
  BY MakesSelf
<1>2. g \in Generators /\ g.scope \in DOMAIN g.scopes
  BY BeforeTypes, Zenon
<1>3. /\ h \in Generators /\ SameScope(g, h)
      /\ h.cmds = g.cmds /\ h.labels = g.labels /\ h.funs = g.funs
      /\ h.scopes = g.scopes
  BY <1>2, AddDataFields
<1>4. Len(g.data) \in Int /\ Len(g.scopes) \in Nat
  BY <1>2 DEF Generators
<1> HIDE DEF h
<1>5. h.scope \in DOMAIN h.scopes /\ Len(g.scopes) <= Len(h.scopes)
  BY <1>2, <1>3, <1>4 DEF SameScope
<1>6. Makes(c, g, labels, q, h, q.height)
  BY <1>1, <1>3, <1>5, MakesSame
<1>7. Steps("push_str", q.height, q.height + 1)
  BY DEF Steps, Kinds01
<1>8. Makes(c, g, labels, q, Emit(h, <<Cmd("push_str", Len(g.data))>>), q.height + 1)
  BY <1>4, <1>6, <1>7, MakesCmd
<1> QED BY <1>8 DEF h

LEMMA MakesItems ==
    ASSUME NEW gen, NEW T, Meets(gen, T), NEW c \in Surroundings,
           NEW e, e.subs \in Seq(T[AsOperand[c]]),
           NEW g, NEW labels, NEW q, Before(c, g, labels, q),
           NEW h, NEW height, Makes(c, g, labels, q, h, height), 1 <= height
    PROVE  Makes(c, g, labels, q, GenItems(gen, h, e), height)
<1> DEFINE n == Len(e.subs)
           step == [x \in (DOMAIN e.subs) \X Generators |-> GenItem(gen, x[2], e.subs[x[1]])]
           S == [i \in 0 .. n |-> {k \in Generators : Makes(c, g, labels, q, k, height)}]
<1>1. h \in Generators /\ height \in Nat
  BY MakesTypes
<1>2. n \in Nat /\ DOMAIN e.subs = 1 .. n
  OBVIOUS
<1>3. h \in S[0]
  BY <1>1, <1>2
<1>4. ASSUME NEW i \in 1 .. n, NEW k \in S[i - 1] PROVE step[<<i, k>>] \in S[i]
  <2>1. k \in Generators /\ Makes(c, g, labels, q, k, height)
    BY <1>4
  <2>2. i \in DOMAIN e.subs /\ e.subs[i] \in T[AsOperand[c]]
    BY <1>2
  <2> HIDE DEF S
  <2>3. step[<<i, k>>] = Emit(gen[<<k, e.subs[i]>>], <<Op("array_push")>>)
    BY <2>1, <2>2 DEF GenItem
  <2> HIDE DEF step
  <2>4. Makes(c, g, labels, q, gen[<<k, e.subs[i]>>], height + 1)
    BY <2>1, <2>2, MakesOperand
  <2>5. 2 <= height + 1 /\ (height + 1) - 1 = height
    BY <1>1
  <2>6. Makes(c, g, labels, q, Emit(gen[<<k, e.subs[i]>>], <<Op("array_push")>>), height)
    BY <2>4, <2>5, MakesOp
  <2>7. step[<<i, k>>] \in Generators /\ Makes(c, g, labels, q, step[<<i, k>>], height)
    BY <2>3, <2>6, MakesTypes
  <2> QED BY <2>7, <1>2 DEF S
<1>5. GenItems(gen, h, e) = Repeat(step, n, h)
  BY DEF GenItems
<1> HIDE DEF step, S, n
<1>6. Repeat(step, n, h) \in S[n]
  BY <1>2, <1>3, <1>4, RepeatHolds
<1>7. n \in 0 .. n
  BY <1>2
<1> QED BY <1>5, <1>6, <1>7 DEF S

LEMMA MakesArgs ==
    ASSUME NEW gen, NEW T, Meets(gen, T), NEW c \in Surroundings,
           NEW e, e.subs \in Seq(T[AsOperand[c]]),
           NEW g, NEW labels, NEW q, Before(c, g, labels, q),
           NEW h, NEW height, Makes(c, g, labels, q, h, height)
    PROVE  Makes(c, g, labels, q, GenArgs(gen, h, e), height + Len(e.subs))
<1> DEFINE n == Len(e.subs)
           step == [x \in (DOMAIN e.subs) \X Generators |-> gen[<<x[2], e.subs[x[1]]>>]]
           S == [i \in 0 .. n |-> {k \in Generators : Makes(c, g, labels, q, k, height + i)}]
<1>1. h \in Generators /\ height \in Nat
  BY MakesTypes
<1>2. n \in Nat /\ DOMAIN e.subs = 1 .. n
  OBVIOUS
<1>3. h \in S[0]
  <2>1. height + 0 = height /\ 0 \in 0 .. n
    BY <1>1, <1>2
  <2>2. Makes(c, g, labels, q, h, height + 0)
    BY <2>1
  <2> QED BY <1>1, <2>1, <2>2
<1>4. ASSUME NEW i \in 1 .. n, NEW k \in S[i - 1] PROVE step[<<i, k>>] \in S[i]
  <2>1. k \in Generators /\ Makes(c, g, labels, q, k, height + (i - 1))
    BY <1>2, <1>4
  <2>2. i \in DOMAIN e.subs /\ e.subs[i] \in T[AsOperand[c]] /\ i \in 0 .. n
    BY <1>2
  <2> HIDE DEF S
  <2>3. step[<<i, k>>] = gen[<<k, e.subs[i]>>]
    BY <2>1, <2>2
  <2> HIDE DEF step
  <2>4. Makes(c, g, labels, q, gen[<<k, e.subs[i]>>], (height + (i - 1)) + 1)
    BY <2>1, <2>2, MakesOperand
  <2>5. (height + (i - 1)) + 1 = height + i
    BY <1>1, <1>2
  <2>6. Makes(c, g, labels, q, gen[<<k, e.subs[i]>>], height + i)
    BY <2>4, <2>5
  <2>7. step[<<i, k>>] \in Generators /\ Makes(c, g, labels, q, step[<<i, k>>], height + i)
    BY <2>3, <2>6, MakesTypes
  <2> QED BY <2>2, <2>7 DEF S
<1>5. GenArgs(gen, h, e) = Repeat(step, n, h)
  BY DEF GenArgs
<1> HIDE DEF step, S
<1>6. Repeat(step, n, h) \in S[n]
  <2> HIDE DEF n
  <2> QED BY <1>2, <1>3, <1>4, RepeatHolds
<1>7. n \in 0 .. n
  BY <1>2
<1> QED BY <1>5, <1>6, <1>7 DEF S

LEMMA MakesArray ==
    ASSUME NEW gen, NEW T, Meets(gen, T), NEW c \in Surroundings,
           NEW e, e.subs \in Seq(T[AsOperand[c]]),
           NEW g, NEW labels, NEW q, Before(c, g, labels, q)
    PROVE  Makes(c, g, labels, q, GenArray(gen, g, e), q.height + 1)
<1> DEFINE h == Emit(g, <<Cmd("push_array", Len(e.subs))>>)
<1>1. Makes(c, g, labels, q, g, q.height)
  BY MakesSelf
<1>2. Steps("push_array", q.height, q.height + 1) /\ Len(e.subs) \in Int
  BY DEF Steps, Kinds01
<1>3. Makes(c, g, labels, q, h, q.height + 1)
  BY <1>1, <1>2, MakesCmd
<1>4. q.height \in Nat
  BY BeforeTypes, Zenon
<1>5. 1 <= q.height + 1
  BY <1>4
<1> HIDE DEF h
<1>6. Makes(c, g, labels, q, GenItems(gen, h, e), q.height + 1)
  BY <1>3, <1>5, MakesItems
<1> QED BY <1>6 DEF GenArray, h

LEMMA MakesCall ==
    ASSUME NEW gen, NEW T, Meets(gen, T), NEW c \in Surroundings,
           NEW e, e.l \in T[c], e.subs \in Seq(T[AsOperand[c]]),
           NEW g, NEW labels, NEW q, Before(c, g, labels, q)
    PROVE  Makes(c, g, labels, q, GenCall(gen, g, e), q.height + 1)
<1> DEFINE n == Len(e.subs)
           h == GenArgs(gen, gen[<<g, e.l>>], e)
           cmd == Cmd("call", n)
<1>1. q.height \in Nat
  BY BeforeTypes, Zenon
<1>2. n \in Nat /\ n \in Int
  OBVIOUS
<1>3. Makes(c, g, labels, q, g, q.height)
  BY MakesSelf
<1>4. Makes(c, g, labels, q, gen[<<g, e.l>>], q.height + 1)
  BY <1>3, MakesPart
<1>5. Makes(c, g, labels, q, h, (q.height + 1) + n)
  BY <1>4, MakesArgs
<1> HIDE DEF h, n
<1>6. cmd \in Command /\ cmd.kind = "call" /\ cmd.x = n
  <2>1. "call" \in Kinds
    BY DEF Kinds, Pushes
  <2> QED BY <1>2, <2>1, CmdIs
<1> HIDE DEF cmd
<1>7. PopsOf(cmd) = n + 1 /\ Pushes[cmd.kind] = 1 /\ Known(h, cmd)
  BY <1>2, <1>6 DEF PopsOf, Pushes, Known
<1>8. /\ PopsOf(cmd) <= (q.height + 1) + n /\ q.height + 1 \in Nat
      /\ q.height + 1 = ((q.height + 1) + n) - PopsOf(cmd) + Pushes[cmd.kind]
  BY <1>1, <1>2, <1>7
<1>9. cmd.kind \notin {"label", "jump_unless"} /\ cmd.kind # "return"
  BY <1>6
<1>10. Makes(c, g, labels, q, Emit(h, <<cmd>>), q.height + 1)
  BY <1>5, <1>6, <1>7, <1>8, <1>9, MakesPlain
<1> QED BY <1>10 DEF GenCall, h, n, cmd

LEMMA MakesSet ==
    ASSUME NEW gen, NEW T, Meets(gen, T), Layered(T), NEW c \in Surroundings,
           NEW e, e.l \in T[c], e.r \in T[AsOperand[c]],
           NEW g, NEW labels, NEW q, Before(c, g, labels, q), Externs \in Seq(STRING)
    PROVE  Makes(c, g, labels, q, GenSet(gen, g, e), q.height + 1)
<1> DEFINE h == gen[<<GenLval(gen, g, e.l), e.r>>]
<1>1. q.height \in Nat
  BY BeforeTypes, Zenon
<1>2. Makes(c, g, labels, q, GenLval(gen, g, e.l), q.height + 1)
  BY MakesLval
<1>3. Makes(c, g, labels, q, h, (q.height + 1) + 1)
  BY <1>2, MakesOperand
<1>4. Steps("cell_set", (q.height + 1) + 1, q.height + 1)
  BY <1>1 DEF Steps
<1>5. Makes(c, g, labels, q, Emit(h, <<Cmd("cell_set", 0)>>), q.height + 1)
  BY <1>3, <1>4, MakesCmd
<1> QED BY <1>5 DEF GenSet

LEMMA MakesSetOp ==
    ASSUME NEW gen, NEW T, Meets(gen, T), Layered(T), NEW c \in Surroundings,
           NEW e, e.l \in T[c], e.r \in T[AsOperand[c]], e.op \in SetOps,
           NEW g, NEW labels, NEW q, Before(c, g, labels, q), Externs \in Seq(STRING)
    PROVE  Makes(c, g, labels, q, GenSetOp(gen, g, e), q.height + 1)
<1> DEFINE cell == GenLval(gen, g, e.l)
           dup == Cmd("dup", 0)
           get == Cmd("cell_get", 0)
           op == Op(OpOfSetOp[e.op])
           set == Cmd("cell_set", 0)
           old == Emit(cell, <<dup, get>>)
           both == gen[<<old, e.r>>]
           n == q.height
<1>1. n \in Nat
  BY BeforeTypes, Zenon
<1>2. Makes(c, g, labels, q, cell, n + 1)
  BY MakesLval
<1>3. OpOfSetOp[e.op] \in Ops \cup {"array_push", "index_ref"}
  BY DEF OpOfSetOp, Ops, SetOps
<1>4. dup \in Command /\ get \in Command /\ op \in Command /\ set \in Command
  <2>1. {"dup", "cell_get", "cell_set"} \subseteq Kinds
    BY DEF Kinds, Pushes
  <2> QED BY <1>3, <2>1, CmdIs, OpIs
<1>5. /\ Steps("dup", n + 1, n + 2) /\ Steps("cell_get", n + 2, n + 2)
      /\ Steps("cell_set", n + 2, n + 1)
      /\ (n + 2) + 1 = n + 3 /\ 2 <= n + 3 /\ (n + 3) - 1 = n + 2
  BY <1>1 DEF Steps, Kinds11
<1> HIDE DEF n, cell
<1>6. Makes(c, g, labels, q, Emit(cell, <<dup>>), n + 2)
  BY <1>2, <1>5, MakesCmd
<1>7. Makes(c, g, labels, q, Emit(Emit(cell, <<dup>>), <<get>>), n + 2)
  BY <1>5, <1>6, MakesCmd
<1>8. Makes(c, g, labels, q, old, n + 2)
  <2>1. cell \in Generators
    BY <1>2, MakesTypes
  <2> HIDE DEF dup, get
  <2>2. old = Emit(Emit(cell, <<dup>>), <<get>>)
    BY <2>1, <1>4, EmitTwo
  <2> QED BY <2>2, <1>7
<1> HIDE DEF old
<1>9. Makes(c, g, labels, q, both, (n + 2) + 1)
  BY <1>8, MakesOperand
<1> HIDE DEF both
<1>10. Makes(c, g, labels, q, both, n + 3)
  BY <1>5, <1>9
<1>11. Makes(c, g, labels, q, Emit(both, <<op>>), (n + 3) - 1)
  BY <1>3, <1>5, <1>10, MakesOp
<1>12. Makes(c, g, labels, q, Emit(Emit(both, <<op>>), <<set>>), n + 1)
  BY <1>5, <1>11, MakesCmd
<1>13. Emit(both, <<op, set>>) = Emit(Emit(both, <<op>>), <<set>>)
  <2>1. both \in Generators
    BY <1>10, MakesTypes
  <2> HIDE DEF op, set
  <2> QED BY <2>1, <1>4, EmitTwo
<1> QED BY <1>12, <1>13 DEF GenSetOp, n, both, old, cell

LEMMA MakesNegate ==
    ASSUME NEW c, NEW g, NEW labels, NEW q, NEW h, NEW n, Makes(c, g, labels, q, h, n), 1 <= n
    PROVE  Makes(c, g, labels, q, Emit(h, Negate), n) /\ Negate \in Seq(Command)
<1> DEFINE eq == Op("eq")
<1>1. n \in Nat /\ h \in Generators
  BY MakesTypes
<1>2. PushNull \in Command /\ eq \in Command /\ "eq" \in Ops \cup {"array_push", "index_ref"}
  <2>1. "eq" \in Ops
    BY DEF Ops
  <2> QED BY <2>1, NullIs, OpIs
<1>3. Steps("push_int", n, n + 1) /\ 2 <= n + 1 /\ (n + 1) - 1 = n
  BY <1>1 DEF Steps, Kinds01
<1>4. Makes(c, g, labels, q, Emit(h, <<PushNull>>), n + 1)
  BY <1>3, MakesCmd DEF PushNull
<1>5. Makes(c, g, labels, q, Emit(Emit(h, <<PushNull>>), <<eq>>), n)
  BY <1>2, <1>3, <1>4, MakesOp
<1> HIDE DEF eq
<1>6. Emit(h, <<PushNull, eq>>) = Emit(Emit(h, <<PushNull>>), <<eq>>)
  BY <1>1, <1>2, EmitTwo
<1>7. <<PushNull, eq>> \in Seq(Command)
  BY <1>2
<1>8. Negate = <<PushNull, eq>>
  BY DEF Negate, eq
<1> QED BY <1>5, <1>6, <1>7, <1>8

LEMMA MakesSwapLess ==
    ASSUME NEW c, NEW g, NEW labels, NEW q, NEW h, NEW n, Makes(c, g, labels, q, h, n), 2 <= n
    PROVE  /\ Makes(c, g, labels, q, Emit(h, <<Cmd("swap", 0), Op("lt")>>), n - 1)
           /\ <<Cmd("swap", 0), Op("lt")>> \in Seq(Command)
<1> DEFINE swap == Cmd("swap", 0)
           lt == Op("lt")
<1>1. n \in Nat /\ h \in Generators
  BY MakesTypes
<1>2. swap \in Command /\ lt \in Command /\ "lt" \in Ops \cup {"array_push", "index_ref"}
  <2>1. "lt" \in Ops /\ "swap" \in Kinds
    BY DEF Ops, Kinds, Pushes
  <2> QED BY <2>1, CmdIs, OpIs
<1>3. Steps("swap", n, n)
  BY DEF Steps
<1>4. Makes(c, g, labels, q, Emit(h, <<swap>>), n)
  BY <1>3, MakesCmd
<1>5. Makes(c, g, labels, q, Emit(Emit(h, <<swap>>), <<lt>>), n - 1)
  BY <1>2, <1>4, MakesOp
<1> HIDE DEF swap, lt
<1>6. Emit(h, <<swap, lt>>) = Emit(Emit(h, <<swap>>), <<lt>>)
  BY <1>1, <1>2, EmitTwo
<1>7. <<swap, lt>> \in Seq(Command)
  BY <1>2
<1> QED BY <1>5, <1>6, <1>7 DEF swap, lt

LEMMA MakesComparison ==
    ASSUME NEW gen, NEW T, Meets(gen, T), NEW c \in Surroundings,
           NEW e, e.l \in T[c], e.r \in T[AsOperand[c]], e.op \in DOMAIN Comparison,
           NEW g, NEW labels, NEW q, Before(c, g, labels, q)
    PROVE  Makes(c, g, labels, q, GenBinary(gen, g, e, Comparison[e.op]), q.height + 1)
<1> DEFINE h == gen[<<gen[<<g, e.l>>], e.r>>]
           less == <<Cmd("swap", 0), Op("lt")>>
           n == q.height + 1
<1>1. n \in Nat /\ 1 <= n /\ n + 1 = q.height + 2 /\ 2 <= n + 1 /\ (n + 1) - 1 = n
  <2>1. q.height \in Nat
    BY BeforeTypes, Zenon
  <2> QED BY <2>1
<1>2. Makes(c, g, labels, q, h, n + 1)
  <2>1. Makes(c, g, labels, q, h, q.height + 2)
    BY MakesTwo
  <2> QED BY <1>1, <2>1
<1> HIDE DEF h, n
<1>3. h \in Generators
  BY <1>2, MakesTypes
<1>4. {"eq", "lt"} \subseteq Ops \cup {"array_push", "index_ref"}
  BY DEF Ops
<1>5. ASSUME NEW op \in {"eq", "lt"}
      PROVE  /\ Makes(c, g, labels, q, Emit(h, <<Op(op)>>), n)
             /\ Makes(c, g, labels, q, Emit(h, <<Op(op)>> \o Negate), n)
  <2>1. Makes(c, g, labels, q, Emit(h, <<Op(op)>>), n)
    BY <1>1, <1>2, <1>4, MakesOp
  <2>2. Makes(c, g, labels, q, Emit(Emit(h, <<Op(op)>>), Negate), n) /\ Negate \in Seq(Command)
    BY <1>1, <2>1, MakesNegate
  <2>3. Op(op) \in Command
    BY <1>4, OpIs
  <2>4. <<Op(op)>> \in Seq(Command)
    BY <2>3
  <2>5. Emit(h, <<Op(op)>> \o Negate) = Emit(Emit(h, <<Op(op)>>), Negate)
    BY <1>3, <2>2, <2>4, EmitCat
  <2> QED BY <2>1, <2>2, <2>5
<1>6. Makes(c, g, labels, q, Emit(h, less), n) /\ less \in Seq(Command)
  BY <1>1, <1>2, MakesSwapLess
<1> HIDE DEF less
<1>7. Makes(c, g, labels, q, Emit(h, less \o Negate), n)
  <2>1. Makes(c, g, labels, q, Emit(Emit(h, less), Negate), n) /\ Negate \in Seq(Command)
    BY <1>1, <1>6, MakesNegate
  <2>2. Emit(h, less \o Negate) = Emit(Emit(h, less), Negate)
    BY <1>3, <1>6, <2>1, EmitCat
  <2> QED BY <2>1, <2>2
<1>8. /\ Comparison["ne"] = <<Op("eq")>> \o Negate /\ Comparison["le"] = less \o Negate
      /\ Comparison["gt"] = less /\ Comparison["ge"] = <<Op("lt")>> \o Negate
      /\ e.op \in {"ne", "le", "gt", "ge"}
  BY DEF Comparison, less
<1>9. Makes(c, g, labels, q, Emit(h, Comparison[e.op]), n)
  <2>1. CASE e.op = "ne"
    BY <2>1, <1>5, <1>8
  <2>2. CASE e.op = "le"
    BY <2>2, <1>7, <1>8
  <2>3. CASE e.op = "gt"
    BY <2>3, <1>6, <1>8
  <2>4. CASE e.op = "ge"
    BY <2>4, <1>5, <1>8
  <2> QED BY <1>8, <2>1, <2>2, <2>3, <2>4
<1> QED BY <1>9 DEF GenBinary, h, n

\* A part of a node that may stand as it does, or as its operands do.
Parts(T, c) == T[c] \cup T[AsOperand[c]]

LEMMA MakesEither ==
    ASSUME NEW gen, NEW T, Meets(gen, T), NEW c \in Surroundings, NEW e \in Parts(T, c),
           NEW g, NEW labels, NEW q, NEW h,
           Before(c, g, labels, q), Makes(c, g, labels, q, h, q.height)
    PROVE  Makes(c, g, labels, q, gen[<<h, e>>], q.height + 1)
<1>1. CASE e \in T[c]
  BY <1>1, MakesPart
<1>2. CASE e \in T[AsOperand[c]]
  BY <1>2, MakesOperand
<1> QED BY <1>1, <1>2 DEF Parts

LEMMA MakesSemi ==
    ASSUME NEW gen, NEW T, Meets(gen, T), NEW c \in Surroundings,
           NEW e, e.l \in T[c], e.r \in Parts(T, c), NEW g, NEW labels, NEW q,
           Before(c, g, labels, q)
    PROVE  Makes(c, g, labels, q, GenSemi(gen, g, e), q.height + 1)
<1> DEFINE h == Emit(gen[<<g, e.l>>], <<Cmd("pop", 0)>>)
<1>1. Makes(c, g, labels, q, g, q.height)
  BY MakesSelf
<1>2. Makes(c, g, labels, q, gen[<<g, e.l>>], q.height + 1)
  BY <1>1, MakesPart
<1>3. q.height \in Nat
  BY BeforeTypes, Zenon
<1>4. Steps("pop", q.height + 1, q.height)
  BY <1>3 DEF Steps
<1>5. Makes(c, g, labels, q, h, q.height)
  BY <1>2, <1>4, MakesCmd
<1> HIDE DEF h
<1>6. Makes(c, g, labels, q, gen[<<h, e.r>>], q.height + 1)
  BY <1>5, MakesEither
<1> QED BY <1>6 DEF GenSemi, h

LEMMA MakesReturn ==
    ASSUME NEW gen, NEW T, Meets(gen, T), NEW c \in ReturnContexts, NEW e, e.l \in T[c],
           NEW g, NEW labels, NEW q, Before(c, g, labels, q)
    PROVE  Makes(c, g, labels, q, Emit(gen[<<g, e.l>>], <<Cmd("return", 0)>>), q.height + 1)
<1> DEFINE h == gen[<<g, e.l>>]
           cmd == Cmd("return", 0)
           n == q.height + 1
<1>1. c \in Surroundings
  BY DEF ReturnContexts, Surroundings
<1>2. Makes(c, g, labels, q, h, n)
  <2>1. Makes(c, g, labels, q, g, q.height)
    BY MakesSelf
  <2> QED BY <1>1, <2>1, MakesPart
<1> HIDE DEF h
<1>3. cmd \in Command /\ cmd.kind = "return"
  <2>1. "return" \in Kinds
    BY DEF Kinds, Pushes
  <2> QED BY <2>1, CmdIs
<1> HIDE DEF cmd
<1>4. n \in Nat
  <2>1. q.height \in Nat
    BY BeforeTypes, Zenon
  <2> QED BY <2>1
<1>5. Bal(c) => n = 1
  <2>1. Bal(c) => q.height = 0
    BY DEF Before, Placed, Bal
  <2> QED BY <2>1
<1> HIDE DEF n
<1>6. PopsOf(cmd) <= n /\ Known(h, cmd)
  BY <1>3, <1>4 DEF PopsOf, Pops, Pushes, Known
<1>7. Makes(c, g, labels, q, Emit(h, <<cmd>>), n)
  BY <1>2, <1>3, <1>4, <1>5, <1>6, MakesPlain
<1> QED BY <1>7 DEF h, cmd, n

LEMMA MakesBreak ==
    ASSUME NEW c \in BreakContexts, NEW g, NEW labels, NEW q, Before(c, g, labels, q)
    PROVE  Makes(c, g, labels, q, GenBreak(g), q.height + 1)
<1>1. q.height \in Nat /\ g \in Generators /\ q.fun \in 1 .. g.labels /\ Sound(Bal(c), g, labels, q)
  BY BeforeTypes, Zenon
<1>2. q.height + 1 \in Nat
  BY <1>1
<1>3. CASE g.loops = << >>
  <2>1. Makes(c, g, labels, q, g, q.height)
    BY MakesSelf
  <2>2. Makes(c, g, labels, q, EmitErr(g, Message), q.height + 1)
    BY <1>2, <2>1, MakesErr
  <2> QED BY <1>3, <2>2 DEF GenBreak
<1>4. CASE g.loops # << >>
  <2> DEFINE x == Last(g.loops)
             r == On(q.height + 1, q.fun)
  <2>1. x \in 1 .. g.labels
    <3>1. g.loops \in Seq(Nat) /\ \A k \in DOMAIN g.loops : g.loops[k] \in 1 .. g.labels
      BY <1>1 DEF Sound, Generators
    <3>2. Len(g.loops) \in DOMAIN g.loops
      BY <3>1, <1>4
    <3> QED BY <3>1, <3>2 DEF Last
  <2>2. r \in Spot /\ r.fun \in 1 .. g.labels
    <3>1. q.fun \in Nat
      BY <1>1 DEF Generators
    <3> QED BY <1>1, <1>2, <3>1 DEF Spot, On
  <2>3. Bal(c) => labels[x] = On(q.height, q.fun) /\ Labelled(g, x) = {}
    BY <1>4 DEF Before, Placed, BreakReady, Bal, BreakContexts
  <2> HIDE DEF x, r
  <2>4. Reaches(Bal(c), g, labels, {}, g, labels, q)
    BY <1>1, ReachSelf
  <2>5. Bal(c) \in BOOLEAN
    BY BalIs
  <2>6. /\ Reaches(Bal(c), g, labels, {}, Emit(g, Goto(x)), labels, r)
        /\ SameScope(g, Emit(g, Goto(x)))
    BY <2>1, <2>2, <2>3, <2>4, <2>5, ReachGoto
  <2>7. GenBreak(g) = Emit(g, Goto(x))
    BY <1>4 DEF GenBreak, x
  <2> QED BY <2>6, <2>7 DEF Makes, r
<1> QED BY <1>3, <1>4

LEMMA MakesLet ==
    ASSUME NEW gen, NEW T, Meets(gen, T), NEW c \in Surroundings,
           NEW e, e.l \in T[c], e.name \in STRING, NEW g, NEW labels, NEW q, Before(c, g, labels, q)
    PROVE  Makes(c, g, labels, q, GenLet(gen, g, e), q.height + 1)
<1> DEFINE init == gen[<<g, e.l>>]
           h == AddLocal(init, e.name)
           index == Last(h.locals).index
           swap == Cmd("swap", 0)
           set == Cmd("cell_set", 0)
           n == q.height + 1
<1>1. n \in Nat /\ Steps("swap", n + 1, n + 1) /\ Steps("cell_set", n + 1, n)
  <2>1. q.height \in Nat
    BY BeforeTypes, Zenon
  <2>2. n \in Nat /\ 2 <= n + 1 /\ (n + 1) - 1 = n
    BY <2>1
  <2> QED BY <2>2 DEF Steps
<1>2. Makes(c, g, labels, q, init, n)
  <2>1. Makes(c, g, labels, q, g, q.height)
    BY MakesSelf
  <2> QED BY <2>1, MakesPart
<1> HIDE DEF init, n
<1>3. init \in Generators /\ init.scope \in DOMAIN init.scopes
  BY <1>2, MakesTypes
<1>4. /\ h \in Generators /\ SameScope(init, h)
      /\ h.cmds = init.cmds /\ h.labels = init.labels /\ h.funs = init.funs
      /\ Len(h.scopes) = Len(init.scopes) /\ DOMAIN h.scopes = DOMAIN init.scopes
      /\ \A s \in DOMAIN init.scopes : h.scopes[s].parent = init.scopes[s].parent
      /\ index \in Nat
  BY <1>3, AddLocalFields
<1>5. Len(init.scopes) \in Nat
  BY <1>3 DEF Generators
<1> HIDE DEF h, index
<1>6. Len(init.scopes) <= Len(h.scopes) /\ h.scope \in DOMAIN h.scopes
  BY <1>3, <1>4, <1>5 DEF SameScope
<1>7. Makes(c, g, labels, q, h, n)
  BY <1>2, <1>4, <1>6, MakesSame
<1> DEFINE k == Emit(h, CellOf(index, 0))
<1>8. Makes(c, g, labels, q, k, n + 1)
  BY <1>4, <1>7, MakesCell
<1> HIDE DEF k
<1>9. Makes(c, g, labels, q, Emit(k, <<swap>>), n + 1)
  BY <1>1, <1>8, MakesCmd
<1>10. Makes(c, g, labels, q, Emit(Emit(k, <<swap>>), <<set>>), n)
  BY <1>1, <1>9, MakesCmd
<1>11. swap \in Command /\ set \in Command
  <2>1. {"swap", "cell_set"} \subseteq Kinds
    BY DEF Kinds, Pushes
  <2> QED BY <2>1, CmdIs
<1>12. CellOf(index, 0) \in Seq(Command)
  <2>1. {"push_env", "local_var"} \subseteq Kinds
    BY DEF Kinds, Pushes
  <2>2. Cmd("push_env", 0) \in Command /\ Cmd("local_var", index) \in Command
    BY <1>4, <2>1, CmdIs
  <2> QED BY <2>2 DEF CellOf
<1> HIDE DEF swap, set
<1>13. <<swap, set>> \in Seq(Command)
  BY <1>11
<1>14. Emit(h, CellOf(index, 0) \o <<swap, set>>) = Emit(k, <<swap, set>>)
  BY <1>4, <1>12, <1>13, EmitCat DEF k
<1>15. Emit(k, <<swap, set>>) = Emit(Emit(k, <<swap>>), <<set>>)
  <2>1. k \in Generators
    BY <1>8, MakesTypes
  <2> QED BY <2>1, <1>11, EmitTwo
<1>16. GenLet(gen, g, e) = Emit(h, CellOf(index, 0) \o <<swap, set>>)
  BY DEF GenLet, h, index, init, swap, set
<1> QED BY <1>10, <1>14, <1>15, <1>16 DEF n

---------------------------------------------------------------------------
(* The nodes with labels.                                                  *)

LEMMA GeneratorTypes ==
    ASSUME NEW g \in Generators
    PROVE  /\ g.cmds \in Seq(Command) /\ Len(g.cmds) \in Nat /\ DOMAIN g.cmds = 1 .. Len(g.cmds)
           /\ g.loops \in Seq(Nat) /\ g.labels \in Nat
           /\ g.scopes \in Seq([parent : Nat, len : Nat]) /\ Len(g.scopes) \in Nat
           /\ DOMAIN g.scopes = 1 .. Len(g.scopes) /\ g.scope \in Nat
           /\ g.funs \in Seq([scope : Nat, label : Nat])
BY DEF Generators

\* Some way from g into the commands of a node with two labels, of which some are still
\* open; begin is a state before, with the loops and the scope of h.
Scoped(g, h) ==
    /\ Len(g.scopes) <= Len(h.scopes)
    /\ \A s \in DOMAIN g.scopes : h.scopes[s].parent = g.scopes[s].parent

Begun(begin, h) ==
    /\ begin \in Generators /\ SameScope(begin, h) /\ Scoped(begin, h)
    /\ Len(begin.cmds) <= Len(h.cmds)
    /\ \A i \in DOMAIN begin.cmds : h.cmds[i] = begin.cmds[i]

Ends(g, ends, more) == \A x \in g.labels + 1 .. g.labels + 2 : more[x] = ends[x]

Comes(bal, g, labels, open, ends, begin, h, q) ==
    /\ Begun(begin, h) /\ g.labels + 2 <= h.labels
    /\ \E more : Reaches(bal, g, labels, open, h, more, q) /\ Ends(g, ends, more)

LEMMA ComesTypes ==
    ASSUME NEW bal, NEW g, NEW labels, NEW open, NEW ends, NEW begin, NEW h, NEW q,
           Comes(bal, g, labels, open, ends, begin, h, q)
    PROVE  /\ h \in Generators /\ h.labels \in Nat /\ g.labels \in Nat /\ g.labels <= h.labels
           /\ q.height \in Nat /\ q.fun \in 1 .. h.labels
           /\ h.scope \in DOMAIN h.scopes /\ open \subseteq 1 .. h.labels
           /\ \A x \in open : Labelled(h, x) = {}
           /\ begin \in Generators /\ Begun(begin, h) /\ g.labels + 2 <= h.labels
<1>1. PICK more : Reaches(bal, g, labels, open, h, more, q)
  BY DEF Comes
<1>2. /\ h \in Generators /\ h.labels \in Nat /\ q.height \in Nat /\ q.fun \in 1 .. h.labels
      /\ h.scope \in DOMAIN h.scopes
  BY <1>1, ReachTypes
<1>3. Keeps(g, h, open)
  BY <1>1 DEF Reaches
<1>4. g.labels \in Nat
  <2>1. PICK p : Sound(bal, g, labels, p)
    BY <1>1 DEF Reaches
  <2> QED BY <2>1, SoundState
<1>5. open \subseteq g.labels + 1 .. h.labels /\ g.labels <= h.labels
  BY <1>3 DEF Keeps
<1>6. open \subseteq 1 .. h.labels
  BY <1>2, <1>4, <1>5
<1>7. \A x \in open : Labelled(h, x) = {}
  BY <1>3, <1>5 DEF Keeps
<1>8. begin \in Generators /\ Begun(begin, h) /\ g.labels + 2 <= h.labels
  BY DEF Comes, Begun
<1> QED BY <1>2, <1>4, <1>5, <1>6, <1>7, <1>8

LEMMA BegunSelf == ASSUME NEW h \in Generators PROVE Begun(h, h)
<1>1. Len(h.cmds) \in Nat /\ Len(h.scopes) \in Nat
  BY GeneratorTypes, Zenon
<1> QED BY <1>1 DEF Begun, SameScope, Scoped

\* From a later beginning.
LEMMA ComesFrom ==
    ASSUME NEW bal, NEW g, NEW labels, NEW open, NEW ends, NEW begin, NEW h, NEW q,
           Comes(bal, g, labels, open, ends, begin, h, q)
    PROVE  Comes(bal, g, labels, open, ends, h, h, q)
<1>1. h \in Generators
  BY ComesTypes, Zenon
<1>2. Begun(h, h)
  BY <1>1, BegunSelf
<1> QED BY <1>2 DEF Comes

LEMMA ComesNew ==
    ASSUME NEW bal, NEW g, NEW labels, NEW q, Sound(bal, g, labels, q), NEW ends,
           \A x \in g.labels + 1 .. g.labels + 2 : ends[x] \in Spot /\ ends[x].zero = FALSE
    PROVE  LET n == g.labels
               h == NewLabels(g)
           IN /\ Comes(bal, g, labels, {n + 1, n + 2}, ends, h, h, q)
              /\ SameScope(g, h) /\ h.labels = n + 2 /\ h.cmds = g.cmds /\ h.scopes = g.scopes
<1> DEFINE n == g.labels
           h == NewLabels(g)
<1>1. n \in Nat
  BY SoundState
<1>2. n + 1 \in n + 1 .. n + 2 /\ n + 2 \in n + 1 .. n + 2
  BY <1>1
<1>3. /\ ends[n + 1] \in Spot /\ ends[n + 1].zero = FALSE
      /\ ends[n + 2] \in Spot /\ ends[n + 2].zero = FALSE
  BY <1>2
<1>4. \E more : /\ Reaches(bal, g, labels, {n + 1, n + 2}, h, more, q)
                /\ more[n + 1] = ends[n + 1] /\ more[n + 2] = ends[n + 2]
                /\ h \in Generators /\ h.labels = n + 2 /\ h.cmds = g.cmds
                /\ h.scopes = g.scopes /\ h.scope = g.scope /\ h.loops = g.loops
                /\ h.funs = g.funs
  <2> DEFINE s == ends[n + 1]
             r == ends[n + 2]
  <2>1. s \in Marks /\ r \in Marks
    BY <1>3 DEF Marks
  <2> HIDE DEF s, r
  <2>2. MakesNew(bal, g, labels, q, s, r)
    BY <2>1, ReachNew
  <2> QED BY <2>2 DEF MakesNew, s, r
<1>5. PICK more : /\ Reaches(bal, g, labels, {n + 1, n + 2}, h, more, q)
                  /\ more[n + 1] = ends[n + 1] /\ more[n + 2] = ends[n + 2]
                  /\ h \in Generators /\ h.labels = n + 2 /\ h.cmds = g.cmds
                  /\ h.scopes = g.scopes /\ h.scope = g.scope /\ h.loops = g.loops
                  /\ h.funs = g.funs
  BY <1>4
<1> HIDE DEF h
<1>6. Ends(g, ends, more)
  BY <1>1, <1>5 DEF Ends
<1>8. Begun(h, h)
  BY <1>5, BegunSelf
<1>9. Comes(bal, g, labels, {n + 1, n + 2}, ends, h, h, q)
  <2>1. g.labels + 2 <= h.labels
    BY <1>1, <1>5
  <2> QED BY <1>5, <1>6, <1>8, <2>1 DEF Comes
<1>10. SameScope(g, h)
  BY <1>5 DEF SameScope
<1> QED BY <1>5, <1>9, <1>10 DEF h

LEMMA BegunTrans ==
    ASSUME NEW begin \in Generators, NEW h \in Generators, NEW k \in Generators, Begun(begin, h), SameScope(h, k),
           Len(h.cmds) <= Len(k.cmds), \A i \in DOMAIN h.cmds : k.cmds[i] = h.cmds[i],
           Scoped(h, k)
    PROVE  Begun(begin, k)
<1>1. ASSUME NEW x \in {begin, h, k}
      PROVE  /\ Len(x.cmds) \in Nat /\ DOMAIN x.cmds = 1 .. Len(x.cmds)
             /\ Len(x.scopes) \in Nat /\ DOMAIN x.scopes = 1 .. Len(x.scopes)
  <2>1. x \in Generators
    OBVIOUS
  <2> QED BY <2>1, GeneratorTypes, Zenon
<1>2. Scoped(begin, k)
  <2>1. /\ Len(begin.scopes) <= Len(h.scopes) /\ Len(h.scopes) <= Len(k.scopes)
        /\ \A s \in DOMAIN begin.scopes : h.scopes[s].parent = begin.scopes[s].parent
        /\ \A s \in DOMAIN h.scopes : k.scopes[s].parent = h.scopes[s].parent
    BY DEF Begun, Scoped
  <2>2. Len(begin.scopes) <= Len(k.scopes) /\ \A s \in DOMAIN begin.scopes : s \in DOMAIN h.scopes
    BY <1>1, <2>1
  <2> QED BY <2>1, <2>2 DEF Scoped
<1>3. /\ begin \in Generators /\ SameScope(begin, h) /\ Len(begin.cmds) <= Len(h.cmds)
      /\ \A i \in DOMAIN begin.cmds : h.cmds[i] = begin.cmds[i]
  BY DEF Begun
<1>4. Len(begin.cmds) <= Len(k.cmds) /\ \A i \in DOMAIN begin.cmds : i \in DOMAIN h.cmds
  BY <1>1, <1>3
<1> QED BY <1>2, <1>3, <1>4 DEF Begun, SameScope

LEMMA BegunEmit ==
    ASSUME NEW begin \in Generators, NEW h \in Generators, Begun(begin, h), NEW cmd \in Command
    PROVE  Begun(begin, Emit(h, <<cmd>>))
<1> DEFINE k == Emit(h, <<cmd>>)
<1>1. k \in Generators /\ k.cmds = Append(h.cmds, cmd) /\ k.scopes = h.scopes
  BY EmitFields
<1>2. h.cmds \in Seq(Command) /\ Len(h.scopes) \in Nat
  BY DEF Generators
<1>3. SameScope(h, k)
  BY EmitSame
<1> HIDE DEF k
<1>4. Scoped(h, k)
  BY <1>1, <1>2 DEF Scoped
<1>5. Len(h.cmds) <= Len(k.cmds) /\ \A i \in DOMAIN h.cmds : k.cmds[i] = h.cmds[i]
  BY <1>1, <1>2
<1> QED BY <1>1, <1>3, <1>4, <1>5, BegunTrans DEF k

LEMMA ComesPart ==
    ASSUME NEW gen, NEW T, Meets(gen, T), NEW d \in Surroundings, NEW e \in T[d],
           NEW g, NEW labels, NEW open, NEW ends, NEW begin, NEW h, NEW q,
           Comes(Bal(d), g, labels, open, ends, begin, h, q), q.zero = FALSE,
           \A more : Reaches(Bal(d), g, labels, open, h, more, q) /\ Ends(g, ends, more)
                     => Placed(d, h, more, q)
    PROVE  Comes(Bal(d), g, labels, open, ends, begin, gen[<<h, e>>], On(q.height + 1, q.fun))
<1> DEFINE k == gen[<<h, e>>]
           r == On(q.height + 1, q.fun)
<1>1. PICK more : Reaches(Bal(d), g, labels, open, h, more, q) /\ Ends(g, ends, more)
  BY DEF Comes
<1>2. Placed(d, h, more, q)
  BY <1>1
<1>3. /\ SameScope(h, k)
      /\ \E last : /\ Reaches(Bal(d), g, labels, open, k, last, r)
                   /\ \A x \in DOMAIN more : last[x] = more[x]
                   /\ Keeps(h, k, {})
  BY <1>1, <1>2, ReachPart
<1>4. PICK last : /\ Reaches(Bal(d), g, labels, open, k, last, r)
                  /\ \A x \in DOMAIN more : last[x] = more[x]
                  /\ Keeps(h, k, {})
  BY <1>3
<1> HIDE DEF k, r
<1>5. /\ h \in Generators /\ h.labels \in Nat /\ g.labels \in Nat /\ DOMAIN more = 1 .. h.labels
  <2>1. h \in Generators /\ h.labels \in Nat /\ g.labels \in Nat
    BY ComesTypes
  <2>2. Sound(Bal(d), h, more, q)
    BY <1>1 DEF Reaches
  <2> QED BY <2>1, <2>2, SoundState
<1>6. k \in Generators
  BY <1>4, ReachTypes
<1>7. Begun(begin, k)
  <2>1. begin \in Generators /\ Begun(begin, h)
    BY DEF Comes, Begun
  <2>2. Len(h.cmds) <= Len(k.cmds) /\ \A i \in DOMAIN h.cmds : k.cmds[i] = h.cmds[i]
    BY <1>4 DEF Keeps
  <2>3. Scoped(h, k)
    BY <1>4 DEF Keeps, Scoped
  <2> QED BY <1>3, <1>5, <1>6, <2>1, <2>2, <2>3, BegunTrans
<1>8. g.labels + 2 <= h.labels /\ h.labels <= k.labels /\ k.labels \in Nat
  BY <1>4, <1>6 DEF Comes, Keeps, Generators
<1>9. Ends(g, ends, last) /\ g.labels + 2 <= k.labels
  <2>1. \A x \in g.labels + 1 .. g.labels + 2 : x \in DOMAIN more
    BY <1>5, <1>8
  <2>2. Ends(g, ends, more)
    BY <1>1
  <2>3. Ends(g, ends, last)
    BY <1>4, <2>1, <2>2 DEF Ends
  <2> QED BY <1>5, <1>8, <2>3
<1> QED BY <1>4, <1>7, <1>9 DEF Comes, k, r

\* One command more.
LEMMA ComesStep ==
    ASSUME NEW bal, NEW g, NEW labels, NEW open, NEW rest, NEW ends, NEW begin, NEW h, NEW q, NEW r,
           NEW cmd \in Command, Comes(bal, g, labels, open, ends, begin, h, q),
           \A more : Reaches(bal, g, labels, open, h, more, q) /\ Ends(g, ends, more)
                     => Reaches(bal, g, labels, rest, Emit(h, <<cmd>>), more, r)
    PROVE  Comes(bal, g, labels, rest, ends, begin, Emit(h, <<cmd>>), r)
<1> DEFINE k == Emit(h, <<cmd>>)
<1>1. /\ h \in Generators /\ begin \in Generators /\ Begun(begin, h) /\ g.labels + 2 <= h.labels
  BY ComesTypes
<1>2. Begun(begin, k)
  BY <1>1, BegunEmit
<1>3. k.labels = h.labels
  BY <1>1, EmitFields
<1>4. PICK more : Reaches(bal, g, labels, open, h, more, q) /\ Ends(g, ends, more)
  BY DEF Comes
<1>5. Reaches(bal, g, labels, rest, k, more, r)
  BY <1>4
<1> HIDE DEF k
<1> QED BY <1>1, <1>2, <1>3, <1>4, <1>5 DEF Comes, k

LEMMA ComesPlain ==
    ASSUME NEW bal \in BOOLEAN, NEW g, NEW labels, NEW open, NEW ends, NEW begin, NEW h, NEW q,
           Comes(bal, g, labels, open, ends, begin, h, q),
           NEW cmd \in Command, NEW height \in Nat, Known(h, cmd),
           cmd.kind \notin {"label", "jump_unless"},
           PopsOf(cmd) <= q.height,
           bal /\ cmd.kind = "return" => q.height = 1,
           cmd.kind \notin {"return", "err"} =>
               height = q.height - PopsOf(cmd) + Pushes[cmd.kind]
    PROVE  Comes(bal, g, labels, open, ends, begin, Emit(h, <<cmd>>), On(height, q.fun))
<1>1. \A more : Reaches(bal, g, labels, open, h, more, q)
                => Reaches(bal, g, labels, open, Emit(h, <<cmd>>), more, On(height, q.fun))
  BY ReachPlain
<1> QED BY <1>1, ComesStep

LEMMA ComesJump ==
    ASSUME NEW bal \in BOOLEAN, NEW g, NEW labels, NEW open, NEW ends, NEW begin, NEW h, NEW q,
           Comes(bal, g, labels, open, ends, begin, h, q), q.height >= 1,
           NEW x \in open \cap (g.labels + 1 .. g.labels + 2),
           bal => ends[x] = On(q.height - 1, q.fun)
    PROVE  Comes(bal, g, labels, open, ends, begin, Emit(h, <<Cmd("jump_unless", x)>>),
                 On(q.height - 1, q.fun))
<1>1. x \in 1 .. h.labels /\ Labelled(h, x) = {}
  BY ComesTypes, Zenon
<1>2. x \in Int
  BY <1>1
<1>3. Cmd("jump_unless", x) \in Command
  BY <1>2, JumpIs
<1>4. ASSUME NEW more, Reaches(bal, g, labels, open, h, more, q), Ends(g, ends, more)
      PROVE  Reaches(bal, g, labels, open, Emit(h, <<Cmd("jump_unless", x)>>), more,
                     On(q.height - 1, q.fun))
  <2>1. more[x] = ends[x]
    BY <1>4 DEF Ends
  <2> QED BY <1>1, <1>4, <2>1, ReachJump
<1> QED BY <1>3, <1>4, ComesStep

\* A goto to one of the labels.
LEMMA ComesGoto ==
    ASSUME NEW bal \in BOOLEAN, NEW g, NEW labels, NEW open, NEW ends, NEW begin, NEW h, NEW q,
           Comes(bal, g, labels, open, ends, begin, h, q),
           NEW x \in open \cap (g.labels + 1 .. g.labels + 2),
           bal => ends[x] = On(q.height, q.fun),
           NEW r \in Spot, r.fun \in 1 .. h.labels
    PROVE  Comes(bal, g, labels, open, ends, begin, Emit(h, Goto(x)), r)
<1> DEFINE k == Emit(h, Goto(x))
<1>1. /\ x \in 1 .. h.labels /\ Labelled(h, x) = {}
      /\ h \in Generators /\ begin \in Generators /\ Begun(begin, h) /\ g.labels + 2 <= h.labels
  BY ComesTypes, Zenon
<1>2. x \in Int
  BY <1>1
<1>3. PICK more : Reaches(bal, g, labels, open, h, more, q) /\ Ends(g, ends, more)
  BY DEF Comes
<1>4. more[x] = ends[x]
  BY <1>3 DEF Ends
<1>5. Reaches(bal, g, labels, open, k, more, r)
  BY <1>1, <1>3, <1>4, ReachGoto
<1>6. Begun(begin, k) /\ k.labels = h.labels
  <2> DEFINE pushed == Emit(h, <<PushNull>>)
             jump == Cmd("jump_unless", x)
  <2>1. pushed \in Generators /\ pushed.labels = h.labels
    BY <1>1, ZeroFields
  <2>2. Begun(begin, pushed)
    BY <1>1, NullIs, BegunEmit
  <2>3. jump \in Command
    BY <1>2, JumpIs
  <2>4. k = Emit(pushed, <<jump>>)
    BY <1>1, <1>2, GotoIs
  <2> HIDE DEF pushed, jump, k
  <2>5. Begun(begin, Emit(pushed, <<jump>>))
    BY <1>1, <2>1, <2>2, <2>3, BegunEmit
  <2>6. Emit(pushed, <<jump>>).labels = pushed.labels
    BY <2>1, <2>3, EmitFields
  <2> QED BY <2>1, <2>4, <2>5, <2>6
<1> HIDE DEF k
<1> QED BY <1>1, <1>3, <1>5, <1>6 DEF Comes, k

LEMMA ComesLabel ==
    ASSUME NEW bal \in BOOLEAN, NEW g, NEW labels, NEW open, NEW ends, NEW begin, NEW h, NEW q,
           Comes(bal, g, labels, open, ends, begin, h, q),
           NEW x \in open \cap (g.labels + 1 .. g.labels + 2), bal => q = ends[x]
    PROVE  Comes(bal, g, labels, open \ {x}, ends, begin, Emit(h, <<Cmd("label", x)>>), q)
<1>1. x \in 1 .. h.labels
  BY ComesTypes, Zenon
<1>2. x \in Int
  BY <1>1
<1>3. Cmd("label", x) \in Command
  <2>1. "label" \in Kinds
    BY DEF Kinds, Pushes
  <2> QED BY <1>2, <2>1, CmdIs
<1>4. ASSUME NEW more, Reaches(bal, g, labels, open, h, more, q), Ends(g, ends, more)
      PROVE  Reaches(bal, g, labels, open \ {x}, Emit(h, <<Cmd("label", x)>>), more, q)
  <2>1. more[x] = ends[x]
    BY <1>4 DEF Ends
  <2> QED BY <1>4, <2>1, ReachLabel
<1> QED BY <1>3, <1>4, ComesStep

\* A part that stands as its node does or as its operands do.
LEMMA ComesEither ==
    ASSUME NEW gen, NEW T, Meets(gen, T), NEW c \in Surroundings, NEW e \in Parts(T, c),
           NEW g, NEW labels, NEW q, Before(c, g, labels, q),
           NEW open, NEW ends, NEW begin, NEW h, SameScope(g, begin),
           Comes(Bal(c), g, labels, open, ends, begin, h, q)
    PROVE  Comes(Bal(c), g, labels, open, ends, begin, gen[<<h, e>>], On(q.height + 1, q.fun))
<1>1. q.zero = FALSE /\ Sound(Bal(c), g, labels, q) /\ Placed(c, g, labels, q)
  BY DEF Before
<1>2. SameScope(g, h)
  BY DEF Comes, Begun, SameScope
<1>3. CASE e \in T[c]
  <2>1. ASSUME NEW more, Reaches(Bal(c), g, labels, open, h, more, q) PROVE Placed(c, h, more, q)
    BY <1>1, <1>2, <2>1, PlacedSame
  <2> QED BY <1>1, <1>3, <2>1, ComesPart
<1>4. CASE e \in T[AsOperand[c]]
  <2>1. \A more : Placed(AsOperand[c], h, more, q)
    BY <1>1, <1>2, PlacedOperand
  <2>2. AsOperand[c] \in Surroundings /\ Bal(AsOperand[c]) = Bal(c)
    BY <1>1, <1>2, PlacedOperand
  <2> DEFINE d == AsOperand[c]
  <2> HIDE DEF d
  <2>3. Comes(Bal(d), g, labels, open, ends, begin, h, q) /\ e \in T[d] /\ d \in Surroundings
    BY <1>4, <2>2 DEF d
  <2>4. \A more : Placed(d, h, more, q)
    BY <2>1 DEF d
  <2>5. Comes(Bal(d), g, labels, open, ends, begin, gen[<<h, e>>], On(q.height + 1, q.fun))
    BY <1>1, <2>3, <2>4, ComesPart
  <2> QED BY <2>2, <2>5 DEF d
<1> QED BY <1>3, <1>4 DEF Parts

LEMMA ComesMakes ==
    ASSUME NEW c, NEW g, NEW labels, NEW q, NEW ends, NEW begin, NEW h, NEW height, SameScope(g, begin),
           Comes(Bal(c), g, labels, {}, ends, begin, h, On(height, q.fun))
    PROVE  Makes(c, g, labels, q, h, height)
BY DEF Comes, Begun, Makes, SameScope

LEMMA MakesIf ==
    ASSUME NEW gen, NEW T, Meets(gen, T), NEW c \in Surroundings,
           NEW cond \in Parts(T, c), NEW then \in Parts(T, c), NEW else \in Parts(T, c),
           NEW g, NEW labels, NEW q, Before(c, g, labels, q)
    PROVE  Makes(c, g, labels, q, GenIf(gen, g, cond, then, else), q.height + 1)
<1> DEFINE a == g.labels + 1
           b == g.labels + 2
           r == On(q.height + 1, q.fun)
           ends == [x \in {a, b} |-> IF x = a THEN q ELSE r]
           entry == NewLabels(g)
           asked == gen[<<entry, cond>>]
           tested == Emit(asked, <<Cmd("jump_unless", a)>>)
           one == gen[<<tested, then>>]
           gone == Emit(one, Goto(b))
           done == Emit(gone, <<Cmd("label", a)>>)
           other == gen[<<done, else>>]
<1>1. /\ Sound(Bal(c), g, labels, q) /\ g \in Generators /\ g.labels \in Nat
      /\ q \in Spot /\ q.height \in Nat /\ q.fun \in 1 .. g.labels /\ q.zero = FALSE
      /\ q = On(q.height, q.fun)
  BY BeforeTypes, Zenon
<1>2. /\ r \in Spot /\ r.zero = FALSE /\ r.height = q.height + 1 /\ r.fun = q.fun
      /\ r.height >= 1 /\ On(r.height - 1, r.fun) = q
  <2>1. q.fun \in Nat /\ q.height + 1 \in Nat
    BY <1>1
  <2>2. r \in Spot /\ r.zero = FALSE /\ r.height = q.height + 1 /\ r.fun = q.fun
    BY <2>1 DEF Spot, On
  <2>3. r.height >= 1 /\ r.height - 1 = q.height
    BY <1>1, <2>2
  <2> QED BY <1>1, <2>2, <2>3
<1>3. /\ a \in {a, b} \cap (g.labels + 1 .. g.labels + 2) /\ a # b
      /\ b \in {a, b} \cap (g.labels + 1 .. g.labels + 2)
      /\ b \in ({a, b} \ {a}) \cap (g.labels + 1 .. g.labels + 2)
      /\ ({a, b} \ {a}) \ {b} = {}
      /\ \A x \in g.labels + 1 .. g.labels + 2 : x \in {a, b}
  BY <1>1
<1>4. ends[a] = q /\ ends[b] = r
  BY <1>3
<1>5. Bal(c) \in BOOLEAN
  BY BalIs
<1>6. /\ Comes(Bal(c), g, labels, {a, b}, ends, entry, entry, q) /\ SameScope(g, entry)
  <2>1. \A x \in g.labels + 1 .. g.labels + 2 : ends[x] \in Spot /\ ends[x].zero = FALSE
    BY <1>1, <1>2, <1>3
  <2> HIDE DEF ends
  <2> QED BY <1>1, <2>1, ComesNew
<1> HIDE DEF ends, entry
<1>7. Comes(Bal(c), g, labels, {a, b}, ends, entry, asked, r)
  BY <1>6, ComesEither
<1> HIDE DEF asked
<1>8. Comes(Bal(c), g, labels, {a, b}, ends, entry, tested, q)
  <2>1. Comes(Bal(c), g, labels, {a, b}, ends, entry, tested, On(r.height - 1, r.fun))
    <3> HIDE DEF r
    <3>1. ends[a] = On(r.height - 1, r.fun)
      BY <1>2, <1>4
    <3> QED BY <1>2, <1>3, <1>5, <1>7, <3>1, ComesJump
  <2> QED BY <2>1, <1>2
<1> HIDE DEF tested
<1>9. Comes(Bal(c), g, labels, {a, b}, ends, entry, one, r)
  BY <1>6, <1>8, ComesEither
<1> HIDE DEF one
<1>10. Comes(Bal(c), g, labels, {a, b}, ends, entry, gone, q)
  <2>1. ends[b] = On(r.height, r.fun)
    BY <1>2, <1>4
  <2>2. q.fun \in 1 .. one.labels
    <3>1. one.labels \in Nat /\ g.labels <= one.labels
      BY <1>9, ComesTypes
    <3> QED BY <1>1, <3>1
  <2> HIDE DEF r
  <2> QED BY <1>1, <1>3, <1>5, <1>9, <2>1, <2>2, ComesGoto
<1>11. Comes(Bal(c), g, labels, {a, b} \ {a}, ends, entry, done, q)
  <2> HIDE DEF gone
  <2> QED BY <1>3, <1>4, <1>5, <1>10, ComesLabel
<1>12. done = Emit(one, Goto(b) \o <<Cmd("label", a)>>)
  <2>1. one \in Generators
    BY <1>9, ComesTypes
  <2>2. PushNull \in Command /\ Cmd("jump_unless", b) \in Command /\ Cmd("label", a) \in Command
    <3>1. "label" \in Kinds /\ a \in Int /\ b \in Int
      BY <1>1 DEF Kinds, Pushes
    <3> QED BY <3>1, NullIs, JumpIs, CmdIs
  <2>3. Goto(b) \in Seq(Command) /\ <<Cmd("label", a)>> \in Seq(Command)
    BY <2>2 DEF Goto
  <2> QED BY <2>1, <2>3, EmitCat
<1> HIDE DEF done
<1>13. Comes(Bal(c), g, labels, {a, b} \ {a}, ends, entry, other, r)
  BY <1>6, <1>11, ComesEither
<1> HIDE DEF other
<1>14. Comes(Bal(c), g, labels, ({a, b} \ {a}) \ {b}, ends, entry, Emit(other, <<Cmd("label", b)>>), r)
  BY <1>3, <1>4, <1>5, <1>13, ComesLabel
<1>15. Comes(Bal(c), g, labels, {}, ends, entry, Emit(other, <<Cmd("label", b)>>), r)
  BY <1>3, <1>14
<1>16. Makes(c, g, labels, q, Emit(other, <<Cmd("label", b)>>), q.height + 1)
  BY <1>6, <1>15, ComesMakes
<1>17. GenIf(gen, g, cond, then, else) = Emit(other, <<Cmd("label", b)>>)
  BY <1>12 DEF GenIf, other, one, tested, asked, entry
<1> QED BY <1>16, <1>17

\* What concerns neither commands, labels nor functions.
LEMMA ComesSame ==
    ASSUME NEW bal, NEW g, NEW labels, NEW open, NEW ends, NEW begin, NEW h, NEW q, NEW k \in Generators,
           Comes(bal, g, labels, open, ends, begin, h, q),
           k.cmds = h.cmds, k.labels = h.labels, k.funs = h.funs,
           Len(h.scopes) <= Len(k.scopes), k.scope \in DOMAIN k.scopes,
           \A s \in DOMAIN h.scopes : k.scopes[s].parent = h.scopes[s].parent,
           \A l \in DOMAIN k.loops : k.loops[l] \in 1 .. k.labels
    PROVE  Comes(bal, g, labels, open, ends, k, k, q)
<1>1. PICK more : Reaches(bal, g, labels, open, h, more, q) /\ Ends(g, ends, more)
  BY DEF Comes
<1>2. Reaches(bal, g, labels, open, k, more, q)
  BY <1>1, ReachSame
<1>4. Begun(k, k)
  BY BegunSelf
<1> QED BY <1>1, <1>2, <1>4 DEF Comes

LEMMA LoopsFields ==
    ASSUME NEW h \in Generators, NEW loops \in Seq(Nat)
    PROVE  LET k == [h EXCEPT !.loops = loops]
           IN /\ k \in Generators /\ k.loops = loops
              /\ k.cmds = h.cmds /\ k.labels = h.labels /\ k.funs = h.funs
              /\ k.scopes = h.scopes /\ k.scope = h.scope
BY DEF Generators

\* The state at the end of a node is as at its beginning.
LEMMA ComesEnd ==
    ASSUME NEW c, NEW g, NEW labels, NEW q, Before(c, g, labels, q), NEW k \in Generators,
           NEW ends, NEW begin, NEW h, NEW height,
           Comes(Bal(c), g, labels, {}, ends, begin, h, On(height, q.fun)),
           k.cmds = h.cmds, k.labels = h.labels, k.funs = h.funs,
           Len(h.scopes) <= Len(k.scopes), k.scope \in DOMAIN k.scopes,
           \A s \in DOMAIN h.scopes : k.scopes[s].parent = h.scopes[s].parent,
           SameScope(g, k)
    PROVE  Makes(c, g, labels, q, k, height)
<1>1. h.labels \in Nat /\ g.labels \in Nat /\ g.labels <= h.labels
  BY ComesTypes, Zenon
<1>2. \A l \in DOMAIN g.loops : g.loops[l] \in 1 .. g.labels
  BY DEF Before, Sound
<1>3. \A l \in DOMAIN k.loops : k.loops[l] \in 1 .. k.labels
  BY <1>1, <1>2 DEF SameScope
<1>4. Comes(Bal(c), g, labels, {}, ends, k, k, On(height, q.fun))
  BY <1>3, ComesSame
<1> QED BY <1>4, ComesMakes

\* The goto to the beginning of a loop.
LEMMA ComesBack ==
    ASSUME NEW bal \in BOOLEAN, NEW g, NEW labels, NEW ends, NEW begin, NEW h, NEW q,
           Comes(bal, g, labels, {g.labels + 2}, ends, begin, h, q),
           Len(g.cmds) + 1 \in DOMAIN begin.cmds,
           begin.cmds[Len(g.cmds) + 1] = Cmd("label", g.labels + 1),
           bal => ends[g.labels + 1] = On(q.height, q.fun), q.fun \in 1 .. g.labels,
           NEW r \in Spot, r.fun \in 1 .. h.labels
    PROVE  Comes(bal, g, labels, {g.labels + 2}, ends, begin, Emit(h, Goto(g.labels + 1)), r)
<1> DEFINE x == g.labels + 1
           m == Len(g.cmds) + 1
           k == Emit(h, Goto(x))
           open == {g.labels + 2}
<1>1. /\ h \in Generators /\ h.labels \in Nat /\ g.labels \in Nat /\ g.labels <= h.labels
      /\ begin \in Generators /\ Begun(begin, h) /\ g.labels + 2 <= h.labels
  BY ComesTypes, Zenon
<1>2. /\ x \in 1 .. h.labels /\ x \in Int /\ x \notin open
      /\ x \in g.labels + 1 .. h.labels /\ x \in g.labels + 1 .. g.labels + 2
  BY <1>1
<1>3. PICK more : Reaches(bal, g, labels, open, h, more, q) /\ Ends(g, ends, more)
  BY DEF Comes
<1>4. more[x] = ends[x]
  BY <1>2, <1>3 DEF Ends
<1>5. Labelled(h, x) = {m}
  <2>1. h.cmds[m] = Cmd("label", x) /\ m \in DOMAIN h.cmds
    <3>1. /\ Len(begin.cmds) \in Nat /\ DOMAIN begin.cmds = 1 .. Len(begin.cmds)
          /\ Len(h.cmds) \in Nat /\ DOMAIN h.cmds = 1 .. Len(h.cmds)
      BY <1>1, GeneratorTypes, Zenon
    <3>2. Len(begin.cmds) <= Len(h.cmds) /\ h.cmds[m] = begin.cmds[m]
      BY <1>1 DEF Begun
    <3>3. m \in 1 .. Len(begin.cmds) /\ begin.cmds[m] = Cmd("label", x)
      BY <3>1
    <3> HIDE DEF m
    <3>4. m \in 1 .. Len(h.cmds)
      BY <3>1, <3>2, <3>3
    <3> QED BY <3>1, <3>2, <3>3, <3>4
  <2>2. m \in Labelled(h, x)
    <3>1. IsLabel(Cmd("label", x), x)
      BY DEF IsLabel, Cmd
    <3> QED BY <2>1, <3>1 DEF Labelled
  <2>3. \E i \in DOMAIN h.cmds : Labelled(h, x) = {i}
    BY <1>2, <1>3 DEF Reaches, Keeps
  <2> QED BY <2>2, <2>3
<1>6. Reaches(bal, g, labels, open, k, more, r)
  <2> HIDE DEF open, k, x
  <2> QED BY <1>2, <1>3, <1>4, <1>5, ReachGotoBack DEF k, x
<1>7. Begun(begin, k) /\ k.labels = h.labels
  <2> DEFINE pushed == Emit(h, <<PushNull>>)
             jump == Cmd("jump_unless", x)
  <2>1. pushed \in Generators /\ pushed.labels = h.labels
    BY <1>1, ZeroFields
  <2>2. Begun(begin, pushed)
    BY <1>1, NullIs, BegunEmit
  <2>3. jump \in Command
    BY <1>2, JumpIs
  <2>4. k = Emit(pushed, <<jump>>)
    BY <1>1, <1>2, GotoIs
  <2> HIDE DEF pushed, jump, k
  <2>5. Begun(begin, Emit(pushed, <<jump>>))
    BY <1>1, <2>1, <2>2, <2>3, BegunEmit
  <2>6. Emit(pushed, <<jump>>).labels = pushed.labels
    BY <2>1, <2>3, EmitFields
  <2> QED BY <2>1, <2>4, <2>5, <2>6
<1> HIDE DEF k
<1>8. Comes(bal, g, labels, open, ends, begin, k, r)
  BY <1>1, <1>3, <1>6, <1>7 DEF Comes
<1> QED BY <1>8 DEF k

\* The parts of a loop.
LEMMA ComesLoop ==
    ASSUME NEW gen, NEW T, Meets(gen, T), NEW c \in Surroundings, NEW e \in T[AsLoop[c]],
           NEW g, NEW labels, NEW q, Before(c, g, labels, q),
           NEW open, NEW ends, NEW begin, NEW h, begin.loops = Append(g.loops, g.labels + 2),
           g.labels + 2 \in open, ends[g.labels + 2] = q,
           Comes(Bal(c), g, labels, open, ends, begin, h, q)
    PROVE  Comes(Bal(c), g, labels, open, ends, begin, gen[<<h, e>>], On(q.height + 1, q.fun))
<1> DEFINE b == g.labels + 2
           d == AsLoop[c]
<1>1. /\ g \in Generators /\ g.labels \in Nat /\ q.zero = FALSE /\ q = On(q.height, q.fun)
  BY BeforeTypes, Zenon
<1>2. h.loops # << >> /\ Last(h.loops) = b
  <2>1. g.loops \in Seq(Nat) /\ b \in Nat
    <3>1. g.loops \in Seq(Nat)
      BY <1>1, GeneratorTypes, Zenon
    <3> QED BY <1>1, <3>1
  <2>2. h.loops = Append(g.loops, b)
    BY DEF Comes, Begun, SameScope
  <2> HIDE DEF b
  <2>3. Len(Append(g.loops, b)) = Len(g.loops) + 1 /\ Append(g.loops, b)[Len(g.loops) + 1] = b
    BY <2>1
  <2>4. h.loops # << >>
    <3>1. Len(g.loops) \in Nat /\ Len(h.loops) = Len(g.loops) + 1
      BY <2>1, <2>2, <2>3
    <3>2. h.loops = << >> => Len(h.loops) = 0
      OBVIOUS
    <3> QED BY <3>1, <3>2
  <2> QED BY <2>2, <2>3, <2>4 DEF Last
<1>3. Labelled(h, b) = {}
  BY ComesTypes, Zenon
<1>4. d \in Surroundings /\ Bal(d) = Bal(c) /\ d \in {"free", "loop", "inner"}
  BY DEF Surroundings, AsLoop, Bal
<1>5. d \in ReturnContexts \ {"free"} => c \in ReturnContexts \ {"free"}
  BY DEF Surroundings, AsLoop, ReturnContexts
<1>6. Placed(c, g, labels, q)
  BY DEF Before
<1> HIDE DEF d
<1>7. ASSUME NEW more, Reaches(Bal(d), g, labels, open, h, more, q), Ends(g, ends, more)
      PROVE  Placed(d, h, more, q)
  <2>1. more[b] = On(q.height, q.fun)
    <3>1. b \in g.labels + 1 .. g.labels + 2
      BY <1>1
    <3>2. more[b] = ends[b]
      BY <1>7, <3>1 DEF Ends
    <3> QED BY <1>1, <3>2
  <2>2. BreakReady(h, more, q)
    BY <1>2, <1>3, <2>1 DEF BreakReady
  <2>3. d \in ReturnContexts \ {"free"} => q.height = 0
    BY <1>5, <1>6 DEF Placed
  <2>4. d \notin {"main", "operand"}
    BY <1>4
  <2> QED BY <2>2, <2>3, <2>4 DEF Placed
<1>8. Comes(Bal(d), g, labels, open, ends, begin, h, q) /\ e \in T[d]
  BY <1>4 DEF d
<1>9. Comes(Bal(d), g, labels, open, ends, begin, gen[<<h, e>>], On(q.height + 1, q.fun))
  BY <1>1, <1>4, <1>7, <1>8, ComesPart
<1> QED BY <1>4, <1>9

\* One command that takes a number of values and leaves another.
LEMMA ComesPush ==
    ASSUME NEW bal \in BOOLEAN, NEW g, NEW labels, NEW open, NEW ends, NEW begin, NEW h, NEW q,
           Comes(bal, g, labels, open, ends, begin, h, q)
    PROVE  Comes(bal, g, labels, open, ends, begin, Emit(h, <<PushNull>>), On(q.height + 1, q.fun))
<1>1. q.height \in Nat
  BY ComesTypes, Zenon
<1>2. PushNull \in Command /\ PushNull.kind = "push_int"
  BY NullIs
<1>3. /\ Known(h, PushNull) /\ PopsOf(PushNull) = 0 /\ Pushes[PushNull.kind] = 1
      /\ PushNull.kind \notin {"label", "jump_unless"} /\ PushNull.kind # "return"
  BY <1>2 DEF Known, Pushes, PopsOf, Pops
<1> DEFINE cmd == PushNull
<1> HIDE DEF cmd
<1>4. /\ PopsOf(cmd) <= q.height /\ q.height + 1 \in Nat
      /\ q.height + 1 = q.height - PopsOf(cmd) + Pushes[cmd.kind]
  BY <1>1, <1>3 DEF cmd
<1>5. Comes(bal, g, labels, open, ends, begin, Emit(h, <<cmd>>), On(q.height + 1, q.fun))
  BY <1>2, <1>3, <1>4, ComesPlain DEF cmd
<1> QED BY <1>5 DEF cmd

LEMMA ComesPop ==
    ASSUME NEW bal \in BOOLEAN, NEW g, NEW labels, NEW open, NEW ends, NEW begin, NEW h, NEW q,
           Comes(bal, g, labels, open, ends, begin, h, q), q.height >= 1
    PROVE  Comes(bal, g, labels, open, ends, begin, Emit(h, <<Cmd("pop", 0)>>),
                 On(q.height - 1, q.fun))
<1> DEFINE cmd == Cmd("pop", 0)
<1>1. q.height \in Nat
  BY ComesTypes, Zenon
<1>2. cmd \in Command /\ cmd.kind = "pop"
  <2>1. "pop" \in Kinds
    BY DEF Kinds, Pushes
  <2> QED BY <2>1, CmdIs
<1> HIDE DEF cmd
<1>3. /\ Known(h, cmd) /\ PopsOf(cmd) = 1 /\ Pushes[cmd.kind] = 0
      /\ cmd.kind \notin {"label", "jump_unless"} /\ cmd.kind # "return"
  BY <1>2 DEF Known, Pushes, PopsOf, Pops
<1>4. /\ PopsOf(cmd) <= q.height /\ q.height - 1 \in Nat
      /\ q.height - 1 = q.height - PopsOf(cmd) + Pushes[cmd.kind]
  BY <1>1, <1>3
<1>5. Comes(bal, g, labels, open, ends, begin, Emit(h, <<cmd>>), On(q.height - 1, q.fun))
  BY <1>2, <1>3, <1>4, ComesPlain
<1> QED BY <1>5 DEF cmd

LEMMA MakesWhile ==
    ASSUME NEW gen, NEW T, Meets(gen, T), NEW c \in Surroundings,
           NEW e, e.cond \in T[AsLoop[c]], e.l \in T[AsLoop[c]],
           NEW g, NEW labels, NEW q, Before(c, g, labels, q)
    PROVE  Makes(c, g, labels, q, GenWhile(gen, g, e), q.height + 1)
<1> DEFINE a == g.labels + 1
           b == g.labels + 2
           r == On(q.height + 1, q.fun)
           ends == [x \in {a, b} |-> q]
           first == NewLabels(g)
           loops == Append(g.loops, b)
           begin == [first EXCEPT !.loops = loops]
           entry == Emit(begin, <<Cmd("label", a)>>)
           asked == gen[<<entry, e.cond>>]
           tested == Emit(asked, <<Cmd("jump_unless", b)>>)
           one == gen[<<tested, e.l>>]
           popped == Emit(one, <<Cmd("pop", 0)>>)
           body == Emit(popped, Goto(a))
           done == Emit(body, <<Cmd("label", b)>>)
           last == Emit(done, <<PushNull>>)
<1>1. /\ Sound(Bal(c), g, labels, q) /\ g \in Generators /\ g.labels \in Nat
      /\ q \in Spot /\ q.height \in Nat /\ q.fun \in 1 .. g.labels /\ q.zero = FALSE
      /\ q = On(q.height, q.fun)
  BY BeforeTypes, Zenon
<1>2. /\ r \in Spot /\ r.zero = FALSE /\ r.height = q.height + 1 /\ r.fun = q.fun
      /\ r.height >= 1 /\ On(r.height - 1, r.fun) = q
  <2>1. q.fun \in Nat /\ q.height + 1 \in Nat
    BY <1>1
  <2>2. r \in Spot /\ r.zero = FALSE /\ r.height = q.height + 1 /\ r.fun = q.fun
    BY <2>1 DEF Spot, On
  <2>3. r.height >= 1 /\ r.height - 1 = q.height
    BY <1>1, <2>2
  <2> QED BY <1>1, <2>2, <2>3
<1>3. /\ a \in {a, b} \cap (g.labels + 1 .. g.labels + 2) /\ a # b
      /\ b \in {b} \cap (g.labels + 1 .. g.labels + 2) /\ {a, b} \ {a} = {b} /\ {b} \ {b} = {}
      /\ \A x \in g.labels + 1 .. g.labels + 2 : x \in {a, b}
  BY <1>1
<1>4. ends[a] = q /\ ends[b] = q
  BY <1>3
<1>5. Bal(c) \in BOOLEAN
  BY BalIs
<1>6. /\ Comes(Bal(c), g, labels, {a, b}, ends, first, first, q) /\ SameScope(g, first)
      /\ first.labels = b /\ first.cmds = g.cmds /\ first.scopes = g.scopes
  <2>1. \A x \in g.labels + 1 .. g.labels + 2 : ends[x] \in Spot /\ ends[x].zero = FALSE
    BY <1>1, <1>3
  <2> HIDE DEF ends
  <2> QED BY <1>1, <2>1, ComesNew
<1> HIDE DEF ends, first
<1>7. first \in Generators /\ first.scope \in DOMAIN first.scopes
  BY <1>6, ComesTypes, Zenon
<1>8. /\ g.loops \in Seq(Nat) /\ loops \in Seq(Nat)
      /\ \A l \in DOMAIN loops : loops[l] \in 1 .. b
  <2>1. g.loops \in Seq(Nat)
    BY <1>1, GeneratorTypes, Zenon
  <2>2. \A l \in DOMAIN g.loops : g.loops[l] \in 1 .. g.labels
    BY <1>1 DEF Sound
  <2>3. b \in Nat
    BY <1>1
  <2>4. /\ loops \in Seq(Nat) /\ DOMAIN loops = 1 .. Len(g.loops) + 1
        /\ loops[Len(g.loops) + 1] = b /\ \A l \in 1 .. Len(g.loops) : loops[l] = g.loops[l]
    <3> HIDE DEF b
    <3> QED BY <2>1, <2>3
  <2>5. DOMAIN g.loops = 1 .. Len(g.loops) /\ Len(g.loops) \in Nat
    BY <2>1
  <2> HIDE DEF loops
  <2>6. \A l \in DOMAIN loops : l = Len(g.loops) + 1 \/ l \in DOMAIN g.loops
    BY <2>4, <2>5
  <2>7. \A x \in 1 .. g.labels : x \in 1 .. b
    BY <1>1
  <2>8. b \in 1 .. b
    BY <1>1
  <2>9. \A l \in DOMAIN loops : loops[l] \in 1 .. b
    BY <2>2, <2>4, <2>5, <2>6, <2>7, <2>8
  <2> QED BY <2>1, <2>4, <2>9
<1>9. /\ begin \in Generators /\ begin.loops = loops
      /\ begin.cmds = g.cmds /\ begin.labels = first.labels /\ begin.funs = first.funs
      /\ begin.scopes = first.scopes /\ begin.scope = first.scope
  <2> HIDE DEF loops
  <2> QED BY <1>6, <1>7, <1>8, LoopsFields
<1> HIDE DEF begin
<1>10. Comes(Bal(c), g, labels, {a, b}, ends, begin, begin, q)
  <2>1. Len(first.scopes) \in Nat
    BY <1>7, GeneratorTypes, Zenon
  <2>2. Len(first.scopes) <= Len(begin.scopes) /\ begin.scope \in DOMAIN begin.scopes
    BY <1>7, <1>9, <2>1
  <2>3. \A l \in DOMAIN begin.loops : begin.loops[l] \in 1 .. begin.labels
    BY <1>6, <1>8, <1>9
  <2> HIDE DEF loops
  <2> QED BY <1>6, <1>9, <2>2, <2>3, ComesSame
<1>11. Comes(Bal(c), g, labels, {a, b} \ {a}, ends, begin, entry, q)
  BY <1>3, <1>4, <1>5, <1>10, ComesLabel
<1>12. Cmd("label", a) \in Command /\ Cmd("label", b) \in Command
  <2>1. "label" \in Kinds /\ a \in Int /\ b \in Int
    BY <1>1 DEF Kinds, Pushes
  <2> QED BY <2>1, CmdIs
<1>13. /\ Len(g.cmds) + 1 \in DOMAIN entry.cmds
       /\ entry.cmds[Len(g.cmds) + 1] = Cmd("label", a)
       /\ entry.loops = loops
  <2>1. entry.cmds = Append(g.cmds, Cmd("label", a)) /\ entry.loops = loops
    BY <1>9, <1>12, EmitFields
  <2>2. g.cmds \in Seq(Command)
    BY <1>1, GeneratorTypes, Zenon
  <2> QED BY <2>1, <2>2
<1>14. Comes(Bal(c), g, labels, {b}, ends, entry, entry, q)
  <2>1. Comes(Bal(c), g, labels, {b}, ends, begin, entry, q)
    BY <1>3, <1>11
  <2> QED BY <2>1, ComesFrom
<1> HIDE DEF entry, loops
<1>15. Comes(Bal(c), g, labels, {b}, ends, entry, asked, r)
  <2>1. entry.loops = Append(g.loops, b)
    BY <1>13 DEF loops
  <2> QED BY <1>3, <1>4, <1>14, <2>1, ComesLoop
<1> HIDE DEF asked
<1>16. Comes(Bal(c), g, labels, {b}, ends, entry, tested, q)
  <2>1. Comes(Bal(c), g, labels, {b}, ends, entry, tested, On(r.height - 1, r.fun))
    <3> HIDE DEF r
    <3>1. ends[b] = On(r.height - 1, r.fun)
      BY <1>2, <1>4
    <3> QED BY <1>2, <1>3, <1>5, <1>15, <3>1, ComesJump
  <2> QED BY <2>1, <1>2
<1> HIDE DEF tested
<1>17. Comes(Bal(c), g, labels, {b}, ends, entry, one, r)
  <2>1. entry.loops = Append(g.loops, b)
    BY <1>13 DEF loops
  <2> QED BY <1>3, <1>4, <1>16, <2>1, ComesLoop
<1> HIDE DEF one
<1>18. Comes(Bal(c), g, labels, {b}, ends, entry, popped, q)
  <2>1. Comes(Bal(c), g, labels, {b}, ends, entry, popped, On(r.height - 1, r.fun))
    <3> HIDE DEF r
    <3> QED BY <1>2, <1>5, <1>17, ComesPop
  <2> QED BY <2>1, <1>2
<1>19. popped \in Generators /\ popped.labels \in Nat /\ g.labels <= popped.labels
  BY <1>18, ComesTypes, Zenon
<1>20. Emit(one, <<Cmd("pop", 0)>> \o Goto(a)) = body
  <2>1. one \in Generators
    BY <1>17, ComesTypes, Zenon
  <2>2. PushNull \in Command /\ Cmd("jump_unless", a) \in Command /\ Cmd("pop", 0) \in Command
    <3>1. "pop" \in Kinds /\ a \in Int
      BY <1>1 DEF Kinds, Pushes
    <3> QED BY <3>1, NullIs, JumpIs, CmdIs
  <2>3. Goto(a) \in Seq(Command) /\ <<Cmd("pop", 0)>> \in Seq(Command)
    BY <2>2 DEF Goto
  <2> QED BY <2>1, <2>3, EmitCat
<1> HIDE DEF popped
<1>21. Comes(Bal(c), g, labels, {b}, ends, entry, body, q)
  <2>1. q.fun \in 1 .. popped.labels
    BY <1>1, <1>19
  <2>2. ends[a] = On(q.height, q.fun)
    BY <1>1, <1>4
  <2> QED BY <1>1, <1>5, <1>13, <1>18, <2>1, <2>2, ComesBack
<1> HIDE DEF body
<1>22. Comes(Bal(c), g, labels, {b} \ {b}, ends, entry, done, q)
  BY <1>3, <1>4, <1>5, <1>21, ComesLabel
<1>23. Emit(body, <<Cmd("label", b), PushNull>>) = last
  <2>1. body \in Generators
    BY <1>21, ComesTypes, Zenon
  <2>2. PushNull \in Command
    BY NullIs
  <2> QED BY <1>12, <2>1, <2>2, EmitTwo
<1> HIDE DEF done
<1>24. Comes(Bal(c), g, labels, {}, ends, entry, last, r)
  <2>1. Comes(Bal(c), g, labels, {}, ends, entry, done, q)
    BY <1>3, <1>22
  <2> QED BY <1>5, <2>1, ComesPush
<1> HIDE DEF last
<1> DEFINE k == [last EXCEPT !.loops = g.loops]
<1>25. last \in Generators /\ last.scope \in DOMAIN last.scopes
  BY <1>24, ComesTypes, Zenon
<1>26. /\ k \in Generators /\ k.loops = g.loops
       /\ k.cmds = last.cmds /\ k.labels = last.labels /\ k.funs = last.funs
       /\ k.scopes = last.scopes /\ k.scope = last.scope
  BY <1>8, <1>25, LoopsFields
<1>27. last.loops = loops /\ last.scope = g.scope
  <2>1. last.loops = entry.loops /\ last.scope = entry.scope
    BY <1>24 DEF Comes, Begun, SameScope
  <2>2. entry.scope = begin.scope /\ begin.scope = g.scope
    <3>1. entry.scope = begin.scope
      BY <1>11 DEF Comes, Begun, SameScope
    <3> QED BY <3>1, <1>6, <1>9 DEF SameScope
  <2> QED BY <2>1, <2>2, <1>13
<1>28. [last EXCEPT !.loops = Front(@)] = k
  <2>1. Front(loops) = g.loops
    <3>1. g.loops \in Seq(Nat) /\ b \in Nat
      BY <1>1, <1>8
    <3> HIDE DEF b
    <3>2. Front(Append(g.loops, b)) = g.loops
      BY <3>1 DEF Front
    <3> QED BY <3>2 DEF loops
  <2>2. [last EXCEPT !.loops = Front(@)] = [last EXCEPT !.loops = Front(last.loops)]
    OBVIOUS
  <2> QED BY <2>1, <2>2, <1>27
<1>29. Makes(c, g, labels, q, k, q.height + 1)
  <2>1. SameScope(g, k) /\ k.scope \in DOMAIN k.scopes
    BY <1>25, <1>26, <1>27 DEF SameScope
  <2>2. Len(last.scopes) \in Nat
    BY <1>25, GeneratorTypes, Zenon
  <2>3. Len(last.scopes) <= Len(k.scopes)
    BY <1>26, <2>2
  <2>4. \A s \in DOMAIN last.scopes : k.scopes[s].parent = last.scopes[s].parent
    BY <1>26
  <2> HIDE DEF k
  <2> QED BY <1>24, <1>26, <2>1, <2>3, <2>4, ComesEnd
<1>30. GenWhile(gen, g, e) = k
  <2>1. GenWhile(gen, g, e) = [last EXCEPT !.loops = Front(@)]
    <3>1. begin = [NewLabels(g) EXCEPT !.loops = Append(@, b)]
      BY <1>6 DEF begin, first, loops, SameScope
    <3>2. last = Emit(body, <<Cmd("label", b), PushNull>>)
      BY <1>23
    <3>3. body = Emit(one, <<Cmd("pop", 0)>> \o Goto(a))
      BY <1>20
    <3> HIDE DEF k
    <3> QED BY <3>1, <3>2, <3>3 DEF GenWhile, one, tested, asked, entry
  <2> QED BY <2>1, <1>28
<1> QED BY <1>29, <1>30

\* A function is added.
LEMMA ReachFun ==
    ASSUME NEW bal, NEW g, NEW labels, NEW open, NEW h, NEW more, NEW q, NEW k \in Generators,
           NEW fun, fun.scope \in DOMAIN h.scopes, fun.label \in 2 .. h.labels,
           bal => more[fun.label] = On(0, fun.label),
           fun \in [scope : Nat, label : Nat],
           Reaches(bal, g, labels, open, h, more, q),
           k.cmds = h.cmds, k.labels = h.labels, k.funs = Append(h.funs, fun),
           k.scopes = h.scopes, k.loops = h.loops, k.scope \in DOMAIN k.scopes
    PROVE  Reaches(bal, g, labels, open, k, more, q)
<1>1. Sound(bal, h, more, q) /\ Keeps(g, h, open)
  BY DEF Reaches
<1>2. h \in Generators
  BY <1>1 DEF Sound
<1>3. h.funs \in Seq([scope : Nat, label : Nat])
  BY <1>2, GeneratorTypes, Zenon
<1>4. /\ \A f \in DOMAIN h.funs : f \in DOMAIN k.funs
      /\ \A f \in DOMAIN k.funs : k.funs[f] = fun \/ (f \in DOMAIN h.funs /\ k.funs[f] = h.funs[f])
  <2> DEFINE Recs == [scope : Nat, label : Nat]
             funs == h.funs
  <2>1. funs \in Seq(Recs) /\ fun \in Recs
    BY <1>3
  <2> HIDE DEF Recs, funs
  <2>2. /\ \A f \in DOMAIN funs : f \in DOMAIN Append(funs, fun)
        /\ \A f \in DOMAIN Append(funs, fun) :
               Append(funs, fun)[f] = fun
               \/ (f \in DOMAIN funs /\ Append(funs, fun)[f] = funs[f])
    BY <2>1
  <2> QED BY <2>2 DEF funs
<1>5. ASSUME NEW places, Laid(bal, h, more, places) PROVE Laid(bal, k, more, places)
  <2>1. \A cmd : Known(h, cmd) => Known(k, cmd)
    BY <1>4 DEF Known
  <2> QED BY <1>5, <2>1 DEF Laid
<1>6. \E places : Laid(bal, k, more, places) /\ places[Len(places)] = q
  BY <1>1, <1>5 DEF Sound
<1>7. ASSUME NEW f \in DOMAIN k.funs
      PROVE  /\ k.funs[f].scope \in DOMAIN k.scopes /\ k.funs[f].label \in 2 .. k.labels
             /\ bal => more[k.funs[f].label] = On(0, k.funs[f].label)
  <2>1. CASE k.funs[f] = fun
    BY <2>1
  <2>2. CASE f \in DOMAIN h.funs /\ k.funs[f] = h.funs[f]
    BY <2>2, <1>1 DEF Sound
  <2> QED BY <1>4, <2>1, <2>2
<1>8. /\ more \in Seq(Spot) /\ Len(more) = k.labels
      /\ \A x \in DOMAIN more : more[x].zero = FALSE
      /\ \A l \in DOMAIN k.loops : k.loops[l] \in 1 .. k.labels
      /\ q \in Spot /\ q.fun \in 1 .. k.labels
  BY <1>1 DEF Sound
<1>9. Sound(bal, k, more, q)
  BY <1>6, <1>7, <1>8 DEF Sound
<1>10. Keeps(g, k, open)
  BY <1>1 DEF Keeps, Labelled
<1> QED BY <1>9, <1>10 DEF Reaches

\* What concerns neither commands, labels, loops nor functions, from the same beginning.
LEMMA ComesAside ==
    ASSUME NEW bal, NEW g, NEW labels, NEW open, NEW ends, NEW begin, NEW h, NEW q, NEW k \in Generators,
           Comes(bal, g, labels, open, ends, begin, h, q),
           k.cmds = h.cmds, k.labels = h.labels, k.funs = h.funs, SameScope(h, k),
           Scoped(h, k), k.scope \in DOMAIN k.scopes
    PROVE  Comes(bal, g, labels, open, ends, begin, k, q)
<1>1. PICK more : Reaches(bal, g, labels, open, h, more, q) /\ Ends(g, ends, more)
  BY DEF Comes
<1>2. \A l \in DOMAIN k.loops : k.loops[l] \in 1 .. k.labels
  BY <1>1 DEF Reaches, Sound, SameScope
<1>3. Reaches(bal, g, labels, open, k, more, q)
  BY <1>1, <1>2, ReachSame DEF Scoped
<1>4. h \in Generators /\ begin \in Generators /\ Begun(begin, h) /\ g.labels + 2 <= h.labels
  BY ComesTypes, Zenon
<1>5. Begun(begin, k)
  <2>1. Len(h.cmds) <= Len(k.cmds) /\ \A i \in DOMAIN h.cmds : k.cmds[i] = h.cmds[i]
    <3>1. Len(h.cmds) \in Nat
      BY <1>4, GeneratorTypes, Zenon
    <3> QED BY <3>1
  <2> QED BY <1>4, <2>1, BegunTrans
<1> QED BY <1>1, <1>3, <1>4, <1>5 DEF Comes

LEMMA ComesErr ==
    ASSUME NEW bal \in BOOLEAN, NEW g, NEW labels, NEW open, NEW ends, NEW begin, NEW h, NEW q,
           Comes(bal, g, labels, open, ends, begin, h, q), q = On(q.height, q.fun)
    PROVE  Comes(bal, g, labels, open, ends, begin, EmitErr(h, Message), q)
<1> DEFINE k == AddData(h, Message)
           cmd == Cmd("err", Len(h.data))
<1>1. h \in Generators /\ q.height \in Nat /\ h.scope \in DOMAIN h.scopes
  BY ComesTypes, Zenon
<1>2. Message \in Seq(Int)
  BY DEF Message
<1>3. /\ k \in Generators /\ SameScope(h, k)
      /\ k.cmds = h.cmds /\ k.labels = h.labels /\ k.funs = h.funs /\ k.scopes = h.scopes
  BY <1>1, <1>2, AddDataFields
<1>4. Len(h.scopes) \in Nat /\ Len(h.data) \in Int
  BY <1>1 DEF Generators
<1> HIDE DEF k
<1>5. Scoped(h, k) /\ k.scope \in DOMAIN k.scopes
  BY <1>1, <1>3, <1>4 DEF Scoped, SameScope
<1>6. Comes(bal, g, labels, open, ends, begin, k, q)
  BY <1>3, <1>5, ComesAside
<1>7. cmd \in Command /\ cmd.kind = "err"
  <2>1. "err" \in Kinds
    BY DEF Kinds, Pushes
  <2> QED BY <1>4, <2>1, CmdIs
<1> HIDE DEF cmd
<1>8. PopsOf(cmd) = 0 /\ Known(k, cmd)
  BY <1>7 DEF PopsOf, Pops, Pushes, Known
<1>9. PopsOf(cmd) <= q.height
  BY <1>1, <1>8
<1>10. Comes(bal, g, labels, open, ends, begin, Emit(k, <<cmd>>), On(q.height, q.fun))
  BY <1>1, <1>6, <1>7, <1>8, <1>9, ComesPlain
<1> QED BY <1>10 DEF EmitErr, k, cmd

LEMMA ComesParam ==
    ASSUME NEW bal \in BOOLEAN, NEW g, NEW labels, NEW open, NEW ends, NEW begin, NEW h, NEW q,
           Comes(bal, g, labels, open, ends, begin, h, q), q = On(q.height, q.fun),
           NEW param, param.kind = "ident" => param.name \in STRING
    PROVE  Comes(bal, g, labels, open, ends, begin, AddParam(h, param), q)
<1>1. CASE param.kind = "ident"
  <2> DEFINE k == AddLocal(h, param.name)
  <2>1. h \in Generators /\ h.scope \in DOMAIN h.scopes
    BY ComesTypes, Zenon
  <2>2. param.name \in STRING
    BY <1>1
  <2>3. /\ k \in Generators /\ SameScope(h, k)
        /\ k.cmds = h.cmds /\ k.labels = h.labels /\ k.funs = h.funs
        /\ Len(k.scopes) = Len(h.scopes) /\ DOMAIN k.scopes = DOMAIN h.scopes
        /\ \A s \in DOMAIN h.scopes : k.scopes[s].parent = h.scopes[s].parent
    BY <2>1, <2>2, AddLocalFields
  <2>4. Len(h.scopes) \in Nat
    BY <2>1, GeneratorTypes, Zenon
  <2> HIDE DEF k
  <2>5. Scoped(h, k) /\ k.scope \in DOMAIN k.scopes
    BY <2>1, <2>3, <2>4 DEF Scoped, SameScope
  <2>6. Comes(bal, g, labels, open, ends, begin, k, q)
    BY <2>3, <2>5, ComesAside
  <2> QED BY <1>1, <2>6 DEF AddParam, k
<1>2. CASE param.kind # "ident"
  <2>1. Comes(bal, g, labels, open, ends, begin, EmitErr(h, Message), q)
    BY ComesErr
  <2> QED BY <1>2, <2>1 DEF AddParam
<1> QED BY <1>1, <1>2

LEMMA ComesParams ==
    ASSUME NEW bal \in BOOLEAN, NEW g, NEW labels, NEW open, NEW ends, NEW begin, NEW h, NEW q,
           Comes(bal, g, labels, open, ends, begin, h, q), q = On(q.height, q.fun),
           NEW S, NEW e, e.subs \in Seq(S),
           \A param \in S : param.kind = "ident" => param.name \in STRING
    PROVE  Comes(bal, g, labels, open, ends, begin, AddParams(h, e), q)
<1> DEFINE n == Len(e.subs)
           step == [x \in (DOMAIN e.subs) \X Generators |-> AddParam(x[2], e.subs[x[1]])]
           one == {k \in Generators : Comes(bal, g, labels, open, ends, begin, k, q)}
           Recs == [i \in 0 .. n |-> one]
<1>1. n \in Nat /\ DOMAIN e.subs = 1 .. n
  OBVIOUS
<1>2. h \in one
  <2>1. h \in Generators
    BY ComesTypes, Zenon
  <2> QED BY <2>1
<1>3. h \in Recs[0]
  <2> HIDE DEF one
  <2> QED BY <1>1, <1>2
<1>4. ASSUME NEW i \in 1 .. n, NEW k \in Recs[i - 1] PROVE step[<<i, k>>] \in Recs[i]
  <2>1. Recs[i - 1] = one /\ Recs[i] = one
    <3> HIDE DEF one
    <3> QED BY <1>1
  <2>2. k \in Generators /\ Comes(bal, g, labels, open, ends, begin, k, q)
    BY <1>4, <2>1
  <2>3. i \in DOMAIN e.subs /\ e.subs[i] \in S
    BY <1>1
  <2> HIDE DEF Recs
  <2>4. step[<<i, k>>] = AddParam(k, e.subs[i])
    BY <2>2, <2>3
  <2> HIDE DEF step
  <2>5. Comes(bal, g, labels, open, ends, begin, AddParam(k, e.subs[i]), q)
    BY <2>2, <2>3, ComesParam
  <2>6. AddParam(k, e.subs[i]) \in Generators
    BY <2>5, ComesTypes, Zenon
  <2> QED BY <2>1, <2>4, <2>5, <2>6
<1>5. AddParams(h, e) = Repeat(step, n, h)
  BY DEF AddParams
<1>6. Recs[n] = one
  <2> HIDE DEF one
  <2> QED BY <1>1
<1> HIDE DEF step, Recs, n
<1>7. Repeat(step, n, h) \in Recs[n]
  BY <1>1, <1>3, <1>4, RepeatHolds
<1> QED BY <1>5, <1>6, <1>7

\* After a return may be anything.
LEMMA ComesReturn ==
    ASSUME NEW bal \in BOOLEAN, NEW g, NEW labels, NEW open, NEW ends, NEW begin, NEW h, NEW q,
           Comes(bal, g, labels, open, ends, begin, h, q), bal => q.height = 1,
           NEW r \in Spot, r.fun \in 1 .. h.labels
    PROVE  Comes(bal, g, labels, open, ends, begin, Emit(h, <<Cmd("return", 0)>>), r)
<1> DEFINE cmd == Cmd("return", 0)
<1>1. cmd \in Command /\ cmd.kind = "return"
  <2>1. "return" \in Kinds
    BY DEF Kinds, Pushes
  <2> QED BY <2>1, CmdIs
<1>2. q.height \in Nat
  BY ComesTypes, Zenon
<1> HIDE DEF cmd
<1>3. \A more : Goes(bal, h, more, q, cmd, r)
  <2>1. Known(h, cmd) /\ PopsOf(cmd) = 0
    BY <1>1 DEF Known, PopsOf, Pops, Pushes
  <2>2. \A more : bal => Suits(more, q, cmd)
    BY <1>1, <1>2, <2>1 DEF Suits
  <2>3. Leads(q, cmd, r)
    BY <1>1 DEF Leads, Leaves
  <2> QED BY <1>1, <2>1, <2>2, <2>3 DEF Goes
<1>4. \A more : Reaches(bal, g, labels, open, h, more, q)
                => Reaches(bal, g, labels, open, Emit(h, <<cmd>>), more, r)
  <2>1. cmd.kind # "label" /\ cmd.kind # "jump_unless"
    BY <1>1
  <2> QED BY <1>3, <2>1, ReachEmit
<1>5. Comes(bal, g, labels, open, ends, begin, Emit(h, <<cmd>>), r)
  BY <1>1, <1>4, ComesStep
<1> QED BY <1>5 DEF cmd

\* The body of a function.
LEMMA ComesBody ==
    ASSUME NEW gen, NEW T, Meets(gen, T), NEW c \in Surroundings, NEW e \in T[AsBody[c]],
           NEW g, NEW labels, NEW q, Before(c, g, labels, q),
           NEW open, NEW ends, NEW begin, NEW h, NEW x, h.loops = g.loops,
           Comes(Bal(c), g, labels, open, ends, begin, h, On(0, x))
    PROVE  Comes(Bal(c), g, labels, open, ends, begin, gen[<<h, e>>], On(1, x))
<1> DEFINE d == AsBody[c]
           p == On(0, x)
<1>1. d \in Surroundings /\ Bal(d) = Bal(c) /\ d \notin {"loop", "inner"}
  BY DEF Surroundings, AsBody, Bal
<1>2. d \in {"main", "operand"} => c \in {"main", "operand"}
  BY DEF Surroundings, AsBody
<1>3. Placed(c, g, labels, q)
  BY DEF Before
<1> HIDE DEF d
<1>4. p.height = 0 /\ p.zero = FALSE /\ p.fun = x
  BY DEF On
<1> HIDE DEF p
<1>5. \A more : Placed(d, h, more, p)
  BY <1>1, <1>2, <1>3, <1>4 DEF Placed
<1>6. Comes(Bal(d), g, labels, open, ends, begin, h, p) /\ e \in T[d]
  BY <1>1 DEF d, p
<1>7. Comes(Bal(d), g, labels, open, ends, begin, gen[<<h, e>>], On(p.height + 1, p.fun))
  BY <1>1, <1>4, <1>5, <1>6, ComesPart
<1>8. On(p.height + 1, p.fun) = On(1, x)
  BY <1>4
<1> QED BY <1>1, <1>7, <1>8

\* Where a function is defined.
LEMMA ComesClosure ==
    ASSUME NEW bal \in BOOLEAN, NEW g, NEW labels, NEW open, NEW ends, NEW begin, NEW h, NEW q,
           Comes(bal, g, labels, open, ends, begin, h, q), NEW n \in DOMAIN h.funs
    PROVE  Comes(bal, g, labels, open, ends, begin, Emit(h, <<Cmd("push_closure", n)>>),
                 On(q.height + 1, q.fun))
<1> DEFINE cmd == Cmd("push_closure", n)
<1>1. q.height \in Nat /\ h \in Generators
  BY ComesTypes, Zenon
<1>2. n \in Int
  <2>1. h.funs \in Seq([scope : Nat, label : Nat])
    BY <1>1, GeneratorTypes, Zenon
  <2> QED BY <2>1
<1>3. cmd \in Command /\ cmd.kind = "push_closure" /\ cmd.x = n
  <2>1. "push_closure" \in Kinds
    BY DEF Kinds, Pushes
  <2> QED BY <1>2, <2>1, CmdIs
<1> HIDE DEF cmd
<1>4. /\ Known(h, cmd) /\ PopsOf(cmd) = 0 /\ Pushes[cmd.kind] = 1
      /\ cmd.kind \notin {"label", "jump_unless"} /\ cmd.kind # "return"
  BY <1>3 DEF Known, Pushes, PopsOf, Pops
<1>5. /\ PopsOf(cmd) <= q.height /\ q.height + 1 \in Nat
      /\ q.height + 1 = q.height - PopsOf(cmd) + Pushes[cmd.kind]
  BY <1>1, <1>4
<1>6. Comes(bal, g, labels, open, ends, begin, Emit(h, <<cmd>>), On(q.height + 1, q.fun))
  BY <1>3, <1>4, <1>5, ComesPlain
<1> QED BY <1>6 DEF cmd

\* Back in the function around, with one function more.
LEMMA ComesOut ==
    ASSUME NEW bal, NEW g, NEW labels, NEW open, NEW ends, NEW begin, NEW h, NEW q,
           Comes(bal, g, labels, open, ends, begin, h, q),
           NEW x \in g.labels + 1 .. g.labels + 2, x # 1, bal => ends[x] = On(0, x),
           h.scopes[h.scope].parent \in DOMAIN h.scopes
    PROVE  LET k == [PopScope(h) EXCEPT !.funs = Append(@, [scope |-> h.scope, label |-> x])]
           IN /\ Comes(bal, g, labels, open, ends, k, k, q)
              /\ k.scope = h.scopes[h.scope].parent /\ k.loops = h.loops
              /\ Len(k.funs) \in DOMAIN k.funs
<1> DEFINE fun == [scope |-> h.scope, label |-> x]
           parent == h.scopes[h.scope].parent
           k == [h EXCEPT !.scope = parent, !.funs = Append(h.funs, fun)]
           Recs == [scope : Nat, label : Nat]
<1>1. /\ h \in Generators /\ h.labels \in Nat /\ g.labels \in Nat /\ g.labels + 2 <= h.labels
      /\ h.scope \in DOMAIN h.scopes
  BY ComesTypes, Zenon
<1>2. /\ h.funs \in Seq(Recs) /\ h.scope \in Nat /\ DOMAIN h.scopes = 1 .. Len(h.scopes)
      /\ Len(h.scopes) \in Nat
  BY <1>1, GeneratorTypes, Zenon
<1>3. /\ fun \in Recs /\ fun.scope = h.scope /\ fun.label = x
      /\ x \in 2 .. h.labels /\ x \in Nat /\ parent \in Nat
  BY <1>1, <1>2
<1>4. Append(h.funs, fun) \in Seq(Recs) /\ Len(Append(h.funs, fun)) \in DOMAIN Append(h.funs, fun)
  <2> DEFINE funs == h.funs
  <2> HIDE DEF fun, Recs, funs
  <2>1. funs \in Seq(Recs) /\ fun \in Recs
    BY <1>2, <1>3 DEF funs
  <2>2. Append(funs, fun) \in Seq(Recs) /\ Len(Append(funs, fun)) \in DOMAIN Append(funs, fun)
    BY <2>1
  <2> QED BY <2>2 DEF funs
<1>5. /\ k \in Generators /\ k.scope = parent /\ k.funs = Append(h.funs, fun)
      /\ k.cmds = h.cmds /\ k.labels = h.labels /\ k.scopes = h.scopes /\ k.loops = h.loops
  <2> DEFINE more == Append(h.funs, fun)
  <2>1. more \in Seq([scope : Nat, label : Nat])
    BY <1>4
  <2> HIDE DEF more, parent
  <2>2. LET m == [h EXCEPT !.scope = parent, !.funs = more]
        IN /\ m \in Generators /\ m.scope = parent /\ m.funs = more
           /\ m.cmds = h.cmds /\ m.labels = h.labels /\ m.scopes = h.scopes /\ m.loops = h.loops
    BY <1>1, <1>3, <2>1 DEF Generators
  <2> QED BY <2>2 DEF more
<1>6. [PopScope(h) EXCEPT !.funs = Append(@, [scope |-> h.scope, label |-> x])] = k
  BY <1>1 DEF PopScope, Generators
<1>7. PICK more : Reaches(bal, g, labels, open, h, more, q) /\ Ends(g, ends, more)
  BY DEF Comes
<1>8. more[x] = ends[x]
  BY <1>7 DEF Ends
<1> HIDE DEF k, fun, Recs
<1>9. Reaches(bal, g, labels, open, k, more, q)
  <2>1. fun \in [scope : Nat, label : Nat]
    BY <1>3 DEF Recs
  <2>2. fun.scope \in DOMAIN h.scopes /\ fun.label \in 2 .. h.labels
    BY <1>1, <1>3
  <2>3. bal => more[fun.label] = On(0, fun.label)
    BY <1>3, <1>8
  <2>4. k.scope \in DOMAIN k.scopes
    BY <1>5
  <2> QED BY <1>5, <1>7, <2>1, <2>2, <2>3, <2>4, ReachFun
<1>10. Begun(k, k)
  BY <1>5, BegunSelf
<1>11. Comes(bal, g, labels, open, ends, k, k, q)
  BY <1>1, <1>5, <1>7, <1>9, <1>10 DEF Comes
<1> QED BY <1>4, <1>5, <1>6, <1>11

LEMMA ComesKept ==
    ASSUME NEW bal, NEW g, NEW labels, NEW open, NEW ends, NEW begin, NEW h, NEW q,
           Comes(bal, g, labels, open, ends, begin, h, q)
    PROVE  /\ Scoped(g, h)
           /\ \A l \in DOMAIN h.loops : h.loops[l] \in 1 .. h.labels
           /\ SameScope(begin, h) /\ Scoped(begin, h)
BY DEF Comes, Reaches, Keeps, Scoped, Sound, Begun

LEMMA MakesFun ==
    ASSUME NEW gen, NEW T, Meets(gen, T), Layered(T), NEW c \in Surroundings,
           NEW e, e.l \in T[AsBody[c]], e.subs \in Seq(T[AsOperand[c]]),
           NEW g, NEW labels, NEW q, Before(c, g, labels, q)
    PROVE  Makes(c, g, labels, q, GenFun(gen, g, e), q.height + 1)
<1> DEFINE a == g.labels + 1
           b == g.labels + 2
           p == On(0, a)
           ends == [x \in {a, b} |-> IF x = a THEN p ELSE q]
           first == NewLabels(g)
           gone == Emit(first, Goto(b))
           marked == Emit(gone, <<Cmd("label", a)>>)
           entry == PushScope(marked)
           params == AddParams(entry, e)
           one == gen[<<params, e.l>>]
           body == Emit(one, <<Cmd("return", 0)>>)
           after == [PopScope(body) EXCEPT !.funs = Append(@, [scope |-> body.scope, label |-> a])]
           done == Emit(after, <<Cmd("label", b)>>)
           n == Len(after.funs)
           last == Emit(done, <<Cmd("push_closure", n)>>)
<1>1. /\ Sound(Bal(c), g, labels, q) /\ g \in Generators /\ g.labels \in Nat
      /\ q \in Spot /\ q.height \in Nat /\ q.fun \in 1 .. g.labels /\ q.zero = FALSE
      /\ q = On(q.height, q.fun) /\ g.scope \in DOMAIN g.scopes
  BY BeforeTypes, Zenon
<1>2. p \in Spot /\ p.zero = FALSE /\ p.height = 0 /\ p.fun = a
  <2>1. a \in Nat
    BY <1>1
  <2> QED BY <2>1 DEF Spot, On
<1>3. /\ a \in {a, b} \cap (g.labels + 1 .. g.labels + 2) /\ a # b /\ a # 1
      /\ b \in {a, b} \cap (g.labels + 1 .. g.labels + 2)
      /\ b \in {b} \cap (g.labels + 1 .. g.labels + 2) /\ {a, b} \ {a} = {b} /\ {b} \ {b} = {}
      /\ \A x \in g.labels + 1 .. g.labels + 2 : x \in {a, b}
  BY <1>1
<1>4. ends[a] = p /\ ends[b] = q
  BY <1>3
<1>5. Bal(c) \in BOOLEAN
  BY BalIs
<1>6. /\ Comes(Bal(c), g, labels, {a, b}, ends, first, first, q) /\ SameScope(g, first)
      /\ first.labels = b
  <2>1. \A x \in g.labels + 1 .. g.labels + 2 : ends[x] \in Spot /\ ends[x].zero = FALSE
    BY <1>1, <1>2, <1>3
  <2> HIDE DEF ends
  <2> QED BY <1>1, <2>1, ComesNew
<1> HIDE DEF ends, first, p
<1>7. Comes(Bal(c), g, labels, {a, b}, ends, first, gone, p)
  <2>1. p.fun \in 1 .. first.labels
    BY <1>1, <1>2, <1>6
  <2>2. ends[b] = On(q.height, q.fun)
    BY <1>1, <1>4
  <2> QED BY <1>2, <1>3, <1>5, <1>6, <2>1, <2>2, ComesGoto
<1>8. marked = Emit(first, Goto(b) \o <<Cmd("label", a)>>)
  <2>1. first \in Generators
    BY <1>6, ComesTypes, Zenon
  <2>2. PushNull \in Command /\ Cmd("jump_unless", b) \in Command /\ Cmd("label", a) \in Command
    <3>1. "label" \in Kinds /\ a \in Int /\ b \in Int
      BY <1>1 DEF Kinds, Pushes
    <3> QED BY <3>1, NullIs, JumpIs, CmdIs
  <2>3. Goto(b) \in Seq(Command) /\ <<Cmd("label", a)>> \in Seq(Command)
    BY <2>2 DEF Goto
  <2> QED BY <2>1, <2>3, EmitCat
<1> HIDE DEF gone
<1>9. Comes(Bal(c), g, labels, {b}, ends, first, marked, p)
  <2>1. Comes(Bal(c), g, labels, {a, b} \ {a}, ends, first, marked, p)
    BY <1>3, <1>4, <1>5, <1>7, ComesLabel
  <2> QED BY <1>3, <2>1
<1> HIDE DEF marked
<1>10. /\ marked \in Generators /\ marked.scope \in DOMAIN marked.scopes
       /\ Scoped(g, marked) /\ SameScope(g, marked)
       /\ \A l \in DOMAIN marked.loops : marked.loops[l] \in 1 .. marked.labels
  <2>1. marked \in Generators /\ marked.scope \in DOMAIN marked.scopes
    BY <1>9, ComesTypes, Zenon
  <2>2. /\ Scoped(g, marked) /\ SameScope(first, marked)
        /\ \A l \in DOMAIN marked.loops : marked.loops[l] \in 1 .. marked.labels
    BY <1>9, ComesKept
  <2> QED BY <1>6, <2>1, <2>2 DEF SameScope
<1> DEFINE m == Len(marked.scopes)
<1>11. /\ entry \in Generators /\ entry.scope = m + 1 /\ entry.loops = marked.loops
       /\ entry.cmds = marked.cmds /\ entry.labels = marked.labels /\ entry.funs = marked.funs
       /\ Len(entry.scopes) = m + 1 /\ entry.scope \in DOMAIN entry.scopes /\ m \in Nat
       /\ entry.scopes[m + 1].parent = marked.scope
       /\ \A s \in DOMAIN marked.scopes : entry.scopes[s].parent = marked.scopes[s].parent
  BY <1>10, PushScopeFields
<1> HIDE DEF entry
<1>12. Comes(Bal(c), g, labels, {b}, ends, entry, entry, p)
  <2>1. Len(marked.scopes) <= Len(entry.scopes)
    BY <1>11
  <2>2. \A l \in DOMAIN entry.loops : entry.loops[l] \in 1 .. entry.labels
    BY <1>10, <1>11
  <2> QED BY <1>9, <1>11, <2>1, <2>2, ComesSame
<1>13. Comes(Bal(c), g, labels, {b}, ends, entry, params, p)
  <2>1. ASSUME NEW param \in T[AsOperand[c]], param.kind = "ident" PROVE param.name \in STRING
    <3>1. AsOperand[c] \in Surroundings
      BY Around
    <3>2. param \in Nodes(T, AsOperand[c])
      BY <2>1, <3>1 DEF Layered
    <3> QED BY <2>1, <3>2, NodeIs
  <2>2. p = On(p.height, p.fun)
    BY <1>2 DEF p
  <2> QED BY <1>5, <1>12, <2>1, <2>2, ComesParams
<1> HIDE DEF params
<1>14. Comes(Bal(c), g, labels, {b}, ends, entry, one, On(1, a))
  <2>1. params.loops = g.loops
    <3>1. SameScope(entry, params)
      BY <1>13, ComesKept
    <3> QED BY <3>1, <1>10, <1>11 DEF SameScope
  <2>2. Comes(Bal(c), g, labels, {b}, ends, entry, params, On(0, a))
    BY <1>13 DEF p
  <2> QED BY <2>1, <2>2, ComesBody
<1> HIDE DEF one
<1>15. Comes(Bal(c), g, labels, {b}, ends, entry, body, q)
  <2>1. On(1, a).height = 1
    BY OnIs
  <2>2. one.labels \in Nat /\ g.labels <= one.labels
    BY <1>14, ComesTypes, Zenon
  <2>3. q.fun \in 1 .. one.labels
    BY <1>1, <2>2
  <2> QED BY <1>1, <1>5, <1>14, <2>1, <2>3, ComesReturn
<1> HIDE DEF body
<1>16. /\ body.scopes[body.scope].parent = g.scope /\ g.scope \in DOMAIN body.scopes
       /\ body.loops = g.loops
  <2>1. SameScope(entry, body) /\ Scoped(entry, body) /\ Scoped(g, body)
    BY <1>15, ComesKept
  <2>2. body.scope = entry.scope /\ body.loops = entry.loops
    BY <2>1 DEF SameScope
  <2>3. body.scopes[entry.scope].parent = marked.scope
    BY <1>11, <2>1 DEF Scoped
  <2>4. marked.scope = g.scope /\ marked.loops = g.loops
    BY <1>10 DEF SameScope
  <2>5. body \in Generators
    BY <1>15, ComesTypes, Zenon
  <2>6. /\ DOMAIN body.scopes = 1 .. Len(body.scopes) /\ Len(body.scopes) \in Nat
    BY <2>5, GeneratorTypes, Zenon
  <2>7. /\ DOMAIN g.scopes = 1 .. Len(g.scopes) /\ Len(g.scopes) \in Nat
    BY <1>1, GeneratorTypes, Zenon
  <2>8. Len(g.scopes) <= Len(body.scopes)
    BY <2>1 DEF Scoped
  <2>9. g.scope \in DOMAIN body.scopes
    BY <1>1, <2>6, <2>7, <2>8
  <2> QED BY <1>11, <2>2, <2>3, <2>4, <2>9
<1>17. /\ Comes(Bal(c), g, labels, {b}, ends, after, after, q)
       /\ after.scope = body.scopes[body.scope].parent /\ after.loops = body.loops
       /\ n \in DOMAIN after.funs
  <2>1. /\ a \in g.labels + 1 .. g.labels + 2 /\ a # 1 /\ ends[a] = On(0, a)
        /\ body.scopes[body.scope].parent \in DOMAIN body.scopes
    BY <1>3, <1>4, <1>16 DEF p
  <2> QED BY <1>15, <2>1, ComesOut
<1> HIDE DEF after
<1>18. SameScope(g, after)
  BY <1>16, <1>17 DEF SameScope
<1>19. Comes(Bal(c), g, labels, {}, ends, after, done, q)
  <2>1. Comes(Bal(c), g, labels, {b} \ {b}, ends, after, done, q)
    BY <1>3, <1>4, <1>5, <1>17, ComesLabel
  <2> QED BY <1>3, <2>1
<1>20. Cmd("label", b) \in Command /\ after \in Generators /\ b \in Int
  <2>1. "label" \in Kinds /\ b \in Int
    BY <1>1 DEF Kinds, Pushes
  <2>2. after \in Generators
    BY <1>17, ComesTypes, Zenon
  <2> QED BY <2>1, <2>2, CmdIs
<1>21. n \in DOMAIN done.funs
  <2>1. done.funs = after.funs
    BY <1>20, EmitFields
  <2> QED BY <1>17, <2>1
<1> HIDE DEF done
<1>22. Comes(Bal(c), g, labels, {}, ends, after, last, On(q.height + 1, q.fun))
  <2> HIDE DEF n
  <2> QED BY <1>5, <1>19, <1>21, ComesClosure
<1>23. Makes(c, g, labels, q, last, q.height + 1)
  <2> HIDE DEF last
  <2> QED BY <1>18, <1>22, ComesMakes
<1>24. Emit(after, <<Cmd("label", b), Cmd("push_closure", n)>>) = last
  <2>1. n \in Int
    <3>1. after.funs \in Seq([scope : Nat, label : Nat])
      BY <1>20, GeneratorTypes, Zenon
    <3> QED BY <3>1
  <2>2. Cmd("push_closure", n) \in Command
    <3>1. "push_closure" \in Kinds
      BY DEF Kinds, Pushes
    <3> QED BY <2>1, <3>1, CmdIs
  <2> HIDE DEF n
  <2>3. Emit(after, <<Cmd("label", b), Cmd("push_closure", n)>>)
            = Emit(Emit(after, <<Cmd("label", b)>>), <<Cmd("push_closure", n)>>)
    BY <1>20, <2>2, EmitTwo
  <2> QED BY <2>3 DEF done
<1>25. GenFun(gen, g, e) = last
  <2>1. GenFun(gen, g, e) = Emit(after, <<Cmd("label", b), Cmd("push_closure", n)>>)
    BY <1>8 DEF GenFun, after, body, one, params, entry, first, n
  <2> QED BY <2>1, <1>24
<1> QED BY <1>23, <1>25

---------------------------------------------------------------------------
(* All nodes.                                                              *)

\* The literals that an operator brings with it are trees.
Literals(T) == \A c \in Surroundings : T[c] # {} => \A n \in Int : IntLit(n) \in T[c]

LEMMA TreesLiterals == \A n \in Nat : Literals(Below(n))
<1>1. ASSUME NEW n \in Nat, NEW c \in Surroundings, Below(n)[c] # {}, NEW k \in Int
      PROVE  IntLit(k) \in Below(n)[c]
  <2>1. n # 0 /\ Below(n)[c] = Nodes(Below(n - 1), c)
    BY <1>1, BelowAt
  <2>2. IntLit(k) \in [kind : {"int"}, val : Int]
    BY DEF IntLit
  <2>3. IntLit(k) \in Nodes(Below(n - 1), c)
    BY <2>2, Zenon DEF Nodes
  <2> QED BY <2>1, <2>3
<1> QED BY <1>1 DEF Literals

LEMMA MakesGenOp ==
    ASSUME NEW gen, NEW T, Meets(gen, T), Layered(T), Literals(T), NEW c \in Surroundings,
           NEW e \in Nodes(T, c), e.kind = "op",
           NEW g, NEW labels, NEW q, Before(c, g, labels, q), Externs \in Seq(STRING)
    PROVE  Makes(c, g, labels, q, GenOp(gen, g, e), q.height + 1)
<1>1. /\ e.op \in Ops /\ e.l \in T[c]
      /\ \/ e.r \in T[AsOperand[c]]
         \/ e.op \in {"semi", "log_or", "log_and"} /\ e.r \in T[c]
  BY NodeOp
<1>2. e.r \in Parts(T, c) /\ e.l \in Parts(T, c)
  BY <1>1 DEF Parts
<1>3. IntLit(0) \in Parts(T, c) /\ IntLit(1) \in Parts(T, c)
  BY <1>1 DEF Literals, Parts
<1>4. DOMAIN Comparison = {"ne", "le", "gt", "ge"}
  BY DEF Comparison
<1>5. CASE e.op = "semi"
  <2>1. GenOp(gen, g, e) = GenSemi(gen, g, e)
    BY <1>4, <1>5 DEF GenOp, SetOps
  <2> QED BY <1>1, <1>2, <2>1, MakesSemi
<1>6. CASE e.op = "set"
  <2>1. GenOp(gen, g, e) = GenSet(gen, g, e)
    BY <1>4, <1>6 DEF GenOp, SetOps
  <2>2. e.r \in T[AsOperand[c]]
    BY <1>1, <1>6
  <2> QED BY <1>1, <2>1, <2>2, MakesSet
<1>7. CASE e.op \in SetOps
  <2>1. GenOp(gen, g, e) = GenSetOp(gen, g, e)
    BY <1>4, <1>7 DEF GenOp, SetOps
  <2>2. e.r \in T[AsOperand[c]]
    BY <1>1, <1>7 DEF SetOps
  <2> QED BY <1>1, <1>7, <2>1, <2>2, MakesSetOp
<1>8. CASE e.op = "log_or"
  <2>1. GenOp(gen, g, e) = GenIf(gen, g, e.l, IntLit(1), e.r)
    BY <1>4, <1>8 DEF GenOp, SetOps
  <2> QED BY <1>2, <1>3, <2>1, MakesIf
<1>9. CASE e.op = "log_and"
  <2>1. GenOp(gen, g, e) = GenIf(gen, g, e.l, e.r, IntLit(0))
    BY <1>4, <1>9 DEF GenOp, SetOps
  <2> QED BY <1>2, <1>3, <2>1, MakesIf
<1>10. CASE e.op \in DOMAIN Comparison
  <2>1. GenOp(gen, g, e) = GenBinary(gen, g, e, Comparison[e.op])
    BY <1>4, <1>10 DEF GenOp, SetOps
  <2>2. e.r \in T[AsOperand[c]]
    BY <1>1, <1>4, <1>10
  <2> QED BY <1>1, <1>10, <2>1, <2>2, MakesComparison
<1>11. CASE /\ e.op \notin {"semi", "set", "log_or", "log_and"}
            /\ e.op \notin SetOps /\ e.op \notin DOMAIN Comparison
  <2>1. GenOp(gen, g, e) = GenBinary(gen, g, e, <<Op(e.op)>>)
    BY <1>11 DEF GenOp
  <2>2. e.r \in T[AsOperand[c]] /\ e.op \in Ops \cup {"array_push", "index_ref"}
    BY <1>1, <1>11
  <2> QED BY <1>1, <2>1, <2>2, MakesBinary
<1> QED BY <1>5, <1>6, <1>7, <1>8, <1>9, <1>10, <1>11

LEMMA MakesNode ==
    ASSUME NEW gen, NEW T, Meets(gen, T), Layered(T), Literals(T), NEW c \in Surroundings,
           NEW e \in Nodes(T, c),
           NEW g, NEW labels, NEW q, Before(c, g, labels, q), Externs \in Seq(STRING)
    PROVE  Makes(c, g, labels, q, GenNode(gen, g, e), q.height + 1)
<1>1. /\ e.kind \in {"int", "str", "ident", "err", "array", "call", "fun", "op", "let", "if",
                     "while", "break", "return"}
      /\ e.kind = "int" => e.val \in Int
      /\ e.kind = "str" => e.text \in Seq(Int)
      /\ e.kind = "array" => e.subs \in Seq(T[AsOperand[c]])
      /\ e.kind = "call" => e.l \in T[c] /\ e.subs \in Seq(T[AsOperand[c]])
      /\ e.kind = "fun" => e.l \in T[AsBody[c]] /\ e.subs \in Seq(T[AsOperand[c]])
      /\ e.kind = "let" => e.name \in STRING /\ e.l \in T[c]
      /\ e.kind = "if" => e.cond \in T[c] /\ e.l \in T[c] /\ e.r \in T[c]
      /\ e.kind = "while" => e.cond \in T[AsLoop[c]] /\ e.l \in T[AsLoop[c]]
      /\ e.kind = "break" => c \in BreakContexts
      /\ e.kind = "return" => c \in ReturnContexts /\ e.l \in T[c]
  BY NodeIs
<1> DEFINE made == GenNode(gen, g, e)
<1>2. Makes(c, g, labels, q, g, q.height)
  BY MakesSelf
<1>3. CASE e.kind = "int"
  <2>1. made = Emit(g, <<Cmd("push_int", e.val)>>)
    BY <1>3 DEF GenNode
  <2> QED BY <1>1, <1>3, <2>1, MakesInt
<1>4. CASE e.kind = "str"
  <2>1. made = Emit(AddData(g, e.text), <<Cmd("push_str", Len(g.data))>>)
    BY <1>4 DEF GenNode
  <2> QED BY <1>1, <1>4, <2>1, MakesStr
<1>5. CASE e.kind = "ident"
  <2>1. made = GenIdent(g, e, FALSE)
    BY <1>5 DEF GenNode
  <2> QED BY <1>2, <2>1, MakesIdent
<1>6. CASE e.kind = "array"
  <2>1. made = GenArray(gen, g, e)
    BY <1>6 DEF GenNode
  <2> QED BY <1>1, <1>6, <2>1, MakesArray
<1>7. CASE e.kind = "call"
  <2>1. made = GenCall(gen, g, e)
    BY <1>7 DEF GenNode
  <2> QED BY <1>1, <1>7, <2>1, MakesCall
<1>8. CASE e.kind = "op"
  <2>1. made = GenOp(gen, g, e)
    BY <1>8 DEF GenNode
  <2> QED BY <1>8, <2>1, MakesGenOp
<1>9. CASE e.kind = "fun"
  <2>1. made = GenFun(gen, g, e)
    BY <1>9 DEF GenNode
  <2> QED BY <1>1, <1>9, <2>1, MakesFun
<1>10. CASE e.kind = "let"
  <2>1. made = GenLet(gen, g, e)
    BY <1>10 DEF GenNode
  <2> QED BY <1>1, <1>10, <2>1, MakesLet
<1>11. CASE e.kind = "if"
  <2>1. made = GenIf(gen, g, e.cond, e.l, e.r)
    BY <1>11 DEF GenNode
  <2>2. e.cond \in Parts(T, c) /\ e.l \in Parts(T, c) /\ e.r \in Parts(T, c)
    BY <1>1, <1>11 DEF Parts
  <2> QED BY <2>1, <2>2, MakesIf
<1>12. CASE e.kind = "while"
  <2>1. made = GenWhile(gen, g, e)
    BY <1>12 DEF GenNode
  <2> QED BY <1>1, <1>12, <2>1, MakesWhile
<1>13. CASE e.kind = "break"
  <2>1. made = GenBreak(g)
    BY <1>13 DEF GenNode
  <2> QED BY <1>1, <1>13, <2>1, MakesBreak
<1>14. CASE e.kind = "return"
  <2>1. made = Emit(gen[<<g, e.l>>], <<Cmd("return", 0)>>)
    BY <1>14 DEF GenNode
  <2> QED BY <1>1, <1>14, <2>1, MakesReturn
<1>15. CASE e.kind = "err"
  <2>1. made = EmitErr(g, Message)
    BY <1>15 DEF GenNode
  <2>2. q.height \in Nat
    BY BeforeTypes, Zenon
  <2>3. q.height + 1 \in Nat
    BY <2>2
  <2>4. Makes(c, g, labels, q, EmitErr(g, Message), q.height + 1)
    BY <1>2, <2>3, MakesErr
  <2> QED BY <2>1, <2>4
<1>16. e.kind \in {"int", "str", "ident", "err", "array", "call", "fun", "op", "let", "if",
                  "while", "break", "return"}
  BY <1>1
<1> HIDE DEF made
<1> QED
  BY <1>3, <1>4, <1>5, <1>6, <1>7, <1>8, <1>9, <1>10, <1>11, <1>12, <1>13, <1>14, <1>15, <1>16

\* The functions meet what they rely on, at every depth.
LEMMA GenMeets ==
    ASSUME Externs \in Seq(STRING)
    PROVE  \A n \in Nat : Meets(Gen[n], Trees[n])
<1> DEFINE S == {n \in Nat : Meets(Gen[n], Trees[n])}
<1>1. ASSUME NEW n \in Nat, \A m \in 0 .. n - 1 : m \in S PROVE n \in S
  <2> DEFINE gen == IF n = 0 THEN << >> ELSE Gen[n - 1]
             T == Below(n)
  <2>1. Meets(gen, T)
    <3>1. CASE n = 0
      <4>1. \A c \in Surroundings : T[c] = {}
        BY <3>1, BelowAt
      <4> HIDE DEF gen, T
      <4> QED BY <4>1 DEF Meets
    <3>2. CASE n # 0
      <4>1. n - 1 \in 0 .. n - 1
        BY <3>2
      <4>2. Meets(Gen[n - 1], Trees[n - 1])
        BY <1>1, <4>1
      <4> QED BY <3>2, <4>2 DEF Below
    <3> QED BY <3>1, <3>2
  <2>2. Layered(T) /\ Literals(T)
    BY TreesGrown, TreesLiterals
  <2>3. \A c \in Surroundings : Trees[n][c] = Nodes(T, c)
    BY TreesAt
  <2>4. \A c \in Surroundings : Trees[n][c] \subseteq Trees[n]["free"]
    <3>1. n + 1 \in Nat /\ n + 1 # 0 /\ (n + 1) - 1 = n
      OBVIOUS
    <3>2. Below(n + 1) = Trees[n]
      BY <3>1 DEF Below
    <3>3. Wider(Below(n + 1))
      BY <3>1, TreesWider
    <3> QED BY <3>2, <3>3 DEF Wider
  <2>5. ASSUME NEW c \in Surroundings, NEW e \in Trees[n][c], NEW g, NEW labels, NEW q,
               Before(c, g, labels, q)
        PROVE  Done(c, g, labels, q, Gen[n][<<g, e>>])
    <3>1. g \in Generators
      BY <2>5, BeforeTypes, Zenon
    <3>2. e \in Trees[n]["free"] /\ e \in Nodes(T, c)
      BY <2>3, <2>4
    <3>3. Gen[n][<<g, e>>] = GenNode(gen, g, e)
      BY <3>1, <3>2, GenAt
    <3> HIDE DEF gen, T
    <3>4. Makes(c, g, labels, q, GenNode(gen, g, e), q.height + 1)
      BY <2>1, <2>2, <2>5, <3>2, MakesNode
    <3>5. Done(c, g, labels, q, GenNode(gen, g, e))
      BY <3>4, MakesDone
    <3> QED BY <3>3, <3>5
  <2>6. Meets(Gen[n], Trees[n])
    BY <2>5 DEF Meets
  <2> QED BY <2>6
<1>2. \A n \in Nat : n \in S
  <2> HIDE DEF S
  <2> QED BY <1>1, Induct
<1> QED BY <1>2

---------------------------------------------------------------------------
(* The whole program.                                                      *)

\* The generator where the main program begins.
Begin == Emit([Start EXCEPT !.labels = 1], <<Cmd("label", 1)>>)

LEMMA BeginIs ==
    /\ Begin \in Generators /\ Begin.cmds = <<Cmd("label", 1)>> /\ Begin.labels = 1
    /\ Begin.loops = << >> /\ Begin.funs = << >> /\ Begin.scope = 1
    /\ Begin.scopes = <<[parent |-> 0, len |-> 0]>>
    /\ \A bal \in BOOLEAN : Sound(bal, Begin, <<On(0, 1)>>, On(0, 1))
<1> DEFINE s == [Start EXCEPT !.labels = 1]
           q == On(0, 1)
           labels == <<q>>
           cmd == Cmd("label", 1)
<1>1. /\ s.cmds = << >> /\ s.labels = 1 /\ s.loops = << >> /\ s.funs = << >> /\ s.scope = 1
      /\ s.scopes = <<[parent |-> 0, len |-> 0]>>
  BY DEF Start
<1>2. s \in Generators
  <2> DEFINE Recs == [parent : Nat, len : Nat]
             Locals == [name : STRING, scope : Nat, index : Nat]
             F == [scope : Nat, label : Nat]
             none == [parent |-> 0, len |-> 0]
  <2>1. none \in Recs
    OBVIOUS
  <2>2. Start = [cmds |-> << >>, labels |-> 0, locals |-> << >>, loops |-> << >>, funs |-> << >>,
                 scopes |-> <<none>>, scope |-> 1, data |-> << >>, ok |-> TRUE]
    BY DEF Start
  <2> HIDE DEF none, Recs, Locals, F
  <2>3. /\ <<none>> \in Seq(Recs)
        /\ << >> \in Seq(Locals)
        /\ << >> \in Seq(F)
        /\ << >> \in Seq(Command)
        /\ << >> \in Seq(Nat)
        /\ << >> \in Seq(Int)
    BY <2>1
  <2> DEFINE G == [cmds : Seq(Command), labels : Nat, locals : Seq(Locals), loops : Seq(Nat),
                   funs : Seq(F), scopes : Seq(Recs), scope : Nat, data : Seq(Int), ok : BOOLEAN]
  <2>4. Start \in G
    BY <2>2, <2>3
  <2>5. s \in G
    BY <2>4
  <2> QED BY <2>5 DEF Generators, Recs, Locals, F
<1> HIDE DEF s
<1>3. cmd \in Command /\ cmd.kind = "label" /\ cmd.x = 1
  <2>1. "label" \in Kinds
    BY DEF Kinds, Pushes
  <2> QED BY <2>1, CmdIs
<1>4. q \in Spot /\ q.height = 0 /\ q.fun = 1 /\ q.zero = FALSE
  BY DEF Spot, On
<1> HIDE DEF q, cmd
<1>5. labels \in Seq(Spot) /\ Len(labels) = 1 /\ DOMAIN labels = 1 .. 1 /\ labels[1] = q
  BY <1>4
<1>6. Begin = Emit(s, <<cmd>>)
  BY DEF Begin, s, cmd
<1>7. /\ Begin \in Generators /\ Begin.cmds = Append(s.cmds, cmd) /\ Begin.labels = s.labels
      /\ Begin.loops = s.loops /\ Begin.funs = s.funs /\ Begin.scope = s.scope
      /\ Begin.scopes = s.scopes
  BY <1>2, <1>3, <1>6, EmitFields
<1>8. Begin.cmds = <<cmd>>
  BY <1>1, <1>7
<1>9. ASSUME NEW bal \in BOOLEAN PROVE Sound(bal, Begin, labels, q)
  <2>1. Laid(bal, s, labels, labels)
    <3>1. DOMAIN s.cmds = {} /\ Len(s.cmds) = 0
      BY <1>1
    <3>2. Closed(s.cmds, labels)
      BY <3>1 DEF Closed
    <3> HIDE DEF labels
    <3> QED BY <1>5, <3>1, <3>2 DEF Laid
  <2>2. Sound(bal, s, labels, q)
    <3>1. labels[Len(labels)] = q
      BY <1>5
    <3>2. DOMAIN s.loops = {} /\ DOMAIN s.funs = {} /\ s.scope \in DOMAIN s.scopes
      BY <1>1
    <3>3. q.fun \in 1 .. s.labels /\ Len(labels) = s.labels
      BY <1>1, <1>4, <1>5
    <3>4. \A x \in DOMAIN labels : labels[x].zero = FALSE
      BY <1>4, <1>5
    <3> HIDE DEF labels
    <3> QED BY <1>2, <1>4, <1>5, <2>1, <3>1, <3>2, <3>3, <3>4 DEF Sound
  <2>3. Known(s, cmd) /\ Suits(labels, q, cmd) /\ Leads(q, cmd, q)
    <3>1. Known(s, cmd)
      BY <1>1, <1>3 DEF Known, Pushes
    <3>2. PopsOf(cmd) = 0 /\ Pushes[cmd.kind] = 0
      BY <1>3 DEF PopsOf, Pops, Pushes
    <3> QED BY <1>3, <1>4, <1>5, <3>1, <3>2 DEF Suits, Leads
  <2>4. q.fun \in 1 .. s.labels
    BY <1>1, <1>4
  <2>5. cmd.kind # "jump_unless"
    BY <1>3
  <2> HIDE DEF labels
  <2> QED BY <1>3, <1>4, <1>6, <2>2, <2>3, <2>4, <2>5, SoundEmit
<1> QED BY <1>1, <1>7, <1>8, <1>9 DEF cmd, q

\* What the generator ends with.
Ended(bal, g, labels) ==
    /\ Sound(bal, g, labels, On(1, 1)) /\ labels[1] = On(0, 1) /\ 1 \in DOMAIN labels
    /\ g.cmds # << >> /\ Labelled(g, 1) = {1}
    /\ \A x \in DOMAIN labels : \E i \in DOMAIN g.cmds : Labelled(g, x) = {i}
    /\ g.scopes # << >>

LEMMA GenEnds ==
    ASSUME Externs \in Seq(STRING), NEW n \in Nat, NEW c \in {"main", "free"}, NEW e \in Trees[n][c]
    PROVE  \E labels : Ended(Bal(c), Gen[n][<<Begin, e>>], labels)
<1> DEFINE first == <<On(0, 1)>>
           q == On(0, 1)
           g == Gen[n][<<Begin, e>>]
<1>1. q.height = 0 /\ q.fun = 1 /\ q.zero = FALSE
  BY DEF On
<1>2. Sound(Bal(c), Begin, first, q) /\ Begin.loops = << >>
  BY BalIs, BeginIs
<1>3. Before(c, Begin, first, q)
  <2>1. Placed(c, Begin, first, q)
    BY <1>1, <1>2 DEF Placed
  <2> QED BY <1>1, <1>2, <2>1 DEF Before
<1>4. c \in Surroundings
  BY DEF Surroundings
<1>5. Done(c, Begin, first, q, g)
  BY <1>3, <1>4, GenMeets DEF Meets
<1>6. PICK labels : Reaches(Bal(c), Begin, first, {}, g, labels, On(q.height + 1, q.fun))
  BY <1>5 DEF Done
<1> HIDE DEF g
<1>7. Sound(Bal(c), g, labels, On(1, 1)) /\ Keeps(Begin, g, {}) /\ labels[1] = On(0, 1)
  <2>1. On(q.height + 1, q.fun) = On(1, 1)
    BY <1>1
  <2>2. 1 \in DOMAIN first /\ first[1] = On(0, 1)
    OBVIOUS
  <2> QED BY <1>6, <2>1, <2>2 DEF Reaches
<1>8. /\ g.labels \in Nat /\ DOMAIN labels = 1 .. g.labels /\ Len(g.cmds) \in Nat
      /\ DOMAIN g.cmds = 1 .. Len(g.cmds) /\ DOMAIN g.scopes = 1 .. Len(g.scopes)
      /\ g.scope \in DOMAIN g.scopes
  BY <1>7, SoundState
<1>9. /\ Len(Begin.cmds) = 1 /\ DOMAIN Begin.cmds = 1 .. 1
      /\ Begin.cmds[1] = Cmd("label", 1) /\ Begin.labels = 1
  BY BeginIs
<1>10. /\ 1 <= g.labels /\ 1 <= Len(g.cmds) /\ g.cmds[1] = Cmd("label", 1)
       /\ \A i \in DOMAIN g.cmds : i > 1 /\ g.cmds[i].kind = "label" => g.cmds[i].x > 1
       /\ \A x \in 2 .. g.labels : \E i \in DOMAIN g.cmds : Labelled(g, x) = {i}
  <2>1. /\ Begin.labels <= g.labels /\ Len(Begin.cmds) <= Len(g.cmds)
        /\ \A i \in DOMAIN Begin.cmds : g.cmds[i] = Begin.cmds[i]
        /\ \A i \in DOMAIN g.cmds :
               i > Len(Begin.cmds) /\ g.cmds[i].kind = "label" => g.cmds[i].x > Begin.labels
        /\ \A x \in Begin.labels + 1 .. g.labels : \E i \in DOMAIN g.cmds : Labelled(g, x) = {i}
    BY <1>7 DEF Keeps
  <2>2. 1 \in DOMAIN Begin.cmds /\ Begin.labels + 1 = 2
    BY <1>9
  <2> QED BY <1>8, <1>9, <2>1, <2>2
<1>11. Labelled(g, 1) = {1}
  <2>1. IsLabel(g.cmds[1], 1) /\ 1 \in DOMAIN g.cmds
    BY <1>8, <1>10 DEF IsLabel, Cmd
  <2>2. \A i \in DOMAIN g.cmds : IsLabel(g.cmds[i], 1) => i = 1
    BY <1>8, <1>10 DEF IsLabel
  <2> QED BY <2>1, <2>2 DEF Labelled
<1>12. \A x \in DOMAIN labels : \E i \in DOMAIN g.cmds : Labelled(g, x) = {i}
  <2>1. \A x \in 1 .. g.labels : x = 1 \/ x \in 2 .. g.labels
    BY <1>8
  <2>2. 1 \in DOMAIN g.cmds
    BY <1>8, <1>10
  <2> QED BY <1>8, <1>10, <1>11, <2>1, <2>2
<1>13. g.cmds # << >> /\ g.scopes # << >> /\ 1 \in DOMAIN labels
  BY <1>8, <1>10
<1>14. Ended(Bal(c), g, labels)
  BY <1>7, <1>11, <1>12, <1>13 DEF Ended
<1> QED BY <1>14 DEF g

---------------------------------------------------------------------------
(* One pass over the commands finds the places.                            *)

\* What is to be known of a program for it: the places of the judgement, and where its
\* labels are.
Assembled(p, labels, spots) ==
    /\ spots \in Seq(Spot) /\ Len(spots) = Len(p.cmds) /\ Len(p.cmds) \in Nat \ {0, 1}
    /\ DOMAIN p.cmds = 1 .. Len(p.cmds)
    /\ \A i \in DOMAIN p.cmds :
           /\ p.cmds[i].kind \in DOMAIN Pushes /\ PopsOf(p.cmds[i]) \in Nat
           /\ p.cmds[i].kind = "exit" <=> i = Len(p.cmds)
           /\ p.cmds[i].kind \in {"label", "jump_unless"} => p.cmds[i].x \in DOMAIN labels
           /\ p.cmds[i].kind = "label" => p.labels[p.cmds[i].x] = i
           /\ p.cmds[i].kind = "push_closure" => p.cmds[i].x # Len(p.funs)
           /\ i # Len(p.cmds) => /\ Suits(labels, spots[i], p.cmds[i])
                                 /\ Leads(spots[i], p.cmds[i], spots[i + 1])
    /\ Closed(p.cmds, spots)
    /\ spots[Len(p.cmds)] = On(1, 1)
    /\ \A x \in DOMAIN labels : /\ labels[x].zero = FALSE /\ p.labels[x] \in DOMAIN p.cmds
                                /\ IsLabel(p.cmds[p.labels[x]], x)
    /\ \A f \in DOMAIN p.funs :
           \E x \in DOMAIN labels : /\ p.funs[f].cmd = p.labels[x] /\ labels[x] = On(0, x)
                                    /\ x = 1 <=> f = Len(p.funs)
    /\ Len(p.funs) \in DOMAIN p.funs /\ IsLabel(p.cmds[1], 1)

\* What the pass finds is what the judgement says.
FitsSpot(spot, place) ==
    place.live => /\ place.height = spot.height /\ place.main = (spot.fun = 1)
                  /\ spot.zero => place.zero

EntriesAt(p, i) == {f \in DOMAIN p.funs : p.funs[f].cmd = i}
Jumps(p, places, j, i) ==
    places[j].live /\ p.cmds[j].kind = "jump_unless" /\ p.labels[p.cmds[j].x] = i
Falls(p, places, j, i) ==
    j = i - 1 /\ places[j].live /\ ~Leaves(places[j], p.cmds[j])
Comers(p, places, i) ==
    {j \in 1 .. i - 1 : Jumps(p, places, j, i) \/ Falls(p, places, j, i)}

\* Why the pass finds what it finds.
Came(p, places, i) ==
    IF EntriesAt(p, i) # {} THEN places[i] = Entry(Len(p.funs) \in EntriesAt(p, i))
    ELSE IF Comers(p, places, i) # {}
    THEN \E j \in Comers(p, places, i) :
             places[i] = [After(places[j], p.cmds[j]) EXCEPT !.zero = @ /\ p.cmds[i].kind # "label"]
    ELSE places[i] = Dead

\* So far.
Passed(p, spots, places, n) ==
    /\ places \in Seq(Place) /\ Len(places) = n
    /\ \A i \in 1 .. n : FitsSpot(spots[i], places[i]) /\ Came(p, places, i)

LEMMA NextIs ==
    ASSUME NEW p, NEW places \in Seq(Place), NEW i, i = Len(places) + 1,
           NEW after, after = Append(places, NextPlace(p, places))
    PROVE  Came(p, after, i)
<1> DEFINE jumps == {j \in DOMAIN places : /\ places[j].live /\ p.cmds[j].kind = "jump_unless"
                                           /\ p.labels[p.cmds[j].x] = i}
           froms == jumps \cup {j \in {i - 1} \cap DOMAIN places :
                                    places[j].live /\ ~Leaves(places[j], p.cmds[j])}
<1>1. /\ DOMAIN places = 1 .. i - 1 /\ i \in Nat \ {0}
      /\ after[i] = NextPlace(p, places) /\ \A j \in 1 .. i - 1 : after[j] = places[j]
  BY AppendProperties
<1>2. froms = Comers(p, after, i)
  BY <1>1 DEF Comers, Jumps, Falls
<1>3. after[i] = IF EntriesAt(p, i) # {} THEN Entry(Len(p.funs) \in EntriesAt(p, i))
                 ELSE IF froms # {}
                 THEN [After(places[Min(froms)], p.cmds[Min(froms)])
                           EXCEPT !.zero = @ /\ p.cmds[i].kind # "label"]
                 ELSE Dead
  BY <1>1 DEF NextPlace, EntriesAt
<1> HIDE DEF froms
<1>4. ASSUME froms # {} PROVE Min(froms) \in froms /\ after[Min(froms)] = places[Min(froms)]
  <2>1. froms \subseteq 1 .. i - 1
    BY <1>2 DEF Comers
  <2>2. froms \subseteq Nat
    BY <1>1, <2>1
  <2>3. Min(froms) \in froms
    BY <1>4, <2>2, MinIn
  <2> QED BY <1>1, <2>1, <2>3
<1>5. CASE EntriesAt(p, i) # {}
  BY <1>3, <1>5 DEF Came
<1>6. CASE EntriesAt(p, i) = {} /\ froms # {}
  <2>1. after[i] = [After(after[Min(froms)], p.cmds[Min(froms)])
                        EXCEPT !.zero = @ /\ p.cmds[i].kind # "label"]
    BY <1>3, <1>4, <1>6
  <2> QED BY <1>2, <1>4, <1>6, <2>1 DEF Came
<1>7. CASE EntriesAt(p, i) = {} /\ froms = {}
  BY <1>2, <1>3, <1>7 DEF Came
<1> QED BY <1>5, <1>6, <1>7

LEMMA CameKept ==
    ASSUME NEW p, NEW places, NEW after, NEW i \in Nat, Came(p, places, i),
           \A j \in 1 .. i : after[j] = places[j], i # 0
    PROVE  Came(p, after, i)
<1>1. after[i] = places[i] /\ \A j \in 1 .. i - 1 : after[j] = places[j]
  OBVIOUS
<1>2. Comers(p, after, i) = Comers(p, places, i)
  BY <1>1 DEF Comers, Jumps, Falls
<1>3. \A j \in Comers(p, places, i) : after[j] = places[j]
  BY <1>1 DEF Comers
<1> QED BY <1>1, <1>2, <1>3 DEF Came

\* Where a label stands.
SetAt(p, labels, spots, x) ==
    LET i == p.labels[x]
    IN /\ i \in DOMAIN p.cmds /\ p.cmds[i].kind = "label" /\ p.cmds[i].x = x
       /\ spots[i] = labels[x] /\ ~labels[x].zero

LEMMA LabelSpot ==
    ASSUME NEW p, NEW labels, NEW spots, Assembled(p, labels, spots), NEW x \in DOMAIN labels
    PROVE  SetAt(p, labels, spots, x)
<1> DEFINE i == p.labels[x]
<1>1. i \in DOMAIN p.cmds /\ IsLabel(p.cmds[i], x) /\ labels[x].zero = FALSE
  BY DEF Assembled
<1>2. p.cmds[i].kind = "label" /\ p.cmds[i].x = x
  BY <1>1 DEF IsLabel
<1>3. i # Len(p.cmds)
  BY <1>1, <1>2 DEF Assembled
<1>4. Suits(labels, spots[i], p.cmds[i])
  BY <1>1, <1>3 DEF Assembled
<1>5. spots[i] = labels[x]
  BY <1>2, <1>4 DEF Suits
<1> QED BY <1>1, <1>2, <1>5 DEF SetAt

\* Where a function begins.
LEMMA EntrySpot ==
    ASSUME NEW p, NEW labels, NEW spots, Assembled(p, labels, spots), NEW f \in DOMAIN p.funs
    PROVE  LET i == p.funs[f].cmd
           IN /\ i \in DOMAIN p.cmds /\ p.cmds[i].kind = "label"
              /\ spots[i] = On(0, p.cmds[i].x)
              /\ p.cmds[i].x = 1 <=> f = Len(p.funs)
<1>1. PICK x \in DOMAIN labels : /\ p.funs[f].cmd = p.labels[x] /\ labels[x] = On(0, x)
                                 /\ x = 1 <=> f = Len(p.funs)
  BY DEF Assembled
<1>2. SetAt(p, labels, spots, x)
  BY LabelSpot
<1> QED BY <1>1, <1>2 DEF SetAt

\* A command before the last one, where the pass has been.
LEMMA HereSpot ==
    ASSUME NEW p, NEW labels, NEW spots, Assembled(p, labels, spots),
           NEW place \in Place, NEW j \in DOMAIN p.cmds,
           place.live, FitsSpot(spots[j], place), j # Len(p.cmds)
    PROVE  /\ spots[j] \in Spot /\ PopsOf(p.cmds[j]) \in 0 .. place.height
           /\ Pushes[p.cmds[j].kind] \in Nat
           /\ p.cmds[j].kind = "return" => place.height = 1
           /\ p.cmds[j].kind = "jump_unless" =>
                  /\ p.cmds[j].x \in DOMAIN labels
                  /\ spots[p.labels[p.cmds[j].x]] = On(place.height - 1, spots[j].fun)
           /\ Leaves(place, p.cmds[j])
              \/ /\ spots[j + 1].height = place.height - PopsOf(p.cmds[j]) + Pushes[p.cmds[j].kind]
                 /\ spots[j + 1].fun = spots[j].fun
                 /\ spots[j + 1].zero => p.cmds[j].kind = "push_int" /\ p.cmds[j].x = 0
<1>1. /\ Suits(labels, spots[j], p.cmds[j]) /\ Leads(spots[j], p.cmds[j], spots[j + 1])
      /\ spots \in Seq(Spot) /\ DOMAIN spots = DOMAIN p.cmds
      /\ PopsOf(p.cmds[j]) \in Nat /\ p.cmds[j].kind \in DOMAIN Pushes
      /\ p.cmds[j].kind = "jump_unless" => p.cmds[j].x \in DOMAIN labels
  BY DEF Assembled
<1>2. spots[j] \in Spot
  BY <1>1
<1>3. place.height = spots[j].height /\ place.height \in Nat /\ (spots[j].zero => place.zero)
  BY DEF FitsSpot, Place
<1>4. PopsOf(p.cmds[j]) \in 0 .. place.height
  BY <1>1, <1>3 DEF Suits
<1>5. Pushes[p.cmds[j].kind] \in Nat
  BY <1>1 DEF Pushes
<1>6. p.cmds[j].kind = "return" => place.height = 1
  BY <1>1, <1>3 DEF Suits
<1>7. ASSUME p.cmds[j].kind = "jump_unless"
      PROVE  spots[p.labels[p.cmds[j].x]] = On(place.height - 1, spots[j].fun)
  <2>1. labels[p.cmds[j].x] = On(place.height - 1, spots[j].fun)
    BY <1>1, <1>3, <1>7 DEF Suits
  <2>2. SetAt(p, labels, spots, p.cmds[j].x)
    BY <1>1, <1>7, LabelSpot
  <2> QED BY <2>1, <2>2 DEF SetAt
<1>8. Leaves(spots[j], p.cmds[j]) => Leaves(place, p.cmds[j])
  BY <1>3 DEF Leaves
<1>9. Leaves(place, p.cmds[j])
      \/ /\ spots[j + 1].height = place.height - PopsOf(p.cmds[j]) + Pushes[p.cmds[j].kind]
         /\ spots[j + 1].fun = spots[j].fun
         /\ spots[j + 1].zero => p.cmds[j].kind = "push_int" /\ p.cmds[j].x = 0
  BY <1>1, <1>3, <1>8 DEF Leads
<1> QED BY <1>1, <1>2, <1>4, <1>5, <1>6, <1>7, <1>9

\* What follows a place that fits, by a jump or by the order of the commands.
LEMMA AfterFits ==
    ASSUME NEW p, NEW labels, NEW spots, Assembled(p, labels, spots),
           NEW places, NEW j \in DOMAIN p.cmds, NEW i \in DOMAIN p.cmds,
           places[j] \in Place, FitsSpot(spots[j], places[j]), j # Len(p.cmds),
           Jumps(p, places, j, i) \/ Falls(p, places, j, i)
    PROVE  LET after == After(places[j], p.cmds[j])
           IN /\ after \in Place /\ after.live
              /\ after.height = spots[i].height /\ after.main = (spots[i].fun = 1)
              /\ spots[i].zero => after.zero /\ p.cmds[i].kind # "label"
              /\ spots[i].fun = spots[j].fun
<1> DEFINE place == places[j]
           cmd == p.cmds[j]
           after == After(place, cmd)
<1>1. place.live /\ place \in Place
  BY DEF Jumps, Falls
<1>2. /\ place.main = (spots[j].fun = 1) /\ place.height \in Nat
      /\ spots[j].fun \in Nat
      /\ PopsOf(cmd) \in 0 .. place.height /\ Pushes[cmd.kind] \in Nat
      /\ cmd.kind = "jump_unless" =>
             /\ cmd.x \in DOMAIN labels
             /\ spots[p.labels[cmd.x]] = On(place.height - 1, spots[j].fun)
      /\ Leaves(place, cmd)
         \/ /\ spots[j + 1].height = place.height - PopsOf(cmd) + Pushes[cmd.kind]
            /\ spots[j + 1].fun = spots[j].fun
            /\ spots[j + 1].zero => cmd.kind = "push_int" /\ cmd.x = 0
  BY <1>1, HereSpot DEF FitsSpot, Place, Spot
<1>3. /\ after.live /\ after.main = place.main
      /\ after.height = place.height - PopsOf(cmd) + Pushes[cmd.kind]
      /\ after.zero = (cmd.kind = "push_int" /\ cmd.x = 0)
  BY DEF After
<1>4. after \in Place
  <2>1. after.height \in Nat
    BY <1>2, <1>3
  <2>2. place.main \in BOOLEAN
    BY <1>1 DEF Place
  <2> HIDE DEF place, cmd
  <2> QED BY <1>3, <2>1, <2>2 DEF After, Place
<1>5. ASSUME p.cmds[i].kind = "label" PROVE ~spots[i].zero
  <2>1. p.cmds[i].x \in DOMAIN labels /\ p.labels[p.cmds[i].x] = i
    BY <1>5 DEF Assembled
  <2>2. SetAt(p, labels, spots, p.cmds[i].x)
    BY <2>1, LabelSpot
  <2> QED BY <2>1, <2>2 DEF SetAt
<1>6. CASE Jumps(p, places, j, i)
  <2>1. cmd.kind = "jump_unless" /\ p.labels[cmd.x] = i
    BY <1>6 DEF Jumps
  <2>2. spots[i] = On(place.height - 1, spots[j].fun)
    BY <1>2, <2>1
  <2>3. spots[i].height = place.height - 1 /\ spots[i].fun = spots[j].fun /\ ~spots[i].zero
    BY <2>2 DEF On
  <2>4. after.height = place.height - 1
    <3>1. PopsOf(cmd) = 1 /\ Pushes[cmd.kind] = 0
      BY <2>1 DEF PopsOf, Pops, Pushes
    <3> QED BY <1>2, <1>3, <3>1
  <2> QED BY <1>2, <1>3, <1>4, <2>3, <2>4
<1>7. CASE Falls(p, places, j, i)
  <2>1. j + 1 = i /\ ~Leaves(place, cmd)
    BY <1>7 DEF Falls, Assembled
  <2>2. /\ spots[i].height = after.height /\ spots[i].fun = spots[j].fun
        /\ spots[i].zero => after.zero
    BY <1>2, <1>3, <2>1
  <2> QED BY <1>2, <1>3, <1>4, <1>5, <2>2
<1> QED BY <1>6, <1>7

\* The pass takes its next step.
LEMMA PassGoesOn ==
    ASSUME NEW p, NEW labels, NEW spots, Assembled(p, labels, spots), NEW i \in DOMAIN p.cmds,
           NEW places, Passed(p, spots, places, i - 1)
    PROVE  Passed(p, spots, Append(places, NextPlace(p, places)), i)
<1> DEFINE v == NextPlace(p, places)
           after == Append(places, v)
<1>1. /\ places \in Seq(Place) /\ Len(places) = i - 1 /\ i \in Nat \ {0}
      /\ DOMAIN p.cmds = 1 .. Len(p.cmds) /\ Len(p.cmds) \in Nat
  BY DEF Passed, Assembled
<1>2. after[i] = v /\ \A j \in 1 .. i - 1 : after[j] = places[j] /\ places[j] \in Place
  BY <1>1, AppendProperties
<1>3. Came(p, after, i)
  <2>1. i = Len(places) + 1
    BY <1>1
  <2> QED BY <1>1, <2>1, NextIs
<1>4. ASSUME NEW j \in 1 .. i - 1 PROVE FitsSpot(spots[j], after[j]) /\ Came(p, after, j)
  <2>1. FitsSpot(spots[j], places[j]) /\ Came(p, places, j)
    BY <1>4 DEF Passed
  <2>2. j \in Nat /\ j # 0 /\ \A k \in 1 .. j : after[k] = places[k]
    BY <1>1, <1>2
  <2> HIDE DEF after
  <2> QED BY <1>2, <2>1, <2>2, CameKept
<1> HIDE DEF v, after
<1>5. v \in Place /\ FitsSpot(spots[i], v)
  <2>1. CASE EntriesAt(p, i) # {}
    <3>1. PICK f \in EntriesAt(p, i) : TRUE
      BY <2>1
    <3>2. v = Entry(Len(p.funs) \in EntriesAt(p, i))
      BY <1>2, <1>3, <2>1 DEF Came
    <3>3. ASSUME NEW g \in EntriesAt(p, i)
          PROVE  /\ g \in DOMAIN p.funs /\ spots[i] = On(0, p.cmds[i].x)
                 /\ p.cmds[i].x = 1 <=> g = Len(p.funs)
      <4>1. g \in DOMAIN p.funs /\ p.funs[g].cmd = i
        BY DEF EntriesAt
      <4>2. LET k == p.funs[g].cmd
            IN spots[k] = On(0, p.cmds[k].x) /\ (p.cmds[k].x = 1 <=> g = Len(p.funs))
        BY <4>1, EntrySpot
      <4> QED BY <4>1, <4>2
    <3>4. spots[i].height = 0 /\ spots[i].fun = p.cmds[i].x /\ ~spots[i].zero
      BY <3>1, <3>3 DEF On
    <3>5. (Len(p.funs) \in EntriesAt(p, i)) <=> p.cmds[i].x = 1
      BY <3>1, <3>3
    <3> QED BY <3>2, <3>4, <3>5 DEF Entry, Place, FitsSpot
  <2>2. CASE EntriesAt(p, i) = {} /\ Comers(p, after, i) # {}
    <3>1. PICK j \in Comers(p, after, i) :
              v = [After(after[j], p.cmds[j]) EXCEPT !.zero = @ /\ p.cmds[i].kind # "label"]
      BY <1>2, <1>3, <2>2 DEF Came
    <3>2. /\ j \in 1 .. i - 1 /\ j \in DOMAIN p.cmds /\ j # Len(p.cmds)
          /\ Jumps(p, after, j, i) \/ Falls(p, after, j, i)
      BY <1>1 DEF Comers
    <3>3. after[j] \in Place /\ FitsSpot(spots[j], after[j])
      BY <1>2, <1>4, <3>2
    <3> DEFINE b == After(after[j], p.cmds[j])
    <3>4. /\ b \in Place /\ b.live /\ b.height = spots[i].height /\ b.main = (spots[i].fun = 1)
          /\ spots[i].zero => b.zero /\ p.cmds[i].kind # "label"
      BY <3>2, <3>3, AfterFits
    <3> HIDE DEF b
    <3>5. v = [b EXCEPT !.zero = @ /\ p.cmds[i].kind # "label"]
      BY <3>1 DEF b
    <3>6. /\ v \in Place /\ v.height = b.height /\ v.main = b.main
          /\ v.zero = (b.zero /\ p.cmds[i].kind # "label")
      BY <3>4, <3>5 DEF Place
    <3> QED BY <3>4, <3>6 DEF FitsSpot
  <2>3. CASE EntriesAt(p, i) = {} /\ Comers(p, after, i) = {}
    <3>1. v = Dead
      BY <1>2, <1>3, <2>3 DEF Came
    <3> QED BY <3>1 DEF Dead, Place, FitsSpot
  <2> QED BY <2>1, <2>2, <2>3
<1>6. after \in Seq(Place) /\ Len(after) = i
  BY <1>1, <1>5 DEF after
<1>7. \A j \in 1 .. i : j \in 1 .. i - 1 \/ j = i
  BY <1>1
<1>8. Passed(p, spots, after, i)
  BY <1>2, <1>3, <1>4, <1>5, <1>6, <1>7 DEF Passed
<1> QED BY <1>8 DEF after, v

\* The whole pass.
LEMMA PassEnds ==
    ASSUME NEW p, NEW labels, NEW spots, Assembled(p, labels, spots)
    PROVE  Passed(p, spots, PlacesOf(p), Len(p.cmds))
<1> DEFINE n == Len(p.cmds)
           S == [i \in 0 .. n |-> {x \in Seq(Place) : Passed(p, spots, x, i)}]
           step == [x \in (DOMAIN p.cmds) \X Seq(Place) |-> Append(x[2], NextPlace(p, x[2]))]
<1>1. n \in Nat /\ DOMAIN p.cmds = 1 .. n
  BY DEF Assembled
<1>2. << >> \in S[0]
  BY <1>1 DEF Passed
<1>3. ASSUME NEW i \in 1 .. n, NEW x \in S[i - 1] PROVE step[<<i, x>>] \in S[i]
  <2>1. x \in Seq(Place) /\ Passed(p, spots, x, i - 1) /\ i \in DOMAIN p.cmds /\ i \in 0 .. n
    BY <1>1
  <2>2. step[<<i, x>>] = Append(x, NextPlace(p, x))
    BY <2>1
  <2>3. Passed(p, spots, Append(x, NextPlace(p, x)), i)
    BY <2>1, PassGoesOn
  <2>4. Append(x, NextPlace(p, x)) \in Seq(Place)
    BY <2>3 DEF Passed
  <2> QED BY <2>1, <2>2, <2>3, <2>4
<1>4. Repeat(step, n, << >>) \in S[n]
  <2> HIDE DEF S, step, n
  <2> QED BY <1>1, <1>2, <1>3, RepeatHolds
<1>5. PlacesOf(p) = Repeat(step, n, << >>)
  BY DEF PlacesOf
<1>6. n \in 0 .. n
  BY <1>1
<1> QED BY <1>4, <1>5, <1>6

\* What the whole pass has found.
LEMMA Found ==
    ASSUME NEW p, NEW labels, NEW spots, Assembled(p, labels, spots),
           NEW places, Passed(p, spots, places, Len(p.cmds)), NEW i \in DOMAIN p.cmds
    PROVE  places[i] \in Place /\ FitsSpot(spots[i], places[i]) /\ Came(p, places, i)
BY DEF Assembled, Passed

\* Where another place leads to is reached.
LEMMA Reached ==
    ASSUME NEW p, NEW labels, NEW spots, Assembled(p, labels, spots),
           NEW places, Passed(p, spots, places, Len(p.cmds)),
           NEW i \in DOMAIN p.cmds, EntriesAt(p, i) # {} \/ Comers(p, places, i) # {}
    PROVE  places[i].live
<1>1. Came(p, places, i)
  BY Found
<1>2. CASE EntriesAt(p, i) # {}
  BY <1>1, <1>2 DEF Came, Entry
<1>3. CASE EntriesAt(p, i) = {}
  <2>1. PICK j \in Comers(p, places, i) :
            places[i] = [After(places[j], p.cmds[j]) EXCEPT !.zero = @ /\ p.cmds[i].kind # "label"]
    BY <1>1, <1>3 DEF Came
  <2> QED BY <2>1 DEF After
<1> QED BY <1>2, <1>3

\* And only such a place.
LEMMA Sources ==
    ASSUME NEW p, NEW labels, NEW spots, Assembled(p, labels, spots),
           NEW places, Passed(p, spots, places, Len(p.cmds)),
           NEW i \in DOMAIN p.cmds, places[i].live, EntriesAt(p, i) = {}
    PROVE  \E j \in DOMAIN p.cmds :
               /\ j \in 1 .. i - 1 /\ places[j].live
               /\ Jumps(p, places, j, i) \/ Falls(p, places, j, i)
               /\ places[i].zero => p.cmds[i].kind # "label" /\ After(places[j], p.cmds[j]).zero
<1>1. Came(p, places, i)
  BY Found
<1>2. Comers(p, places, i) # {}
  BY <1>1 DEF Came, Dead
<1>3. PICK j \in Comers(p, places, i) :
          places[i] = [After(places[j], p.cmds[j]) EXCEPT !.zero = @ /\ p.cmds[i].kind # "label"]
  BY <1>1, <1>2 DEF Came
<1>4. j \in 1 .. i - 1 /\ (Jumps(p, places, j, i) \/ Falls(p, places, j, i))
  BY <1>3 DEF Comers
<1>5. j \in DOMAIN p.cmds
  BY <1>4 DEF Assembled
<1>6. places[j].live
  BY <1>4 DEF Jumps, Falls
<1>7. places[i].zero => p.cmds[i].kind # "label" /\ After(places[j], p.cmds[j]).zero
  BY <1>3 DEF After
<1> QED BY <1>4, <1>5, <1>6, <1>7

\* Nothing is known of the top of the stack at a label.
LEMMA NoZeroAtLabel ==
    ASSUME NEW p, NEW labels, NEW spots, Assembled(p, labels, spots),
           NEW places, Passed(p, spots, places, Len(p.cmds)),
           NEW i \in DOMAIN p.cmds, places[i].live, p.cmds[i].kind = "label"
    PROVE  ~places[i].zero
<1>1. CASE EntriesAt(p, i) # {}
  <2>1. Came(p, places, i)
    BY Found
  <2> QED BY <1>1, <2>1 DEF Came, Entry
<1>2. CASE EntriesAt(p, i) = {}
  BY <1>2, Sources
<1> QED BY <1>1, <1>2

\* The next command.
LEMMA FallsAgree ==
    ASSUME NEW p, NEW labels, NEW spots, Assembled(p, labels, spots),
           NEW places, Passed(p, spots, places, Len(p.cmds)),
           NEW j \in DOMAIN p.cmds, j # Len(p.cmds), places[j].live,
           ~Leaves(places[j], p.cmds[j])
    PROVE  Agrees(places[j + 1], After(places[j], p.cmds[j]))
<1> DEFINE i == j + 1
           after == After(places[j], p.cmds[j])
<1>1. i \in DOMAIN p.cmds /\ i - 1 = j /\ j \in 1 .. i - 1
  BY DEF Assembled
<1>2. Falls(p, places, j, i)
  BY <1>1 DEF Falls
<1>3. j \in Comers(p, places, i)
  BY <1>1, <1>2 DEF Comers
<1>4. places[i].live
  BY <1>1, <1>3, Reached
<1>5. FitsSpot(spots[i], places[i]) /\ places[j] \in Place /\ FitsSpot(spots[j], places[j])
  BY <1>1, Found
<1>6. after.height = spots[i].height /\ after.main = (spots[i].fun = 1)
  BY <1>1, <1>2, <1>5, AfterFits
<1>7. ASSUME places[i].zero PROVE after.zero
  <2>1. p.cmds[i].kind # "label"
    BY <1>1, <1>4, <1>7, NoZeroAtLabel
  <2>2. EntriesAt(p, i) = {}
    BY <2>1, EntrySpot DEF EntriesAt
  <2>3. PICK k \in DOMAIN p.cmds :
            /\ k \in 1 .. i - 1
            /\ Jumps(p, places, k, i) \/ Falls(p, places, k, i)
            /\ places[i].zero => After(places[k], p.cmds[k]).zero
    BY <1>1, <1>4, <2>2, Sources
  <2>4. ~Jumps(p, places, k, i)
    <3>1. SUFFICES ASSUME p.cmds[k].kind = "jump_unless", p.labels[p.cmds[k].x] = i PROVE FALSE
      BY DEF Jumps
    <3>2. p.cmds[k].x \in DOMAIN labels
      BY <3>1 DEF Assembled
    <3>3. SetAt(p, labels, spots, p.cmds[k].x)
      BY <3>2, LabelSpot
    <3> QED BY <2>1, <3>1, <3>3 DEF SetAt
  <2>5. k = j
    BY <1>1, <2>3, <2>4 DEF Falls
  <2> QED BY <1>7, <2>3, <2>5
<1> HIDE DEF i, after
<1>8. places[i].height = spots[i].height /\ places[i].main = (spots[i].fun = 1)
  BY <1>4, <1>5 DEF FitsSpot
<1>9. Agrees(places[i], after)
  BY <1>4, <1>6, <1>7, <1>8 DEF Agrees
<1> QED BY <1>9 DEF i, after

\* The target of a jump.
Target(p, i) == p.labels[p.cmds[i].x]

LEMMA TargetIs ==
    ASSUME NEW p, NEW labels, NEW spots, Assembled(p, labels, spots),
           NEW places, Passed(p, spots, places, Len(p.cmds)),
           NEW i \in DOMAIN p.cmds, p.cmds[i].kind = "jump_unless", places[i].live
    PROVE  LET t == Target(p, i)
           IN /\ t \in DOMAIN p.cmds /\ p.cmds[t].kind = "label" /\ p.cmds[t].x = p.cmds[i].x
              /\ t # i /\ i # Len(p.cmds) /\ spots[t].fun = spots[i].fun
              /\ Jumps(p, places, i, t)
<1> DEFINE t == Target(p, i)
<1>1. p.cmds[i].x \in DOMAIN labels /\ i # Len(p.cmds)
  BY DEF Assembled
<1>2. SetAt(p, labels, spots, p.cmds[i].x)
  BY <1>1, LabelSpot
<1>3. /\ t \in DOMAIN p.cmds /\ p.cmds[t].kind = "label" /\ p.cmds[t].x = p.cmds[i].x
      /\ spots[t] = labels[p.cmds[i].x]
  BY <1>2 DEF SetAt, Target
<1>4. Suits(labels, spots[i], p.cmds[i])
  BY <1>1 DEF Assembled
<1>5. spots[t].fun = spots[i].fun
  BY <1>3, <1>4 DEF Suits, On
<1>6. t # i
  BY <1>3
<1>7. Jumps(p, places, i, t)
  BY DEF Jumps, Target
<1> QED BY <1>1, <1>3, <1>5, <1>6, <1>7

\* A jump back leads to where the pass has found a way to: the only way to what stands
\* between is by the label itself.
LEMMA BackReached ==
    ASSUME NEW p, NEW labels, NEW spots, Assembled(p, labels, spots),
           NEW places, Passed(p, spots, places, Len(p.cmds)),
           NEW i \in DOMAIN p.cmds, p.cmds[i].kind = "jump_unless", places[i].live,
           Target(p, i) < i
    PROVE  places[Target(p, i)].live
<1> DEFINE t == Target(p, i)
           fun == spots[t].fun
<1>1. /\ t \in DOMAIN p.cmds /\ p.cmds[t].kind = "label" /\ p.cmds[t].x = p.cmds[i].x
      /\ spots[i].fun = fun
  BY TargetIs
<1>2. DOMAIN p.cmds = 1 .. Len(p.cmds) /\ Len(p.cmds) \in Nat
  BY DEF Assembled
<1> HIDE DEF t, fun
<1> SUFFICES ASSUME ~places[t].live PROVE FALSE
  BY DEF t
<1> DEFINE T == {k \in Nat : t <= k /\ k <= i /\ places[k].live => spots[k].fun # fun}
<1>3. ASSUME NEW k \in Nat, \A j \in 0 .. k - 1 : j \in T PROVE k \in T
  <2> SUFFICES ASSUME t <= k, k <= i, places[k].live PROVE spots[k].fun # fun
    OBVIOUS
  <2>1. k # t /\ t < k /\ t \in Nat /\ k \in DOMAIN p.cmds
    BY <1>1, <1>2
  <2>2. ASSUME p.cmds[k].kind = "label"
        PROVE  /\ p.cmds[k].x # fun
               /\ \A j \in DOMAIN p.cmds : IsJump(p.cmds[j], p.cmds[k].x) => t <= j
    <3>1. IsLabel(p.cmds[t], p.cmds[i].x)
      BY <1>1 DEF IsLabel
    <3>2. NoWayIn(p.cmds, spots[t], t, k)
      <4>1. Closed(p.cmds, spots)
        BY DEF Assembled
      <4> QED BY <1>1, <2>1, <2>2, <3>1, <4>1 DEF Closed
    <3> QED BY <3>2 DEF NoWayIn, fun
  <2>3. CASE EntriesAt(p, k) # {}
    <3>1. PICK f \in DOMAIN p.funs : p.funs[f].cmd = k
      BY <2>3 DEF EntriesAt
    <3>2. p.cmds[k].kind = "label" /\ spots[k] = On(0, p.cmds[k].x)
      BY <3>1, EntrySpot
    <3>3. spots[k].fun = p.cmds[k].x
      BY <3>2 DEF On
    <3> QED BY <2>2, <3>2, <3>3
  <2>4. CASE EntriesAt(p, k) = {}
    <3>1. PICK j \in DOMAIN p.cmds :
              /\ j \in 1 .. k - 1 /\ places[j].live
              /\ Jumps(p, places, j, k) \/ Falls(p, places, j, k)
      BY <2>1, <2>4, Sources
    <3>2. spots[k].fun = spots[j].fun
      <4>1. j # Len(p.cmds)
        BY <1>2, <2>1, <3>1
      <4>2. places[j] \in Place /\ FitsSpot(spots[j], places[j])
        BY Found
      <4> QED BY <2>1, <3>1, <4>1, <4>2, AfterFits
    <3>3. t <= j
      <4>1. CASE Falls(p, places, j, k)
        BY <1>1, <1>2, <2>1, <4>1 DEF Falls
      <4>2. CASE Jumps(p, places, j, k)
        <5>1. p.cmds[j].kind = "jump_unless" /\ Target(p, j) = k
          BY <4>2 DEF Jumps, Target
        <5>2. p.cmds[k].kind = "label" /\ p.cmds[k].x = p.cmds[j].x
          BY <3>1, <5>1, TargetIs
        <5>3. IsJump(p.cmds[j], p.cmds[k].x)
          BY <5>1, <5>2 DEF IsJump
        <5> QED BY <2>2, <5>2, <5>3
      <4> QED BY <3>1, <4>1, <4>2
    <3>4. j \in T
      <4>1. j \in 0 .. k - 1
        BY <2>1, <3>1
      <4> QED BY <1>3, <4>1
    <3>5. j <= i /\ j \in Nat
      BY <1>2, <2>1, <3>1
    <3> QED BY <3>1, <3>2, <3>3, <3>4, <3>5
  <2> QED BY <2>3, <2>4
<1>4. i \in T
  <2>1. i \in Nat
    BY <1>2
  <2> HIDE DEF T
  <2> QED BY <1>3, <2>1, Induct
<1> QED BY <1>1, <1>2, <1>4 DEF t

LEMMA JumpsAgree ==
    ASSUME NEW p, NEW labels, NEW spots, Assembled(p, labels, spots),
           NEW places, Passed(p, spots, places, Len(p.cmds)),
           NEW i \in DOMAIN p.cmds, p.cmds[i].kind = "jump_unless", places[i].live
    PROVE  Agrees(places[Target(p, i)], After(places[i], p.cmds[i]))
<1> DEFINE t == Target(p, i)
           after == After(places[i], p.cmds[i])
<1>1. /\ t \in DOMAIN p.cmds /\ p.cmds[t].kind = "label"
      /\ t # i /\ i # Len(p.cmds) /\ Jumps(p, places, i, t)
  BY TargetIs
<1>2. places[t].live
  <2>1. CASE t < i
    BY <2>1, BackReached
  <2>2. CASE ~(t < i)
    <3>1. i \in 1 .. t - 1
      BY <1>1, <2>2 DEF Assembled
    <3>2. i \in Comers(p, places, t)
      BY <1>1, <3>1 DEF Comers
    <3> QED BY <1>1, <3>2, Reached
  <2> QED BY <2>1, <2>2
<1>3. ~places[t].zero
  BY <1>1, <1>2, NoZeroAtLabel
<1>4. places[i] \in Place /\ FitsSpot(spots[i], places[i]) /\ FitsSpot(spots[t], places[t])
  BY <1>1, Found
<1>5. after.height = spots[t].height /\ after.main = (spots[t].fun = 1)
  BY <1>1, <1>4, AfterFits
<1> HIDE DEF t, after
<1>6. places[t].height = spots[t].height /\ places[t].main = (spots[t].fun = 1)
  BY <1>2, <1>4 DEF FitsSpot
<1>7. Agrees(places[t], after)
  BY <1>2, <1>3, <1>5, <1>6 DEF Agrees
<1> QED BY <1>7 DEF t, after

\* A function.
LEMMA EntryAgrees ==
    ASSUME NEW p, NEW labels, NEW spots, Assembled(p, labels, spots),
           NEW places, Passed(p, spots, places, Len(p.cmds)), NEW f \in DOMAIN p.funs
    PROVE  Agrees(places[p.funs[f].cmd], Entry(f = Len(p.funs)))
<1> DEFINE i == p.funs[f].cmd
<1>1. /\ i \in DOMAIN p.cmds /\ p.cmds[i].kind = "label"
      /\ spots[i] = On(0, p.cmds[i].x)
      /\ p.cmds[i].x = 1 <=> f = Len(p.funs)
  BY EntrySpot
<1>2. EntriesAt(p, i) # {}
  BY DEF EntriesAt
<1>3. places[i].live
  BY <1>1, <1>2, Reached
<1>4. ~places[i].zero
  BY <1>1, <1>3, NoZeroAtLabel
<1>5. FitsSpot(spots[i], places[i])
  BY <1>1, Found
<1>6. spots[i].height = 0 /\ spots[i].fun = p.cmds[i].x
  BY <1>1 DEF On
<1> HIDE DEF i
<1>7. Agrees(places[i], Entry(f = Len(p.funs)))
  BY <1>1, <1>3, <1>4, <1>5, <1>6 DEF Agrees, Entry, FitsSpot
<1> QED BY <1>7 DEF i

\* The main program.
LEMMA MainAgrees ==
    ASSUME NEW p, NEW labels, NEW spots, Assembled(p, labels, spots),
           NEW places, Passed(p, spots, places, Len(p.cmds))
    PROVE  Agrees(places[2], Entry(TRUE))
<1> DEFINE f == Len(p.funs)
           cmd == p.cmds[1]
<1>1. /\ f \in DOMAIN p.funs /\ IsLabel(cmd, 1) /\ 1 \in DOMAIN p.cmds /\ 1 # Len(p.cmds)
  BY DEF Assembled
<1>2. cmd.kind = "label" /\ cmd.x = 1 /\ PopsOf(cmd) = 0 /\ Pushes[cmd.kind] = 0
  BY <1>1 DEF IsLabel, PopsOf, Pops, Pushes
<1>3. p.labels[1] = 1
  BY <1>1, <1>2 DEF Assembled
<1>4. p.funs[f].cmd = 1
  <2>1. PICK x \in DOMAIN labels : p.funs[f].cmd = p.labels[x] /\ (x = 1 <=> f = Len(p.funs))
    BY <1>1 DEF Assembled
  <2> QED BY <1>3, <2>1
<1>5. Agrees(places[1], Entry(TRUE))
  BY <1>1, <1>4, EntryAgrees
<1>6. places[1].live /\ places[1].height = 0 /\ places[1].main = TRUE
  BY <1>5 DEF Agrees, Entry
<1>7. ~Leaves(places[1], cmd)
  BY <1>2 DEF Leaves
<1>8. Agrees(places[1 + 1], After(places[1], cmd))
  BY <1>1, <1>6, <1>7, FallsAgree
<1> HIDE DEF cmd
<1> DEFINE after == After(places[1], cmd)
<1>9. after.height = 0
  BY <1>2, <1>6 DEF After
<1>10. after.main = TRUE
  BY <1>6 DEF After
<1>11. ~after.zero
  BY <1>2 DEF After
<1>12. Agrees(places[2], after)
  BY <1>8
<1> HIDE DEF after
<1> QED BY <1>9, <1>10, <1>11, <1>12 DEF Agrees, Entry

\* One command.
LEMMA CommandBalances ==
    ASSUME NEW p, NEW labels, NEW spots, Assembled(p, labels, spots),
           NEW places, Passed(p, spots, places, Len(p.cmds)),
           NEW i \in DOMAIN p.cmds, places[i].live
    PROVE  LET cmd == p.cmds[i]
               after == After(places[i], cmd)
           IN /\ PopsOf(cmd) \in 0 .. places[i].height
              /\ cmd.kind = "exit" <=> i = Len(p.cmds)
              /\ cmd.kind \in {"return", "exit"} => places[i].height = 1
              /\ cmd.kind = "exit" => places[i].main
              /\ cmd.kind = "push_closure" => cmd.x # Len(p.funs)
              /\ cmd.kind = "jump_unless" => Agrees(places[p.labels[cmd.x]], after)
              /\ Leaves(places[i], cmd) \/ Agrees(places[i + 1], after)
<1> DEFINE cmd == p.cmds[i]
           after == After(places[i], cmd)
<1>1. places[i] \in Place /\ FitsSpot(spots[i], places[i])
  BY Found
<1>2. /\ cmd.kind = "exit" <=> i = Len(p.cmds)
      /\ cmd.kind = "push_closure" => cmd.x # Len(p.funs)
  BY DEF Assembled
<1>3. CASE i = Len(p.cmds)
  <2>1. cmd.kind = "exit"
    BY <1>2, <1>3
  <2>2. spots[i] = On(1, 1)
    BY <1>3 DEF Assembled
  <2>3. places[i].height = 1 /\ places[i].main
    <3>1. spots[i].height = 1 /\ spots[i].fun = 1
      BY <2>2 DEF On
    <3>2. places[i].height = spots[i].height /\ places[i].main = (spots[i].fun = 1)
      BY <1>1 DEF FitsSpot
    <3> QED BY <3>1, <3>2
  <2>4. PopsOf(cmd) \in 0 .. 1
    BY <2>1 DEF PopsOf, Pops
  <2>5. Leaves(places[i], cmd)
    BY <2>1 DEF Leaves
  <2> HIDE DEF cmd, after
  <2>6. PopsOf(cmd) \in 0 .. places[i].height
    BY <2>3, <2>4
  <2> QED BY <1>2, <1>3, <2>1, <2>3, <2>5, <2>6 DEF cmd, after
<1>4. CASE i # Len(p.cmds)
  <2>1. /\ PopsOf(cmd) \in 0 .. places[i].height
        /\ cmd.kind = "return" => places[i].height = 1
    BY <1>1, <1>4, HereSpot
  <2>2. cmd.kind # "exit"
    BY <1>2, <1>4
  <2>3. cmd.kind = "jump_unless" => Agrees(places[p.labels[cmd.x]], after)
    BY JumpsAgree DEF Target
  <2>4. Leaves(places[i], cmd) \/ Agrees(places[i + 1], after)
    BY <1>4, FallsAgree
  <2> QED BY <1>2, <1>4, <2>1, <2>2, <2>3, <2>4
<1> QED BY <1>3, <1>4

LEMMA AssembledBalanced ==
    ASSUME NEW p, NEW labels, NEW spots, Assembled(p, labels, spots)
    PROVE  Balanced(p)
<1> DEFINE places == PlacesOf(p)
<1>1. Passed(p, spots, places, Len(p.cmds))
  BY PassEnds
<1> HIDE DEF places
<1>2. places \in [DOMAIN p.cmds -> Place]
  BY <1>1 DEF Passed, Assembled
<1>3. Agrees(places[2], Entry(TRUE))
  BY <1>1, MainAgrees
<1>4. \A f \in DOMAIN p.funs : Agrees(places[p.funs[f].cmd], Entry(f = Len(p.funs)))
  BY <1>1, EntryAgrees
<1>5. Balances(p, places)
  BY <1>1, <1>2, <1>3, <1>4, CommandBalances DEF Balances
<1> QED BY <1>5 DEF Balanced, places

---------------------------------------------------------------------------
(* What gen makes of what the generator ends with.                         *)

\* Where a label is.
LabelAt(cmds, x) == CHOOSE i \in DOMAIN cmds : cmds[i] = Cmd("label", x)

Linked(g, p) ==
    /\ p.cmds = Append(g.cmds, Cmd("exit", 0)) /\ p.data = g.data
    /\ p.labels = [x \in 1 .. g.labels |-> LabelAt(p.cmds, x)]
    /\ p.funs \in Seq({[cmd |-> LabelAt(p.cmds, fun.label), len |-> g.scopes[fun.scope].len] :
                          fun \in ToSet(g.funs) \cup {[scope |-> 1, label |-> 1]}})
    /\ Len(p.funs) = Len(g.funs) + 1
    /\ \A f \in DOMAIN g.funs : p.funs[f].cmd = LabelAt(p.cmds, g.funs[f].label)
    /\ p.funs[Len(p.funs)].cmd = LabelAt(p.cmds, 1)

\* A function on the first numbers is a sequence.
LEMMA SequenceOf ==
    ASSUME NEW S, NEW m \in Nat, NEW f \in [1 .. m -> S]
    PROVE  f \in Seq(S)
<1>1. f \in UNION {[1 .. k -> S] : k \in Nat}
  OBVIOUS
<1> QED BY <1>1, SeqDef, Zenon

LEMMA CompileLinks ==
    ASSUME NEW n, NEW e, NEW g, g = Gen[n][<<Begin, e>>], g \in Generators
    PROVE  Linked(g, Compile(n, e))
<1> DEFINE exit == Cmd("exit", 0)
           h == Emit(g, <<exit>>)
           funs == Append(h.funs, [scope |-> 1, label |-> 1])
           p == [source |-> e, cmds |-> h.cmds, data |-> h.data, ok |-> h.ok,
                 labels |-> [x \in 1 .. h.labels |-> LabelAt(h.cmds, x)],
                 funs |-> [f \in DOMAIN funs |-> [cmd |-> LabelAt(h.cmds, funs[f].label),
                                                  len |-> h.scopes[funs[f].scope].len]]]
<1>1. Compile(n, e) = p
  BY DEF Compile, LabelAt, Begin
<1>2. exit \in Command
  <2>1. "exit" \in Kinds
    BY DEF Kinds, Pushes
  <2> QED BY <2>1, CmdIs
<1>3. /\ h.cmds = Append(g.cmds, exit) /\ h.labels = g.labels /\ h.funs = g.funs
      /\ h.scopes = g.scopes /\ h.data = g.data
  BY <1>2, EmitFields
<1> HIDE DEF h, exit
<1> DEFINE one == [scope |-> 1, label |-> 1]
           F == [scope : Nat, label : Nat]
           all == ToSet(g.funs) \cup {one}
<1>4. g.funs \in Seq(F) /\ one \in F
  BY DEF Generators
<1> HIDE DEF one, F
<1>5. /\ funs = Append(g.funs, one) /\ Len(g.funs) \in Nat
      /\ Len(funs) = Len(g.funs) + 1 /\ DOMAIN funs = 1 .. Len(g.funs) + 1
      /\ DOMAIN g.funs = 1 .. Len(g.funs)
      /\ funs[Len(g.funs) + 1] = one
      /\ \A f \in DOMAIN g.funs : funs[f] = g.funs[f]
  BY <1>3, <1>4 DEF one
<1>6. \A f \in DOMAIN funs : funs[f] \in all
  BY <1>5 DEF ToSet
<1> HIDE DEF funs, all
<1> DEFINE Recs == {[cmd |-> LabelAt(p.cmds, fun.label), len |-> g.scopes[fun.scope].len] : fun \in all}
<1>7. /\ p.cmds = h.cmds /\ p.data = h.data
      /\ p.labels = [x \in 1 .. h.labels |-> LabelAt(h.cmds, x)]
      /\ DOMAIN p.funs = DOMAIN funs
  OBVIOUS
<1> DEFINE made(f) == [cmd |-> LabelAt(h.cmds, funs[f].label), len |-> h.scopes[funs[f].scope].len]
<1>8. \A f \in DOMAIN funs : p.funs[f] = made(f)
  OBVIOUS
<1>9. \A f \in DOMAIN funs : made(f).cmd = LabelAt(h.cmds, funs[f].label)
  OBVIOUS
<1> HIDE DEF p
<1>10. p.funs \in Seq(Recs) /\ Len(p.funs) = Len(g.funs) + 1
  <2>1. ASSUME NEW f \in DOMAIN funs PROVE p.funs[f] \in Recs
    <3>1. p.funs[f] = [cmd |-> LabelAt(p.cmds, funs[f].label), len |-> g.scopes[funs[f].scope].len]
      BY <1>3, <1>7, <1>8
    <3> QED BY <1>6, <3>1
  <2>2. p.funs = [f \in 1 .. Len(g.funs) + 1 |-> p.funs[f]]
    BY <1>5, <1>7 DEF p
  <2> HIDE DEF Recs
  <2> DEFINE m == Len(g.funs) + 1
  <2>3. m \in Nat /\ DOMAIN funs = 1 .. m
    BY <1>5
  <2> HIDE DEF m
  <2>4. p.funs \in [1 .. m -> Recs]
    BY <2>1, <2>2, <2>3 DEF m
  <2>5. p.funs \in Seq(Recs)
    BY <2>3, <2>4, SequenceOf
  <2>6. Len(p.funs) = m
    <3>1. DOMAIN p.funs = 1 .. Len(p.funs) /\ Len(p.funs) \in Nat
      BY <2>5
    <3>2. DOMAIN p.funs = 1 .. m
      BY <2>4
    <3> QED BY <2>3, <3>1, <3>2
  <2> QED BY <2>5, <2>6 DEF m
<1>11. /\ \A f \in DOMAIN g.funs : p.funs[f].cmd = LabelAt(p.cmds, g.funs[f].label)
      /\ p.funs[Len(p.funs)].cmd = LabelAt(p.cmds, 1)
  <2>1. one.label = 1
    BY DEF one
  <2>2. p.funs[Len(p.funs)] = p.funs[Len(g.funs) + 1] /\ Len(g.funs) + 1 \in DOMAIN funs
    BY <1>5, <1>10
  <2>3. \A f \in DOMAIN g.funs : f \in DOMAIN funs
    BY <1>5
  <2>4. ASSUME NEW f \in DOMAIN funs PROVE p.funs[f].cmd = LabelAt(p.cmds, funs[f].label)
    <3>1. p.funs[f].cmd = LabelAt(h.cmds, funs[f].label)
      <4> HIDE DEF made
      <4> QED BY <1>8, <1>9
    <3>2. p.cmds = h.cmds
      BY <1>7
    <3> QED BY <3>1, <3>2, Zenon
  <2>5. \A f \in DOMAIN g.funs : p.funs[f].cmd = LabelAt(p.cmds, g.funs[f].label)
    BY <1>5, <2>3, <2>4
  <2>6. p.funs[Len(p.funs)].cmd = LabelAt(p.cmds, 1)
    BY <1>5, <2>1, <2>2, <2>4
  <2> QED BY <2>5, <2>6
<1>12. Linked(g, p)
  <2>1. p.cmds = Append(g.cmds, Cmd("exit", 0)) /\ p.data = g.data
        /\ p.labels = [x \in 1 .. g.labels |-> LabelAt(p.cmds, x)]
    BY <1>3, <1>7 DEF exit
  <2>2. p.funs \in Seq({[cmd |-> LabelAt(p.cmds, fun.label), len |-> g.scopes[fun.scope].len] :
                           fun \in ToSet(g.funs) \cup {[scope |-> 1, label |-> 1]}})
    BY <1>10 DEF all, one
  <2> HIDE DEF Recs
  <2> QED BY <1>10, <1>11, <2>1, <2>2 DEF Linked
<1> QED BY <1>1, <1>12 DEF p

\* A label that is set once is found.
LEMMA LabelFound ==
    ASSUME NEW g \in Generators, NEW p, Linked(g, p), NEW x \in 1 .. g.labels, NEW i \in DOMAIN g.cmds,
           Labelled(g, x) = {i}
    PROVE  p.labels[x] = i /\ LabelAt(p.cmds, x) = i /\ i \in DOMAIN p.cmds /\ IsLabel(p.cmds[i], x)
<1>1. g.cmds \in Seq(Command) /\ g.labels \in Nat
  BY DEF Generators
<1>2. p.cmds = Append(g.cmds, Cmd("exit", 0))
  BY DEF Linked
<1>3. /\ DOMAIN g.cmds = 1 .. Len(g.cmds) /\ DOMAIN p.cmds = 1 .. Len(g.cmds) + 1
      /\ \A j \in DOMAIN g.cmds : p.cmds[j] = g.cmds[j]
      /\ p.cmds[Len(g.cmds) + 1] = Cmd("exit", 0) /\ Len(g.cmds) \in Nat
  BY <1>1, <1>2
<1>4. IsLabel(g.cmds[i], x) /\ \A j \in DOMAIN g.cmds : IsLabel(g.cmds[j], x) => j = i
  BY DEF Labelled
<1>5. g.cmds[i] = Cmd("label", x)
  <2>1. g.cmds[i] \in Command /\ g.cmds[i].kind = "label" /\ g.cmds[i].x = x
    BY <1>1, <1>4 DEF IsLabel
  <2> QED BY <2>1 DEF Command, Cmd
<1>6. \A j \in DOMAIN p.cmds : p.cmds[j] = Cmd("label", x) => j = i
  <2>1. \A j \in DOMAIN p.cmds : j \in DOMAIN g.cmds \/ j = Len(g.cmds) + 1
    BY <1>3
  <2>2. Cmd("label", x) # Cmd("exit", 0) /\ IsLabel(Cmd("label", x), x)
    BY DEF Cmd, IsLabel
  <2> QED BY <1>3, <1>4, <2>1, <2>2
<1>7. i \in DOMAIN p.cmds /\ p.cmds[i] = Cmd("label", x)
  BY <1>3, <1>5
<1>8. LabelAt(p.cmds, x) = i
  BY <1>6, <1>7 DEF LabelAt
<1>9. p.labels[x] = LabelAt(p.cmds, x)
  BY DEF Linked
<1> QED BY <1>3, <1>4, <1>7, <1>8, <1>9

LEMMA LinkedAssembled ==
    ASSUME NEW g, NEW labels, Ended(TRUE, g, labels), NEW p, Linked(g, p)
    PROVE  \E spots : Assembled(p, labels, spots)
<1>1. /\ Sound(TRUE, g, labels, On(1, 1)) /\ labels[1] = On(0, 1) /\ 1 \in DOMAIN labels
      /\ g.cmds # << >> /\ Labelled(g, 1) = {1}
      /\ \A x \in DOMAIN labels : \E i \in DOMAIN g.cmds : Labelled(g, x) = {i}
  BY DEF Ended
<1>2. /\ g \in Generators /\ g.labels \in Nat /\ g.cmds \in Seq(Command) /\ Len(g.cmds) \in Nat
      /\ DOMAIN g.cmds = 1 .. Len(g.cmds) /\ DOMAIN labels = 1 .. g.labels
  BY <1>1, SoundState
<1> DEFINE m == Len(g.cmds)
           exit == Cmd("exit", 0)
<1>3. PICK spots : Laid(TRUE, g, labels, spots) /\ spots[Len(spots)] = On(1, 1)
  BY <1>1 DEF Sound
<1>4. spots \in Seq(Spot) /\ Len(spots) = m + 1
  BY <1>3 DEF Laid
<1>5. /\ DOMAIN p.cmds = 1 .. m + 1 /\ Len(p.cmds) = m + 1 /\ m # 0
      /\ \A i \in DOMAIN g.cmds : p.cmds[i] = g.cmds[i]
      /\ p.cmds[m + 1] = exit
  <2>1. p.cmds = Append(g.cmds, exit)
    BY DEF Linked
  <2> QED BY <1>1, <1>2, <2>1
<1>6. exit.kind = "exit" /\ PopsOf(exit) \in Nat /\ exit.kind \in DOMAIN Pushes
  BY DEF Cmd, PopsOf, Pops, Pushes
<1> HIDE DEF exit
<1>7. ASSUME NEW x \in DOMAIN labels, NEW i \in DOMAIN g.cmds, IsLabel(g.cmds[i], x)
      PROVE  p.labels[x] = i
  <2>1. PICK k \in DOMAIN g.cmds : Labelled(g, x) = {k}
    BY <1>1
  <2>2. i = k
    BY <1>7, <2>1 DEF Labelled
  <2> QED BY <1>2, <2>1, <2>2, LabelFound
<1>8. ASSUME NEW x \in DOMAIN labels
      PROVE  /\ labels[x].zero = FALSE /\ p.labels[x] \in DOMAIN p.cmds
             /\ IsLabel(p.cmds[p.labels[x]], x) /\ p.labels[x] = LabelAt(p.cmds, x)
  <2>1. PICK k \in DOMAIN g.cmds : Labelled(g, x) = {k}
    BY <1>1
  <2>2. /\ p.labels[x] = k /\ LabelAt(p.cmds, x) = k /\ k \in DOMAIN p.cmds
        /\ IsLabel(p.cmds[k], x)
    BY <1>2, <2>1, LabelFound
  <2>3. labels[x].zero = FALSE
    BY <1>1 DEF Sound
  <2> QED BY <2>2, <2>3
<1>9. /\ Len(p.funs) = Len(g.funs) + 1 /\ Len(g.funs) \in Nat /\ DOMAIN p.funs = 1 .. Len(p.funs)
      /\ DOMAIN g.funs = 1 .. Len(g.funs)
  BY <1>2 DEF Linked, Generators
<1>10. ASSUME NEW i \in DOMAIN g.cmds
       PROVE  LET cmd == g.cmds[i]
              IN /\ cmd.kind \in DOMAIN Pushes /\ PopsOf(cmd) \in Nat /\ cmd.kind # "exit"
                 /\ cmd.kind \in {"label", "jump_unless"} => cmd.x \in DOMAIN labels
                 /\ cmd.kind = "label" => p.labels[cmd.x] = i
                 /\ cmd.kind = "push_closure" => cmd.x # Len(p.funs)
                 /\ Suits(labels, spots[i], cmd) /\ Leads(spots[i], cmd, spots[i + 1])
  <2> DEFINE cmd == g.cmds[i]
  <2>1. Known(g, cmd) /\ Suits(labels, spots[i], cmd) /\ Leads(spots[i], cmd, spots[i + 1])
    BY <1>3 DEF Laid
  <2> HIDE DEF cmd
  <2>2. /\ cmd.kind \in DOMAIN Pushes \ {"exit"}
        /\ cmd.kind \in {"label", "jump_unless"} => cmd.x \in DOMAIN labels
        /\ cmd.kind = "push_closure" => cmd.x # Len(p.funs)
        /\ cmd.kind = "call" => cmd.x \in Nat
    BY <1>2, <1>9, <2>1 DEF Known
  <2>3. PopsOf(cmd) \in Nat
    BY <2>2 DEF PopsOf, Pops, Pushes
  <2>4. cmd.kind = "label" => p.labels[cmd.x] = i
    BY <1>7, <2>2 DEF IsLabel, cmd
  <2> QED BY <2>1, <2>2, <2>3, <2>4 DEF cmd
<1>11. ASSUME NEW i \in DOMAIN p.cmds
       PROVE  /\ p.cmds[i].kind \in DOMAIN Pushes /\ PopsOf(p.cmds[i]) \in Nat
              /\ p.cmds[i].kind = "exit" <=> i = Len(p.cmds)
              /\ p.cmds[i].kind \in {"label", "jump_unless"} => p.cmds[i].x \in DOMAIN labels
              /\ p.cmds[i].kind = "label" => p.labels[p.cmds[i].x] = i
              /\ p.cmds[i].kind = "push_closure" => p.cmds[i].x # Len(p.funs)
              /\ i # Len(p.cmds) => /\ Suits(labels, spots[i], p.cmds[i])
                                    /\ Leads(spots[i], p.cmds[i], spots[i + 1])
  <2>1. CASE i = m + 1
    BY <1>5, <1>6, <2>1
  <2>2. CASE i \in DOMAIN g.cmds
    <3>1. p.cmds[i] = g.cmds[i] /\ i # Len(p.cmds)
      BY <1>2, <1>5, <2>2
    <3> QED BY <1>10, <2>2, <3>1
  <2> QED BY <1>2, <1>5, <2>1, <2>2
<1>12. Closed(p.cmds, spots)
  <2>1. Closed(g.cmds, spots)
    BY <1>3 DEF Laid
  <2> SUFFICES ASSUME NEW i \in DOMAIN p.cmds, NEW t \in DOMAIN p.cmds, NEW k \in DOMAIN p.cmds,
                      t < k, k <= i, p.cmds[k].kind = "label",
                      p.cmds[i].kind = "jump_unless", IsLabel(p.cmds[t], p.cmds[i].x)
               PROVE  NoWayIn(p.cmds, spots[t], t, k)
    BY DEF Closed
  <2>2. i \in DOMAIN g.cmds /\ t \in DOMAIN g.cmds /\ k \in DOMAIN g.cmds
    <3>1. i # m + 1
      BY <1>5, <1>6
    <3> QED BY <1>2, <1>5, <3>1
  <2>3. p.cmds[i] = g.cmds[i] /\ p.cmds[t] = g.cmds[t] /\ p.cmds[k] = g.cmds[k]
    BY <1>5, <2>2
  <2>4. NoWayIn(g.cmds, spots[t], t, k)
    BY <2>1, <2>2, <2>3 DEF Closed
  <2>5. ASSUME NEW j \in DOMAIN p.cmds, IsJump(p.cmds[j], p.cmds[k].x) PROVE t <= j
    <3>1. j # m + 1
      BY <1>5, <1>6, <2>5 DEF IsJump
    <3>2. j \in DOMAIN g.cmds
      BY <1>2, <1>5, <3>1
    <3> QED BY <1>5, <2>3, <2>4, <2>5, <3>2 DEF NoWayIn
  <2> QED BY <2>3, <2>4, <2>5 DEF NoWayIn
<1>13. ASSUME NEW f \in DOMAIN p.funs
       PROVE  \E x \in DOMAIN labels : /\ p.funs[f].cmd = p.labels[x] /\ labels[x] = On(0, x)
                                       /\ x = 1 <=> f = Len(p.funs)
  <2>1. CASE f = Len(p.funs)
    <3>1. p.funs[f].cmd = LabelAt(p.cmds, 1)
      BY <2>1 DEF Linked
    <3> QED BY <1>1, <1>8, <2>1, <3>1
  <2>2. CASE f \in DOMAIN g.funs
    <3> DEFINE x == g.funs[f].label
    <3>1. x \in 2 .. g.labels /\ labels[x] = On(0, x)
      BY <1>1, <2>2 DEF Sound
    <3>2. p.funs[f].cmd = LabelAt(p.cmds, x)
      BY <2>2 DEF Linked
    <3> HIDE DEF x
    <3>3. x \in DOMAIN labels /\ x # 1 /\ f # Len(p.funs)
      BY <1>2, <1>9, <2>2, <3>1
    <3> QED BY <1>8, <3>1, <3>2, <3>3
  <2> QED BY <1>9, <2>1, <2>2
<1>14. IsLabel(p.cmds[1], 1)
  <2>1. 1 \in DOMAIN g.cmds
    BY <1>2, <1>5
  <2>2. IsLabel(g.cmds[1], 1)
    BY <1>1, <2>1 DEF Labelled
  <2> QED BY <1>5, <2>1, <2>2
<1>15. Len(p.funs) \in DOMAIN p.funs /\ spots[Len(p.cmds)] = On(1, 1)
  BY <1>3, <1>4, <1>5, <1>9
<1>16. /\ Len(spots) = Len(p.cmds) /\ Len(p.cmds) \in Nat \ {0, 1} /\ DOMAIN p.cmds = 1 .. Len(p.cmds)
  BY <1>2, <1>4, <1>5
<1>17. Assembled(p, labels, spots)
  BY <1>4, <1>8, <1>11, <1>12, <1>13, <1>14, <1>15, <1>16 DEF Assembled
<1> QED BY <1>17

---------------------------------------------------------------------------
(* The theorems.                                                           *)

\* p is what gen makes of a tree, with a record of where it comes from.
Translated(p, c) ==
    \E n \in Nat : \E e \in Trees[n][c] : \E s : p = [Compile(n, e) EXCEPT !.source = s]

LEMMA CompileFields ==
    ASSUME NEW n, NEW e, NEW s
    PROVE  LET c == Compile(n, e)
               p == [c EXCEPT !.source = s]
           IN p.cmds = c.cmds /\ p.data = c.data /\ p.labels = c.labels /\ p.funs = c.funs
<1> DEFINE main == Emit([Start EXCEPT !.labels = 1], <<Cmd("label", 1)>>)
           g == Emit(Gen[n][<<main, e>>], <<Cmd("exit", 0)>>)
           at(label) == CHOOSE i \in DOMAIN g.cmds : g.cmds[i] = Cmd("label", label)
           funs == Append(g.funs, [scope |-> 1, label |-> 1])
           resolved == [label \in 1 .. g.labels |-> at(label)]
           entries == [f \in DOMAIN funs |-> [cmd |-> at(funs[f].label),
                                              len |-> g.scopes[funs[f].scope].len]]
           c == [source |-> e, cmds |-> g.cmds, data |-> g.data, ok |-> g.ok,
                 labels |-> resolved, funs |-> entries]
<1>1. Compile(n, e) = c
  BY DEF Compile
<1> HIDE DEF g, resolved, entries
<1>2. LET p == [c EXCEPT !.source = s]
      IN p.cmds = c.cmds /\ p.data = c.data /\ p.labels = c.labels /\ p.funs = c.funs
  OBVIOUS
<1> QED BY <1>1, <1>2

\* What the generator ends with for such a program, and how the program is linked.
LEMMA TranslatedEnds ==
    ASSUME Externs \in Seq(STRING), NEW c \in {"main", "free"}, NEW p, Translated(p, c)
    PROVE  \E g, labels : Ended(Bal(c), g, labels) /\ Linked(g, p)
<1>1. PICK n \in Nat : \E e \in Trees[n][c] : \E s : p = [Compile(n, e) EXCEPT !.source = s]
  BY DEF Translated
<1>2. PICK e \in Trees[n][c] : \E s : p = [Compile(n, e) EXCEPT !.source = s]
  BY <1>1
<1>3. PICK s : p = [Compile(n, e) EXCEPT !.source = s]
  BY <1>2
<1> DEFINE g == Gen[n][<<Begin, e>>]
<1>4. PICK labels : Ended(Bal(c), g, labels)
  BY GenEnds
<1>5. g \in Generators
  <2>1. Sound(Bal(c), g, labels, On(1, 1))
    BY <1>4 DEF Ended
  <2> QED BY <2>1, SoundState
<1>6. Linked(g, Compile(n, e))
  BY <1>5, CompileLinks
<1> DEFINE made == Compile(n, e)
<1>7. p.cmds = made.cmds /\ p.data = made.data /\ p.labels = made.labels /\ p.funs = made.funs
  BY <1>3, CompileFields
<1> HIDE DEF g, made
<1>8. Linked(g, p)
  BY <1>6, <1>7 DEF Linked, made
<1> QED BY <1>4, <1>8 DEF g

LEMMA TranslatedBalanced ==
    ASSUME Externs \in Seq(STRING), NEW p, Translated(p, "main")
    PROVE  Balanced(p)
<1>1. PICK g, labels : Ended(Bal("main"), g, labels) /\ Linked(g, p)
  BY TranslatedEnds
<1>2. Bal("main")
  BY DEF Bal
<1>3. Ended(TRUE, g, labels)
  BY <1>1, <1>2 DEF Bal
<1>4. PICK spots : Assembled(p, labels, spots)
  BY <1>1, <1>3, LinkedAssembled
<1> QED BY <1>4, AssembledBalanced

\* The labels of a program, whether the stack is looked at or not.
LEMMA LinkedLabels ==
    ASSUME NEW bal, NEW g, NEW labels, Ended(bal, g, labels), NEW p, Linked(g, p)
    PROVE  /\ \A x \in DOMAIN p.labels :
                  {i \in DOMAIN p.cmds : p.cmds[i] = [kind |-> "label", x |-> x]} = {p.labels[x]}
           /\ \A i \in DOMAIN p.cmds :
                  p.cmds[i].kind \in {"label", "jump_unless"} => p.cmds[i].x \in DOMAIN p.labels
           /\ \A f \in DOMAIN p.funs : \E x \in DOMAIN p.labels : p.funs[f].cmd = p.labels[x]
<1>1. /\ Sound(bal, g, labels, On(1, 1)) /\ 1 \in DOMAIN labels
      /\ \A x \in DOMAIN labels : \E i \in DOMAIN g.cmds : Labelled(g, x) = {i}
  BY DEF Ended
<1>2. /\ g \in Generators /\ g.labels \in Nat /\ g.cmds \in Seq(Command) /\ Len(g.cmds) \in Nat
      /\ DOMAIN g.cmds = 1 .. Len(g.cmds) /\ DOMAIN labels = 1 .. g.labels
  BY <1>1, SoundState
<1> DEFINE m == Len(g.cmds)
           exit == Cmd("exit", 0)
<1>3. /\ DOMAIN p.cmds = 1 .. m + 1 /\ p.cmds[m + 1] = exit
      /\ \A i \in DOMAIN g.cmds : p.cmds[i] = g.cmds[i]
  <2>1. p.cmds = Append(g.cmds, exit)
    BY DEF Linked
  <2> QED BY <1>2, <2>1
<1>4. exit.kind = "exit"
  BY DEF Cmd
<1>5. DOMAIN p.labels = 1 .. g.labels /\ \A x \in DOMAIN p.labels : p.labels[x] = LabelAt(p.cmds, x)
  BY DEF Linked
<1> HIDE DEF exit
<1>6. ASSUME NEW x \in DOMAIN p.labels
      PROVE  {i \in DOMAIN p.cmds : p.cmds[i] = [kind |-> "label", x |-> x]} = {p.labels[x]}
  <2> DEFINE cmd == [kind |-> "label", x |-> x]
  <2>1. PICK k \in DOMAIN g.cmds : Labelled(g, x) = {k}
    BY <1>1, <1>2, <1>5
  <2>2. p.labels[x] = k /\ k \in DOMAIN p.cmds /\ IsLabel(p.cmds[k], x)
    BY <1>2, <1>5, <2>1, LabelFound
  <2>3. p.cmds[k] = cmd
    <3>1. p.cmds[k] \in Command
      BY <1>2, <1>3
    <3> QED BY <2>2, <3>1 DEF IsLabel, Command
  <2>4. ASSUME NEW i \in DOMAIN p.cmds, p.cmds[i] = cmd PROVE i = k
    <3>1. IsLabel(p.cmds[i], x) /\ p.cmds[i].kind = "label"
      BY <2>4 DEF IsLabel
    <3>2. i # m + 1
      BY <1>3, <1>4, <3>1
    <3>3. i \in DOMAIN g.cmds
      BY <1>2, <1>3, <3>2
    <3> QED BY <1>3, <2>1, <3>1, <3>3 DEF Labelled
  <2> HIDE DEF cmd
  <2>5. {i \in DOMAIN p.cmds : p.cmds[i] = cmd} = {p.labels[x]}
    BY <2>2, <2>3, <2>4
  <2> QED BY <2>5 DEF cmd
<1>7. ASSUME NEW i \in DOMAIN p.cmds, p.cmds[i].kind \in {"label", "jump_unless"}
      PROVE  p.cmds[i].x \in DOMAIN p.labels
  <2>1. i # m + 1
    BY <1>3, <1>4, <1>7
  <2>2. i \in DOMAIN g.cmds
    BY <1>2, <1>3, <2>1
  <2>3. p.cmds[i] = g.cmds[i]
    BY <1>3, <2>2
  <2>4. g.cmds[i].kind \in {"label", "jump_unless"} => g.cmds[i].x \in 1 .. g.labels
    BY <1>1, <2>2, SoundCmd
  <2> QED BY <1>5, <1>7, <2>3, <2>4
<1>8. ASSUME NEW f \in DOMAIN p.funs PROVE \E x \in DOMAIN p.labels : p.funs[f].cmd = p.labels[x]
  <2>1. f \in DOMAIN g.funs \/ f = Len(p.funs)
    <3> DEFINE entries == {[cmd |-> LabelAt(p.cmds, fun.label), len |-> g.scopes[fun.scope].len] :
                              fun \in ToSet(g.funs) \cup {[scope |-> 1, label |-> 1]}}
    <3>1. p.funs \in Seq(entries) /\ Len(p.funs) = Len(g.funs) + 1
      BY DEF Linked
    <3> HIDE DEF entries
    <3>2. DOMAIN g.funs = 1 .. Len(g.funs) /\ Len(g.funs) \in Nat
      BY <1>2 DEF Generators
    <3> QED BY <3>1, <3>2
  <2>2. CASE f \in DOMAIN g.funs
    <3> DEFINE x == g.funs[f].label
    <3>1. x \in 2 .. g.labels
      BY <1>1, <2>2 DEF Sound
    <3>2. p.funs[f].cmd = LabelAt(p.cmds, x)
      BY <2>2 DEF Linked
    <3> HIDE DEF x
    <3> QED BY <1>2, <1>5, <3>1, <3>2
  <2>3. CASE f = Len(p.funs)
    <3>1. p.funs[f].cmd = LabelAt(p.cmds, 1)
      BY <2>3 DEF Linked
    <3> QED BY <1>1, <1>2, <1>5, <3>1
  <2> QED BY <2>1, <2>2, <2>3
<1> QED BY <1>6, <1>7, <1>8

\* The program stays.
LEMMA SameProgram == ASSUME [Next]_vars PROVE program' = program
<1>1. ASSUME NEW c, Do(c) PROVE program' = program
  BY <1>1 DEF Do
<1>2. PushInt => program' = program
  BY <1>1 DEF PushInt
<1>3. PushStr => program' = program
  BY <1>1 DEF PushStr
<1>4. PushArray => program' = program
  BY <1>1 DEF PushArray
<1>5. PushClosure => program' = program
  BY <1>1 DEF PushClosure
<1>6. PushExtern => program' = program
  BY <1>1 DEF PushExtern
<1>7. PushEnv => program' = program
  BY <1>1 DEF PushEnv
<1>8. LocalVar => program' = program
  BY <1>1 DEF LocalVar
<1>9. CellGet => program' = program
  BY <1>1 DEF CellGet
<1>10. CellSet => program' = program
  BY <1>1 DEF CellSet
<1>11. Label => program' = program
  BY <1>1 DEF Label
<1>12. JumpUnless => program' = program
  BY <1>1 DEF JumpUnless
<1>13. Pop => program' = program
  BY <1>1 DEF Pop
<1>14. Swap => program' = program
  BY <1>1 DEF Swap
<1>15. Dup => program' = program
  BY <1>1 DEF Dup
<1>16. CallClosure => program' = program
  BY <1>1 DEF CallClosure
<1>17. ValType => program' = program
  BY <1>1 DEF ValType
<1>18. StrSlice => program' = program
  BY <1>1 DEF StrSlice
<1>19. ArrayLen => program' = program
  BY <1>1 DEF ArrayLen
<1>20. CallArrayPush => program' = program
  BY <1>1 DEF CallArrayPush
<1>21. ArrayPop => program' = program
  BY <1>1 DEF ArrayPop
<1>22. Assertion => program' = program
  BY <1>1 DEF Assertion
<1>23. StdinToStr => program' = program
  BY <1>1 DEF StdinToStr
<1>24. CallOther => program' = program
  BY <1>1 DEF CallOther
<1>25. TooManyArgs => program' = program
  BY <1>1 DEF TooManyArgs
<1>26. Return => program' = program
  BY <1>1 DEF Return
<1>27. OpEq => program' = program
  BY <1>1 DEF OpEq, Compare
<1>28. OpLt => program' = program
  BY <1>1 DEF OpLt, Compare
<1>29. OpIndex => program' = program
  BY <1>1 DEF OpIndex
<1>30. OpIndexRef => program' = program
  BY <1>1 DEF OpIndexRef
<1>31. OpArrayPush => program' = program
  BY <1>1 DEF OpArrayPush
<1>32. OpAdd => program' = program
  BY <1>1 DEF OpAdd
<1>33. OpArith => program' = program
  BY <1>1 DEF OpArith
<1>34. Err => program' = program
  BY <1>1 DEF Err
<1>35. Exit => program' = program
  BY <1>1 DEF Exit
<1>36. Operate \/ CallExtern => program' = program
  BY <1>27, <1>28, <1>29, <1>30, <1>31, <1>32, <1>33, <1>17, <1>18, <1>19, <1>20, <1>21, <1>22,
     <1>23 DEF Operate, CallExtern
<1> QED BY <1>2, <1>3, <1>4, <1>5, <1>6, <1>7, <1>8, <1>9, <1>10, <1>11, <1>12, <1>13, <1>14, <1>15,
           <1>16, <1>17, <1>18, <1>19, <1>20, <1>21, <1>22, <1>23, <1>24, <1>25, <1>26, <1>27,
           <1>28, <1>29, <1>30, <1>31, <1>32, <1>33, <1>34, <1>35, <1>36 DEF Next, vars

LEMMA ProgramStays == Spec => [](program \in Programs)
<1>1. Init => program \in Programs
  BY DEF Init
<1>2. program \in Programs /\ [Next]_vars => (program \in Programs)'
  BY SameProgram
<1> QED BY <1>1, <1>2, PTL DEF Spec

\* Every label is set by one command, and jumps and functions name labels: the
\* assertion of label_set and the check of gen_resolve_labels never fail, for every
\* tree the parser can make, whatever its depth.
THEOREM LabelsResolve ==
    ASSUME Externs = Builtins, \A p \in Programs : Translated(p, "free")
    PROVE  Spec => []LabelsOnce
<1>1. Externs \in Seq(STRING)
  BY ProgramsAssumption
<1>2. ASSUME program \in Programs PROVE LabelsOnce
  <2>1. PICK g, labels : Ended(Bal("free"), g, labels) /\ Linked(g, program)
    BY <1>1, <1>2, TranslatedEnds
  <2> QED BY <2>1, LinkedLabels DEF LabelsOnce
<1> QED BY <1>2, ProgramStays, PTL

\* What no generator can see to: the literals are integers of the machine, and no array,
\* call or function is larger than its memory.
Fitting(p) ==
    /\ \A i \in DOMAIN p.cmds :
           LET cmd == p.cmds[i]
           IN /\ cmd.kind = "push_int" => cmd.x \in IntRange
              /\ cmd.kind = "push_str" => DataGet(p.data, cmd.x) \in Seq(IntRange)
              /\ cmd.kind = "push_array" => cmd.x \in Sizes
              /\ cmd.kind = "call" /\ cmd.x < ArgLimit => cmd.x \in Sizes
    /\ \A f \in DOMAIN p.funs : p.funs[f].len \in Sizes

\* What the machine relies on of its programs holds of all that gen makes and that fit:
\* each operand names a label, function, built-in function or variable that there is,
\* and the last command is the exit.
THEOREM TranslatedOK ==
    ASSUME Externs = Builtins, NEW p, Translated(p, "free"), Fitting(p)
    PROVE  ProgramOK(p)
<1>1. PICK g, labels : Ended(Bal("free"), g, labels) /\ Linked(g, p)
  <2>1. Externs \in Seq(STRING)
    BY ProgramsAssumption
  <2> QED BY <2>1, TranslatedEnds
<1> DEFINE bal == Bal("free")
<1>2. /\ Sound(bal, g, labels, On(1, 1)) /\ g.cmds # << >>
      /\ \A x \in DOMAIN labels : \E i \in DOMAIN g.cmds : Labelled(g, x) = {i}
  BY <1>1 DEF Ended
<1> HIDE DEF bal
<1>3. /\ g \in Generators /\ g.labels \in Nat /\ g.cmds \in Seq(Command) /\ Len(g.cmds) \in Nat
      /\ DOMAIN g.cmds = 1 .. Len(g.cmds) /\ DOMAIN labels = 1 .. g.labels
  BY <1>2, SoundState
<1> DEFINE m == Len(g.cmds)
           exit == Cmd("exit", 0)
<1>4. /\ DOMAIN p.cmds = 1 .. m + 1 /\ Len(p.cmds) = m + 1 /\ m # 0 /\ p.cmds[m + 1] = exit
      /\ \A i \in DOMAIN g.cmds : p.cmds[i] = g.cmds[i]
  <2>1. p.cmds = Append(g.cmds, exit)
    BY <1>1 DEF Linked
  <2> QED BY <1>2, <1>3, <2>1
<1>5. exit.kind = "exit"
  BY DEF Cmd
<1> HIDE DEF exit
<1>6. \A x \in 1 .. g.labels : p.labels[x] \in DOMAIN p.cmds
  <2> SUFFICES ASSUME NEW x \in 1 .. g.labels PROVE p.labels[x] \in DOMAIN p.cmds
    OBVIOUS
  <2>1. PICK k \in DOMAIN g.cmds : Labelled(g, x) = {k}
    BY <1>2, <1>3
  <2>2. p.labels[x] = k /\ k \in DOMAIN p.cmds
    BY <1>1, <1>3, <2>1, LabelFound
  <2> QED BY <2>2
<1> DEFINE entries == {[cmd |-> LabelAt(p.cmds, fun.label), len |-> g.scopes[fun.scope].len] :
                          fun \in ToSet(g.funs) \cup {[scope |-> 1, label |-> 1]}}
<1>7. p.funs \in Seq(entries) /\ Len(p.funs) = Len(g.funs) + 1
  BY <1>1 DEF Linked
<1>8. ASSUME NEW fun \in entries PROVE fun = [cmd |-> fun.cmd, len |-> fun.len]
  OBVIOUS
<1> HIDE DEF entries
<1>9. /\ DOMAIN g.funs = 1 .. Len(g.funs) /\ Len(g.funs) \in Nat
      /\ DOMAIN p.funs = 1 .. Len(g.funs) + 1
  BY <1>3, <1>7 DEF Generators
<1>10. ASSUME NEW i \in DOMAIN p.cmds PROVE OperandOK(p, p.cmds[i])
  <2>1. CASE i = m + 1
    BY <1>4, <1>5, <2>1 DEF OperandOK
  <2>2. CASE i # m + 1
    <3> DEFINE cmd == p.cmds[i]
    <3>1. i \in DOMAIN g.cmds /\ cmd = g.cmds[i]
      BY <1>3, <1>4, <2>2
    <3>2. Known(g, g.cmds[i])
      BY <1>2, <3>1, SoundCmd
    <3>3. /\ cmd.kind = "push_int" => cmd.x \in IntRange
          /\ cmd.kind = "push_str" => DataGet(p.data, cmd.x) \in Seq(IntRange)
          /\ cmd.kind = "push_array" => cmd.x \in Sizes
          /\ cmd.kind = "call" /\ cmd.x < ArgLimit => cmd.x \in Sizes
      BY DEF Fitting
    <3>4. Known(g, cmd)
      BY <3>1, <3>2
    <3> HIDE DEF cmd
    <3>5. /\ cmd.kind = "jump_unless" => cmd.x \in 1 .. g.labels
          /\ cmd.kind = "push_closure" => cmd.x \in DOMAIN g.funs
          /\ cmd.kind \in {"push_env", "local_var", "call"} => cmd.x \in Nat
          /\ cmd.kind = "push_extern" => cmd.x \in DOMAIN Externs
      BY <3>4 DEF Known
    <3>6. cmd.kind = "jump_unless" => p.labels[cmd.x] \in DOMAIN p.cmds
      BY <1>6, <3>5
    <3>7. cmd.kind = "push_closure" => cmd.x \in DOMAIN p.funs
      BY <1>9, <3>5
    <3>8. OperandOK(p, cmd)
      BY <3>3, <3>5, <3>6, <3>7 DEF OperandOK
    <3> QED BY <3>8 DEF cmd
  <2> QED BY <2>1, <2>2
<1>11. ASSUME NEW f \in DOMAIN p.funs PROVE p.funs[f] \in [cmd : DOMAIN p.cmds, len : Sizes]
  <2>1. PICK x \in DOMAIN p.labels : p.funs[f].cmd = p.labels[x]
    BY <1>1, LinkedLabels
  <2>2. DOMAIN p.labels = 1 .. g.labels
    BY <1>1 DEF Linked
  <2>3. p.funs[f].cmd \in DOMAIN p.cmds
    BY <1>6, <2>1, <2>2
  <2>4. p.funs[f].len \in Sizes
    BY DEF Fitting
  <2>5. p.funs[f] \in entries
    BY <1>7
  <2> QED BY <1>8, <2>3, <2>4, <2>5
<1>12. p.funs # << >> /\ p.funs \in Seq([cmd : DOMAIN p.cmds, len : Sizes])
  <2> DEFINE F == [cmd : DOMAIN p.cmds, len : Sizes]
             k == Len(g.funs) + 1
  <2>1. k \in Nat /\ DOMAIN p.funs = 1 .. k /\ Len(p.funs) = k
    BY <1>7, <1>9
  <2>2. p.funs = [f \in 1 .. k |-> p.funs[f]]
    BY <1>7, <2>1
  <2>3. \A f \in 1 .. k : p.funs[f] \in F
    BY <1>11, <2>1
  <2>4. p.funs # << >>
    BY <1>9, <2>1
  <2> HIDE DEF F, k
  <2>5. p.funs \in [1 .. k -> F]
    BY <2>2, <2>3
  <2>6. p.funs \in Seq(F)
    BY <2>1, <2>5, SequenceOf
  <2> QED BY <2>4, <2>6 DEF F
<1>13. p.cmds[Len(p.cmds)].kind = "exit" /\ Len(p.cmds) \in Nat \ {0, 1} /\ DOMAIN p.cmds = 1 .. Len(p.cmds)
  BY <1>3, <1>4, <1>5
<1> QED BY <1>10, <1>12, <1>13 DEF ProgramOK

\* The commands of every program where no break leaves a function, nor a break or return
\* any operands, keep to the stack discipline, for programs of any size and depth.
THEOREM GeneratorBalances ==
    ASSUME Externs = Builtins,
           \A p \in Programs : p.source.regular => Translated(p, "main")
    PROVE  Spec => []GeneratorBalanced
<1>1. Externs \in Seq(STRING)
  BY ProgramsAssumption
<1>2. ASSUME program \in Programs PROVE GeneratorBalanced
  BY <1>1, <1>2, TranslatedBalanced DEF GeneratorBalanced
<1> QED BY <1>2, ProgramStays, PTL

\* What the machine owes to the generator: on such programs every command finds its
\* operands, a function returns with one value more than its caller left, and a
\* program that ends without an error leaves nothing on the stack.
THEOREM TranslatedRuns ==
    ASSUME Externs = Builtins, \A p \in Programs : Translated(p, "main")
    PROVE  Spec => []/\ StackSuffices
                     /\ ctx.end = "no" /\ ctx.errs = 0 /\ ctx.frames # << >> =>
                            /\ ctx.top >= Last(ctx.frames).base
                            /\ Current.kind = "return" => ctx.top = Last(ctx.frames).base + 1
                     /\ ctx.end = "exit" /\ ctx.errs = 0 => ctx.top = 0 /\ Len(ctx.frames) <= 1
<1>1. Externs \in Seq(STRING)
  BY ProgramsAssumption
<1>2. program \in Programs => Balanced(program)
  BY <1>1, TranslatedBalanced
<1>3. ReturnsOne /\ Balanced(program) =>
          (ctx.end = "no" /\ ctx.errs = 0 /\ ctx.frames # << >> =>
               /\ ctx.top >= Last(ctx.frames).base
               /\ Current.kind = "return" => ctx.top = Last(ctx.frames).base + 1)
  BY DEF ReturnsOne
<1>4. EndsClean /\ Balanced(program) =>
          (ctx.end = "exit" /\ ctx.errs = 0 => ctx.top = 0 /\ Len(ctx.frames) <= 1)
  BY DEF EndsClean
<1> QED BY <1>2, <1>3, <1>4, ProgramStays, OperandsSuffice, ReturnsOneHolds, EndsCleanHolds, PTL
=============================================================================
