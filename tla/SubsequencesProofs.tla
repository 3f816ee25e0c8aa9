--------------------------- MODULE SubsequencesProofs ---------------------------
(***************************************************************************)
(* Lemmas about parts of sequences, and about putting sequences together.   *)
(* What would be an induction is an argument about the smallest number for  *)
(* which it fails.                                                          *)
(***************************************************************************)
EXTENDS Subsequences, SequencesExt, FiniteSetTheorems, SequenceTheorems, WellFoundedInduction, TLAPS

(* A set of natural numbers has a smallest one. *)
LEMMA SmallestOf ==
  ASSUME NEW S, S \subseteq Nat, S # {}
  PROVE  \E x \in S : \A y \in S : x <= y
<1> DEFINE R == {ss \in Nat \X Nat : ss[1] < ss[2]}
<1>1. IsWellFoundedOn(R, Nat)
  BY NatLessThanWellFounded DEF OpToRel
<1>2. PICK x \in S : \A y \in S : ~(<<y, x>> \in R)
  <2> HIDE DEF R
  <2> QED BY <1>1, WFMin
<1>3. \A y \in S : ~(y < x)
  BY <1>2
<1>4. \A y \in S : x <= y
  BY <1>3
<1> QED BY <1>4

(* How many members of S are no larger than k. *)
Rank(S, k) == Cardinality({j \in S : j <= k})

(* The ranks of a finite set of numbers are 1, 2, ... up to its size, in the  *)
(* order of the numbers.                                                      *)
LEMMA RankProperties ==
  ASSUME NEW S, S \subseteq Nat, IsFiniteSet(S)
  PROVE  /\ Cardinality(S) \in Nat
         /\ \A k \in S : Rank(S, k) \in 1 .. Cardinality(S)
         /\ \A j, k \in S : j < k => Rank(S, j) < Rank(S, k)
         /\ \A n \in 1 .. Cardinality(S) : \E k \in S : Rank(S, k) = n
<1> DEFINE Upto(k) == {j \in S : j <= k}
           n == Cardinality(S)
<1>1. n \in Nat /\ n \in Int
  BY FS_CardinalityType
<1>2. \A k : Upto(k) \in SUBSET S
  OBVIOUS
<1>3. \A k : IsFiniteSet(Upto(k)) /\ Cardinality(Upto(k)) <= n /\ Cardinality(Upto(k)) \in Nat
  <2> TAKE k
  <2>1. IsFiniteSet(Upto(k)) /\ Cardinality(Upto(k)) <= n
    BY <1>2, FS_Subset
  <2> QED BY <2>1, FS_CardinalityType
<1>4. \A k \in S : Rank(S, k) \in 1 .. n
  <2> TAKE k \in S
  <2>1. k \in Upto(k)
    OBVIOUS
  <2>2. Cardinality(Upto(k)) # 0
    BY <1>3, <2>1, FS_EmptySet
  <2> QED BY <1>1, <1>3, <2>2 DEF Rank
<1>5. \A j, k \in S : j < k => Rank(S, j) < Rank(S, k)
  <2> SUFFICES ASSUME NEW j \in S, NEW k \in S, j < k PROVE Rank(S, j) < Rank(S, k)
    OBVIOUS
  <2>0. j \in Nat /\ k \in Nat
    OBVIOUS
  <2>1. Upto(j) \in SUBSET Upto(k)
    <3>1. \A i \in S : i <= j => i <= k
      BY <2>0
    <3> QED BY <3>1
  <2>2. k \in Upto(k) /\ k \notin Upto(j)
    OBVIOUS
  <2>3. Cardinality(Upto(j)) <= Cardinality(Upto(k)) /\ Cardinality(Upto(j)) # Cardinality(Upto(k))
    BY <1>3, <2>1, <2>2, FS_Subset
  <2>4. Cardinality(Upto(j)) \in Nat /\ Cardinality(Upto(k)) \in Nat
    BY <1>3
  <2> QED BY <2>3, <2>4 DEF Rank
<1>6. \A m \in 1 .. n : \E k \in S : Rank(S, k) = m
  <2> DEFINE f == [k \in S |-> Rank(S, k)]
  <2>1. f \in [S -> 1 .. n]
    BY <1>4
  <2>2. \A j, k \in S : f[j] = f[k] => j = k
    <3> SUFFICES ASSUME NEW j \in S, NEW k \in S, Rank(S, j) = Rank(S, k) PROVE j = k
      OBVIOUS
    <3>1. j \in Nat /\ k \in Nat /\ Rank(S, j) \in 1 .. n
      BY <1>4
    <3> QED BY <1>1, <1>5, <3>1
  <2>3. f \in Injection(S, 1 .. n)
    BY <2>1, <2>2 DEF Injection, IsInjective
  <2>4. IsFiniteSet(1 .. n) /\ Cardinality(1 .. n) = n
    BY <1>1, FS_Interval
  <2> HIDE DEF f
  <2>5. f \in Surjection(S, 1 .. n)
    BY <2>3, <2>4, FS_Injection
  <2>6. \A m \in 1 .. n : \E k \in S : f[k] = m
    BY <2>5 DEF Surjection
  <2> QED BY <2>6 DEF f
<1> QED BY <1>1, <1>4, <1>5, <1>6

(* InOrder lists each member of a finite set once, the smallest first. *)
LEMMA InOrderLists ==
  ASSUME NEW S, S \subseteq Nat, IsFiniteSet(S)
  PROVE  /\ InOrder(S) \in Seq(S) /\ Len(InOrder(S)) = Cardinality(S) /\ Cardinality(S) \in Nat
         /\ DOMAIN InOrder(S) = 1 .. Cardinality(S)
         /\ \A n \in 1 .. Cardinality(S) : InOrder(S)[n] \in S
         /\ \A k \in S : \E n \in 1 .. Cardinality(S) : InOrder(S)[n] = k
         /\ \A m, n \in 1 .. Cardinality(S) : m < n => InOrder(S)[m] < InOrder(S)[n]
<1> DEFINE c == Cardinality(S)
           s == InOrder(S)
<1>1. c \in Nat /\ DOMAIN s = 1 .. c
  BY RankProperties DEF InOrder
<1>2. \A n \in 1 .. c : s[n] \in S /\ Rank(S, s[n]) = n
  <2> TAKE n \in 1 .. c
  <2>1. \E k \in S : Rank(S, k) = n
    BY RankProperties
  <2>2. s[n] = CHOOSE k \in S : Rank(S, k) = n
    BY DEF InOrder, Rank
  <2> HIDE DEF s
  <2> QED BY <2>1, <2>2
<1>3. s \in [1 .. c -> S]
  <2>1. s = [n \in 1 .. c |-> s[n]]
    BY <1>1 DEF InOrder
  <2> HIDE DEF s
  <2> QED BY <1>2, <2>1
<1>4. s \in Seq(S) /\ Len(s) = c
  <2> HIDE DEF s, c
  <2>1. s \in Seq(S)
    BY <1>1, <1>3, SeqDef
  <2>2. Len(s) \in Nat /\ DOMAIN s = 1 .. Len(s)
    BY <2>1, LenProperties
  <2> QED BY <1>1, <2>1, <2>2
<1>5. \A j, k \in S : Rank(S, j) = Rank(S, k) => j = k
  <2> SUFFICES ASSUME NEW j \in S, NEW k \in S, Rank(S, j) = Rank(S, k) PROVE j = k
    OBVIOUS
  <2>1. j \in Nat /\ k \in Nat
    OBVIOUS
  <2>2. Rank(S, j) \in 1 .. c
    BY RankProperties
  <2>3. ~(j < k) /\ ~(k < j)
    <3> HIDE DEF c
    <3>1. (j < k => Rank(S, j) < Rank(S, k)) /\ (k < j => Rank(S, k) < Rank(S, j))
      BY RankProperties
    <3> QED BY <1>1, <2>2, <3>1
  <2> QED BY <2>1, <2>3
<1>6. \A k \in S : \E n \in 1 .. c : s[n] = k
  <2> TAKE k \in S
  <2>1. Rank(S, k) \in 1 .. c
    BY RankProperties
  <2> HIDE DEF s, c
  <2> WITNESS Rank(S, k) \in 1 .. c
  <2> QED BY <1>2, <1>5, <2>1
<1>7. \A m, n \in 1 .. c : m < n => s[m] < s[n]
  <2> SUFFICES ASSUME NEW m \in 1 .. c, NEW n \in 1 .. c, m < n PROVE s[m] < s[n]
    OBVIOUS
  <2> HIDE DEF s, c
  <2>1. s[m] \in S /\ s[n] \in S /\ Rank(S, s[m]) = m /\ Rank(S, s[n]) = n
    BY <1>2
  <2>2. ~(s[n] < s[m]) /\ s[n] # s[m]
    <3>1. s[n] < s[m] => n < m
      BY <2>1, RankProperties
    <3> QED BY <1>1, <2>1, <3>1
  <2>3. s[m] \in Nat /\ s[n] \in Nat
    BY <2>1
  <2> QED BY <2>2, <2>3
<1> QED BY <1>1, <1>2, <1>4, <1>6, <1>7

(* Induction, for a set of numbers. *)
LEMMA InductionOf ==
  ASSUME NEW S, 0 \in S, \A n \in Nat : n \in S => n + 1 \in S
  PROVE  Nat \subseteq S
<1> SUFFICES ASSUME Nat \ S # {} PROVE FALSE
  OBVIOUS
<1>1. PICK x \in Nat \ S : \A y \in Nat \ S : x <= y
  <2>1. Nat \ S \subseteq Nat
    OBVIOUS
  <2> QED BY <2>1, SmallestOf
<1>2. x # 0 /\ x - 1 \in Nat
  BY <1>1
<1>3. x - 1 \in S
  <2>1. ~(x <= x - 1)
    BY <1>1
  <2> QED BY <1>1, <1>2, <2>1
<1>4. x - 1 + 1 \in S
  BY <1>2, <1>3
<1> QED BY <1>1, <1>4

-----------------------------------------------------------------------------
(* The entries of the sequences in ss stand in FlattenSeq(ss) one sequence    *)
(* after the other: those of the i-th behind the first off[i - 1].            *)
LEMMA FlattenSteps ==
  ASSUME NEW T, NEW ss \in Seq(Seq(T)), ss # <<>>
  PROVE  \E g \in [0 .. Len(ss) -> Seq(T)] :
           /\ g[0] = <<>> /\ FlattenSeq(ss) = g[Len(ss)]
           /\ \A i \in 1 .. Len(ss) : g[i] = g[i - 1] \o ss[i]
<1> DEFINE L == Len(ss)
           Step(f, n) == /\ f \in [0 .. n -> Seq(T)] /\ f[0] = <<>>
                         /\ \A i \in 1 .. n : f[i] = f[i - 1] \o ss[i]
           Eq(h) == h = [i \in 1 .. L |-> IF i = 1 THEN ss[i] ELSE h[i - 1] \o ss[i]]
           Done == {n \in Nat : n <= L => \E f : Step(f, n)}
           h == CHOOSE f : Eq(f)
<1>1. L \in Nat \ {0} /\ \A i \in 1 .. L : ss[i] \in Seq(T)
  <2>1. L \in Nat \ {0}
    BY EmptySeq
  <2> QED BY <2>1, ElementOfSeq
<1>2. FlattenSeq(ss) = h[L]
  BY <1>1 DEF FlattenSeq
<1>3. \E f : Step(f, L)
  <2>1. 0 \in Done
    <3>1. [i \in 0 .. 0 |-> <<>>] \in [0 .. 0 -> Seq(T)]
      BY EmptySeq
    <3>2. Step([i \in 0 .. 0 |-> <<>>], 0)
      BY <3>1
    <3> HIDE DEF Step
    <3> QED BY <3>2
  <2>2. ASSUME NEW n \in Nat, n \in Done PROVE n + 1 \in Done
    <3> SUFFICES ASSUME n + 1 <= L PROVE \E f : Step(f, n + 1)
      <4> HIDE DEF Step, L
      <4> QED OBVIOUS
    <3>1. PICK f : Step(f, n)
      <4>1. n <= L
        BY <1>1
      <4> HIDE DEF Step
      <4> QED BY <2>2, <4>1
    <3> DEFINE e == [i \in 0 .. n + 1 |-> IF i = n + 1 THEN f[n] \o ss[n + 1] ELSE f[i]]
    <3>2. f[n] \o ss[n + 1] \in Seq(T)
      <4>1. n + 1 \in 1 .. L /\ n \in 0 .. n
        BY <1>1
      <4>2. f[n] \in Seq(T) /\ ss[n + 1] \in Seq(T)
        BY <1>1, <3>1, <4>1
      <4> QED BY <4>2, ConcatProperties
    <3>3. e \in [0 .. n + 1 -> Seq(T)]
      <4>1. \A i \in 0 .. n + 1 : i # n + 1 => i \in 0 .. n
        OBVIOUS
      <4> QED BY <3>1, <3>2, <4>1
    <3>4. e[0] = <<>>
      BY <3>1
    <3>5. ASSUME NEW i \in 1 .. n + 1 PROVE e[i] = e[i - 1] \o ss[i]
      <4>1. CASE i = n + 1
        <5>1. i - 1 = n /\ n \in 0 .. n + 1 /\ n # n + 1 /\ n + 1 \in 0 .. n + 1
          BY <4>1
        <5>2. e[n] = f[n] /\ e[n + 1] = f[n] \o ss[n + 1]
          BY <5>1
        <5> HIDE DEF e
        <5> QED BY <4>1, <5>1, <5>2
      <4>2. CASE i # n + 1
        <5>1. i \in 1 .. n /\ i - 1 \in 0 .. n /\ i - 1 # n + 1
          BY <4>2
        <5>2. e[i] = f[i] /\ e[i - 1] = f[i - 1]
          BY <4>2, <5>1
        <5> QED BY <3>1, <5>1, <5>2
      <4> QED BY <4>1, <4>2
    <3>6. Step(e, n + 1)
      BY <3>3, <3>4, <3>5
    <3> HIDE DEF Step, e
    <3> QED BY <3>6
  <2> HIDE DEF Done
  <2>3. Nat \subseteq Done
    BY <2>1, <2>2, InductionOf
  <2>4. L \in Done /\ L <= L
    BY <1>1, <2>3
  <2> HIDE DEF Step, L
  <2> QED BY <2>4 DEF Done
<1>4. PICK f : Step(f, L)
  <2> HIDE DEF Step
  <2> QED BY <1>3
<1> DEFINE r == [i \in 1 .. L |-> f[i]]
<1>5. Eq(r)
  <2>1. ASSUME NEW i \in 1 .. L PROVE f[i] = IF i = 1 THEN ss[i] ELSE r[i - 1] \o ss[i]
    <3>1. CASE i = 1
      <4>1. f[1] = <<>> \o ss[1]
        <5>1. f[i] = f[i - 1] \o ss[i] /\ f[0] = <<>>
          BY <1>4
        <5>2. i - 1 = 0
          BY <3>1
        <5> QED BY <3>1, <5>1, <5>2
      <4> QED BY <1>1, <3>1, <4>1, ConcatEmptySeq
    <3>2. CASE i # 1
      <4>1. i - 1 \in 1 .. L
        BY <1>1, <3>2
      <4> QED BY <1>4, <3>2, <4>1
    <3> QED BY <3>1, <3>2
  <2> HIDE DEF Step
  <2> QED BY <2>1
<1>6. Eq(h)
  <2> HIDE DEF Eq, r
  <2> QED BY <1>5
<1> DEFINE g == [i \in 0 .. L |-> IF i = 0 THEN <<>> ELSE h[i]]
<1>7. ASSUME NEW i \in 1 .. L PROVE g[i] = g[i - 1] \o ss[i]
  <2> HIDE DEF h, Step
  <2>1. h[i] = IF i = 1 THEN ss[i] ELSE h[i - 1] \o ss[i]
    BY <1>6
  <2>2. g[i] = h[i] /\ (i # 1 => g[i - 1] = h[i - 1]) /\ (i = 1 => g[i - 1] = <<>>)
    BY <1>1
  <2>3. i = 1 => g[i - 1] \o ss[i] = ss[i]
    BY <1>1, <2>2, ConcatEmptySeq
  <2> QED BY <2>1, <2>2, <2>3
<1>8. \A i \in 0 .. L : g[i] = f[i]
  <2> DEFINE Same == {i \in Nat : i <= L => g[i] = f[i]}
  <2> HIDE DEF h
  <2>1. 0 \in Same
    BY <1>1, <1>4
  <2>2. ASSUME NEW n \in Nat, n \in Same PROVE n + 1 \in Same
    <3> SUFFICES ASSUME n + 1 <= L PROVE g[n + 1] = f[n + 1]
      OBVIOUS
    <3>1. n + 1 \in 1 .. L /\ n + 1 - 1 = n /\ n <= L
      BY <1>1
    <3>2. g[n] = f[n]
      BY <2>2, <3>1
    <3>3. g[n + 1] = g[n] \o ss[n + 1] /\ f[n + 1] = f[n] \o ss[n + 1]
      <4> HIDE DEF g
      <4>1. PICK m \in 1 .. L : m = n + 1 /\ m - 1 = n
        BY <3>1
      <4>2. g[m] = g[m - 1] \o ss[m]
        BY <1>7
      <4>3. f[m] = f[m - 1] \o ss[m]
        BY <1>4
      <4> QED BY <4>1, <4>2, <4>3
    <3> QED BY <3>2, <3>3
  <2> HIDE DEF Same
  <2>3. Nat \subseteq Same
    BY <2>1, <2>2, InductionOf
  <2> HIDE DEF g
  <2> QED BY <1>1, <2>3 DEF Same
<1>9. g \in [0 .. L -> Seq(T)]
  <2>1. \A i \in 0 .. L : g[i] \in Seq(T)
    <3> HIDE DEF g
    <3> QED BY <1>4, <1>8
  <2> HIDE DEF h, Step
  <2> QED BY <2>1
<1>10. g[0] = <<>> /\ FlattenSeq(ss) = g[L]
  <2> HIDE DEF h
  <2> QED BY <1>1, <1>2
<1> HIDE DEF g
<1> QED BY <1>7, <1>9, <1>10

Places(ss, s, off) ==
  /\ off \in [0 .. Len(ss) -> Nat] /\ off[0] = 0 /\ off[Len(ss)] = Len(s)
  /\ \A i \in 1 .. Len(ss) : off[i] = off[i - 1] + Len(ss[i])
  /\ \A i \in 1 .. Len(ss) : \A j \in 1 .. Len(ss[i]) :
       off[i - 1] + j \in 1 .. Len(s) /\ s[off[i - 1] + j] = ss[i][j]
  /\ \A k \in 1 .. Len(s) : \E i \in 1 .. Len(ss) : \E j \in 1 .. Len(ss[i]) : k = off[i - 1] + j

(* Putting sequences together leaves each entry at the place that the        *)
(* lengths before it give.                                                   *)
LEMMA FlattenPlaces ==
  ASSUME NEW T, NEW ss \in Seq(Seq(T)), ss # <<>>
  PROVE  FlattenSeq(ss) \in Seq(T) /\ \E off : Places(ss, FlattenSeq(ss), off)
<1> DEFINE L == Len(ss)
<1>1. L \in Nat \ {0} /\ \A i \in 1 .. L : ss[i] \in Seq(T) /\ Len(ss[i]) \in Nat
  <2>1. L \in Nat \ {0}
    BY EmptySeq
  <2>2. \A i \in 1 .. L : ss[i] \in Seq(T)
    BY <2>1, ElementOfSeq
  <2> QED BY <2>1, <2>2, LenProperties
<1>2. PICK g \in [0 .. L -> Seq(T)] :
        /\ g[0] = <<>> /\ FlattenSeq(ss) = g[L]
        /\ \A i \in 1 .. L : g[i] = g[i - 1] \o ss[i]
  BY FlattenSteps
<1> HIDE DEF L
<1>3. \A i \in 0 .. L : g[i] \in Seq(T) /\ Len(g[i]) \in Nat
  <2>1. \A i \in 0 .. L : g[i] \in Seq(T)
    BY <1>2
  <2> QED BY <2>1, LenProperties
<1> DEFINE off == [i \in 0 .. L |-> Len(g[i])]
<1>4. off \in [0 .. L -> Nat] /\ \A i \in 0 .. L : off[i] = Len(g[i])
  BY <1>3
<1> HIDE DEF off
<1>5. off[0] = 0 /\ off[L] = Len(FlattenSeq(ss)) /\ FlattenSeq(ss) \in Seq(T)
  <2>1. 0 \in 0 .. L /\ L \in 0 .. L /\ Len(<<>>) = 0
    BY <1>1, EmptySeq
  <2> QED BY <1>2, <1>3, <1>4, <2>1
<1>6. ASSUME NEW i \in 1 .. L
      PROVE  /\ off[i] = off[i - 1] + Len(ss[i]) /\ off[i - 1] \in Nat
             /\ \A k \in 1 .. off[i] :
                  g[i][k] = IF k <= off[i - 1] THEN g[i - 1][k] ELSE ss[i][k - off[i - 1]]
  <2>1. i \in 0 .. L /\ i - 1 \in 0 .. L
    BY <1>1
  <2>2. g[i - 1] \in Seq(T) /\ ss[i] \in Seq(T) /\ g[i] = g[i - 1] \o ss[i]
    BY <1>1, <1>2, <2>1
  <2>3. off[i] = Len(g[i]) /\ off[i - 1] = Len(g[i - 1]) /\ off[i - 1] \in Nat
    BY <1>4, <2>1
  <2>4. /\ Len(g[i]) = Len(g[i - 1]) + Len(ss[i])
        /\ \A k \in 1 .. Len(g[i - 1]) + Len(ss[i]) :
             g[i][k] = IF k <= Len(g[i - 1]) THEN g[i - 1][k] ELSE ss[i][k - Len(g[i - 1])]
    <3> DEFINE a == g[i - 1]
               b == ss[i]
    <3>1. a \in Seq(T) /\ b \in Seq(T) /\ g[i] = a \o b
      BY <2>2
    <3> HIDE DEF a, b
    <3>2. Len(a \o b) = Len(a) + Len(b)
          /\ \A k \in 1 .. Len(a) + Len(b) :
               (a \o b)[k] = IF k <= Len(a) THEN a[k] ELSE b[k - Len(a)]
      BY <3>1, ConcatProperties
    <3>3. Len(g[i]) = Len(a) + Len(b)
          /\ \A k \in 1 .. Len(a) + Len(b) :
               g[i][k] = IF k <= Len(a) THEN a[k] ELSE b[k - Len(a)]
      BY <3>1, <3>2
    <3> QED BY <3>3 DEF a, b
  <2> QED BY <2>3, <2>4
<1> DEFINE Placed(n) ==
             /\ \A i \in 1 .. n : \A j \in 1 .. Len(ss[i]) :
                  off[i - 1] + j \in 1 .. off[n] /\ g[n][off[i - 1] + j] = ss[i][j]
             /\ \A k \in 1 .. off[n] : \E i \in 1 .. n : \E j \in 1 .. Len(ss[i]) : k = off[i - 1] + j
           Done == {n \in Nat : n <= L => Placed(n)}
<1>7. 0 \in Done
  <2>1. 1 .. 0 = {} /\ 1 .. off[0] = {}
    BY <1>5
  <2> QED BY <2>1
<1>8. ASSUME NEW n \in Nat, n \in Done PROVE n + 1 \in Done
  <2> SUFFICES ASSUME n + 1 <= L PROVE Placed(n + 1)
    <3> HIDE DEF Placed
    <3> QED OBVIOUS
  <2>1. PICK m \in 1 .. L : m = n + 1 /\ m - 1 = n
    BY <1>1
  <2>2. /\ off[m] = off[n] + Len(ss[m]) /\ off[n] \in Nat /\ Len(ss[m]) \in Nat
        /\ \A k \in 1 .. off[m] : g[m][k] = IF k <= off[n] THEN g[n][k] ELSE ss[m][k - off[n]]
    BY <1>1, <1>6, <2>1
  <2>3. Placed(n)
    <3>1. n <= L
      BY <1>1
    <3> HIDE DEF Placed
    <3> QED BY <1>8, <3>1
  <2>4. ASSUME NEW i \in 1 .. m, NEW j \in 1 .. Len(ss[i])
        PROVE  off[i - 1] + j \in 1 .. off[m] /\ g[m][off[i - 1] + j] = ss[i][j]
    <3>1. CASE i = m
      <4>1. i - 1 = n /\ j \in 1 .. Len(ss[m])
        BY <2>1, <3>1
      <4>2. off[n] + j \in 1 .. off[m] /\ ~(off[n] + j <= off[n]) /\ off[n] + j - off[n] = j
        <5>1. \A x, y \in Nat : \A l \in 1 .. y :
                x + l \in 1 .. x + y /\ ~(x + l <= x) /\ x + l - x = l
          OBVIOUS
        <5> QED BY <2>2, <4>1, <5>1
      <4>3. g[m][off[n] + j] = ss[m][j]
        <5>1. PICK k \in 1 .. off[m] : k = off[n] + j
          BY <4>2
        <5>2. g[m][k] = IF k <= off[n] THEN g[n][k] ELSE ss[m][k - off[n]]
          BY <2>2
        <5>0. off[n] \in Nat /\ j \in Nat
          BY <2>2, <4>1
        <5>3. ~(k <= off[n]) /\ k - off[n] = j
          BY <4>2, <5>0, <5>1
        <5>4. g[m][k] = ss[m][j]
          BY <5>2, <5>3
        <5> QED BY <5>1, <5>4
      <4> QED BY <3>1, <4>1, <4>2, <4>3
    <3>2. CASE i # m
      <4>1. i \in 1 .. n
        BY <2>1, <3>2
      <4>2. off[i - 1] + j \in 1 .. off[n] /\ g[n][off[i - 1] + j] = ss[i][j]
        BY <2>3, <4>1
      <4>3. off[i - 1] + j \in 1 .. off[m] /\ off[i - 1] + j <= off[n]
        <5>1. \A x, y \in Nat : \A l \in 1 .. x : l \in 1 .. x + y /\ l <= x
          OBVIOUS
        <5>2. PICK k \in 1 .. off[n] : k = off[i - 1] + j
          BY <4>2
        <5>3. k \in 1 .. off[m] /\ k <= off[n]
          BY <2>2, <5>1
        <5> QED BY <5>2, <5>3
      <4> QED BY <2>2, <4>2, <4>3
    <3> QED BY <3>1, <3>2
  <2>5. ASSUME NEW k \in 1 .. off[m]
        PROVE  \E i \in 1 .. m : \E j \in 1 .. Len(ss[i]) : k = off[i - 1] + j
    <3>1. CASE k <= off[n]
      <4>1. k \in 1 .. off[n]
        BY <2>2, <3>1
      <4>2. PICK i \in 1 .. n : \E j \in 1 .. Len(ss[i]) : k = off[i - 1] + j
        BY <2>3, <4>1
      <4>3. i \in 1 .. m
        BY <2>1
      <4> QED BY <4>2, <4>3
    <3>2. CASE ~(k <= off[n])
      <4>1. k - off[n] \in 1 .. Len(ss[m]) /\ k = off[n] + (k - off[n])
        <5>1. \A x, y \in Nat : \A z \in 1 .. x + y :
                ~(z <= x) => z - x \in 1 .. y /\ z = x + (z - x) /\ z = x + z - x
          OBVIOUS
        <5> QED BY <2>2, <3>2, <5>1
      <4>2. m \in 1 .. m /\ off[m - 1] = off[n]
        BY <2>1
      <4> QED BY <4>1, <4>2
    <3> QED BY <3>1, <3>2
  <2>6. Placed(m)
    BY <2>4, <2>5
  <2> HIDE DEF Placed
  <2> QED BY <2>1, <2>6
<1>9. Placed(L)
  <2> HIDE DEF Placed, Done
  <2>1. Nat \subseteq Done
    BY <1>7, <1>8, InductionOf
  <2> QED BY <1>1, <2>1 DEF Done
<1>10. \A i \in 1 .. L : off[i] = off[i - 1] + Len(ss[i])
  BY <1>6
<1>11. FlattenSeq(ss) = g[L] /\ off[L] = Len(FlattenSeq(ss))
  BY <1>2, <1>5
<1>12. Places(ss, FlattenSeq(ss), off)
  BY <1>4, <1>5, <1>9, <1>10, <1>11 DEF L, Places
<1> QED BY <1>5, <1>12

(* The members of a sequence are its entries. *)
LEMMA ToSetOf ==
  ASSUME NEW T, NEW s \in Seq(T)
  PROVE  /\ ToSet(s) = {s[i] : i \in 1 .. Len(s)} /\ ToSet(s) \subseteq T
         /\ Len(s) \in Nat /\ (s = <<>> <=> Len(s) = 0) /\ (s # <<>> => s[1] \in ToSet(s))
<1>1. DOMAIN s = 1 .. Len(s) /\ Len(s) \in Nat
  BY LenProperties
<1>2. s = <<>> <=> Len(s) = 0
  BY EmptySeq
<1>3. \A i \in 1 .. Len(s) : s[i] \in T
  BY ElementOfSeq
<1> QED BY <1>1, <1>2, <1>3 DEF ToSet

(* The members of two sequences put together.                                *)
LEMMA ConcatMembers ==
  ASSUME NEW T, NEW s \in Seq(T), NEW t \in Seq(T)
  PROVE  s \o t \in Seq(T) /\ ToSet(s \o t) = ToSet(s) \cup ToSet(t)
<1>1. s \o t \in Seq(T)
  BY ConcatProperties
<1>2. Range(s \o t) = Range(s) \cup Range(t)
  BY RangeConcatenation
<1>3. \A u : ToSet(u) = Range(u)
  BY DEF ToSet, Range
<1> QED BY <1>1, <1>2, <1>3

(* The members of a stretch of a sequence.                                   *)
LEMMA SubSeqMembers ==
  ASSUME NEW T, NEW s \in Seq(T), NEW a \in 1 .. Len(s) + 1, NEW b \in 0 .. Len(s)
  PROVE  SubSeq(s, a, b) \in Seq(T) /\ ToSet(SubSeq(s, a, b)) = {s[k] : k \in a .. b}
<1> DEFINE p == SubSeq(s, a, b)
<1>1. Len(s) \in Nat /\ a \in Int /\ b \in Int
  BY LenProperties
<1>2. \A k \in a .. b : k \in 1 .. Len(s)
  BY <1>1
<1>3. \A k \in a .. b : s[k] \in T
  BY <1>2, ElementOfSeq
<1>4. /\ p \in Seq(T) /\ Len(p) = IF a <= b THEN b - a + 1 ELSE 0
      /\ \A i \in 1 .. b - a + 1 : p[i] = s[a + i - 1]
  BY <1>1, <1>3, SubSeqProperties
<1> HIDE DEF p
<1>5. ToSet(p) = {p[i] : i \in 1 .. Len(p)}
  BY <1>4, ToSetOf
<1>6. ASSUME NEW i \in 1 .. Len(p) PROVE a + i - 1 \in a .. b /\ p[i] = s[a + i - 1]
  BY <1>1, <1>4
<1>7. ASSUME NEW k \in a .. b PROVE k - a + 1 \in 1 .. Len(p) /\ p[k - a + 1] = s[k]
  <2>1. k - a + 1 \in 1 .. Len(p) /\ k - a + 1 \in 1 .. b - a + 1
    BY <1>1, <1>4
  <2>2. PICK i \in 1 .. b - a + 1 : i = k - a + 1
    BY <2>1
  <2>3. p[i] = s[a + i - 1] /\ a + i - 1 = k
    BY <1>1, <1>4, <2>2
  <2> QED BY <2>1, <2>2, <2>3
<1>8. ToSet(p) \subseteq {s[k] : k \in a .. b}
  BY <1>5, <1>6
<1>9. {s[k] : k \in a .. b} \subseteq ToSet(p)
  BY <1>5, <1>7
<1> QED BY <1>4, <1>8, <1>9 DEF p

(* Its members are the members of the sequences in ss. *)
LEMMA FlattenMembers ==
  ASSUME NEW T, NEW ss \in Seq(Seq(T))
  PROVE  /\ FlattenSeq(ss) \in Seq(T)
         /\ ToSet(FlattenSeq(ss)) = UNION {ToSet(ss[i]) : i \in 1 .. Len(ss)}
<1> DEFINE F == FlattenSeq(ss)
           U == UNION {ToSet(ss[i]) : i \in 1 .. Len(ss)}
<1>0. \A i \in 1 .. Len(ss) : ss[i] \in Seq(T) /\ ToSet(ss[i]) = {ss[i][j] : j \in 1 .. Len(ss[i])}
  <2>1. \A i \in 1 .. Len(ss) : ss[i] \in Seq(T)
    BY ElementOfSeq
  <2> QED BY <2>1, ToSetOf
<1>1. CASE ss = <<>>
  <2>1. F = <<>> /\ Len(ss) = 0
    BY <1>1, EmptySeq DEF FlattenSeq
  <2>2. <<>> \in Seq(T) /\ 1 .. 0 = {}
    BY EmptySeq
  <2>3. Len(F) = 0
    BY <1>1, <2>1
  <2>4. ToSet(F) = {}
    <3>1. ToSet(<<>>) = {}
      BY DEF ToSet
    <3> HIDE DEF F
    <3> QED BY <2>1, <3>1
  <2>5. U = {}
    BY <2>1, <2>2
  <2> QED BY <2>1, <2>2, <2>4, <2>5
<1>2. CASE ss # <<>>
  <2>1. F \in Seq(T) /\ \E off : Places(ss, F, off)
    BY <1>2, FlattenPlaces
  <2> HIDE DEF F
  <2>2. PICK off : Places(ss, F, off)
    BY <2>1
  <2>3. ToSet(F) = {F[k] : k \in 1 .. Len(F)}
    BY <2>1, ToSetOf
  <2>4. ASSUME NEW i \in 1 .. Len(ss), NEW j \in 1 .. Len(ss[i]) PROVE ss[i][j] \in ToSet(F)
    <3>1. PICK k \in 1 .. Len(F) : k = off[i - 1] + j /\ F[k] = ss[i][j]
      BY <2>2 DEF Places
    <3> QED BY <2>3, <3>1
  <2>5. ASSUME NEW k \in 1 .. Len(F) PROVE F[k] \in U
    <3>1. PICK i \in 1 .. Len(ss) : \E j \in 1 .. Len(ss[i]) : k = off[i - 1] + j
      BY <2>2 DEF Places
    <3>2. PICK j \in 1 .. Len(ss[i]) : k = off[i - 1] + j
      BY <3>1
    <3>3. F[off[i - 1] + j] = ss[i][j]
      BY <2>2 DEF Places
    <3> QED BY <1>0, <3>2, <3>3
  <2>6. U \subseteq ToSet(F)
    <3>1. \A i \in 1 .. Len(ss) : ToSet(ss[i]) \subseteq ToSet(F)
      <4> TAKE i \in 1 .. Len(ss)
      <4>1. ToSet(ss[i]) = {ss[i][j] : j \in 1 .. Len(ss[i])}
        BY <1>0
      <4>2. \A j \in 1 .. Len(ss[i]) : ss[i][j] \in ToSet(F)
        BY <2>4
      <4> QED BY <4>1, <4>2
    <3> QED BY <3>1
  <2>7. ToSet(F) \subseteq U
    BY <2>3, <2>5
  <2> QED BY <2>1, <2>6, <2>7 DEF F
<1> QED BY <1>1, <1>2

(* Sequences of one entry each make the sequence of these entries. *)
LEMMA FlattenSingletons ==
  ASSUME NEW T, NEW s \in Seq(T), NEW ss \in Seq(Seq(T)), Len(ss) = Len(s),
         \A i \in 1 .. Len(s) : ss[i] = <<s[i]>>
  PROVE  FlattenSeq(ss) = s
<1>0. Len(s) \in Nat
  BY LenProperties
<1>1. CASE Len(s) = 0
  <2>1. ss = <<>> /\ s = <<>>
    BY <1>1, EmptySeq
  <2> QED BY <1>1, <2>1 DEF FlattenSeq
<1>2. CASE Len(s) # 0
  <2>0. ss # <<>>
    BY <1>2, EmptySeq
  <2>2. FlattenSeq(ss) \in Seq(T) /\ \E off : Places(ss, FlattenSeq(ss), off)
    BY <2>0, FlattenPlaces
  <2>1. PICK off : Places(ss, FlattenSeq(ss), off)
    BY <2>2
  <2>3. ASSUME NEW i \in 1 .. Len(s) PROVE Len(ss[i]) = 1 /\ ss[i][1] = s[i]
    <3>1. ss[i] = <<s[i]>>
      OBVIOUS
    <3> QED BY <3>1
  <2> DEFINE Same == {i \in Nat : i <= Len(s) => off[i] = i}
  <2>4. 0 \in Same
    BY <2>1 DEF Places
  <2>5. ASSUME NEW n \in Nat, n \in Same PROVE n + 1 \in Same
    <3> SUFFICES ASSUME n + 1 <= Len(s) PROVE off[n + 1] = n + 1
      OBVIOUS
    <3>1. PICK m \in 1 .. Len(s) : m = n + 1 /\ m - 1 = n
      BY <1>0
    <3>2. off[m] = off[m - 1] + 1
      BY <2>1, <2>3 DEF Places
    <3>3. off[n] = n
      BY <1>0, <2>5
    <3> QED BY <3>1, <3>2, <3>3
  <2>6. \A i \in 0 .. Len(s) : off[i] = i
    <3> HIDE DEF Same
    <3>1. Nat \subseteq Same
      BY <2>4, <2>5, InductionOf
    <3> QED BY <1>0, <3>1 DEF Same
  <2>7. Len(FlattenSeq(ss)) = Len(s)
    <3>1. Len(s) \in 0 .. Len(s) /\ off[Len(ss)] = Len(FlattenSeq(ss))
      BY <1>0, <2>1 DEF Places
    <3> QED BY <2>6, <3>1
  <2>8. ASSUME NEW i \in 1 .. Len(s) PROVE FlattenSeq(ss)[i] = s[i]
    <3>1. i - 1 \in 0 .. Len(s)
      BY <1>0
    <3>2. off[i - 1] = i - 1
      BY <2>6, <3>1
    <3>3. 1 \in 1 .. Len(ss[i])
      BY <2>3
    <3>4. FlattenSeq(ss)[off[i - 1] + 1] = ss[i][1]
      BY <2>1, <3>3 DEF Places
    <3>5. off[i - 1] + 1 = i
      BY <3>2
    <3> QED BY <2>3, <3>4, <3>5
  <2> QED BY <2>2, <2>7, <2>8, SeqEqual
<1> QED BY <1>0, <1>1, <1>2

-----------------------------------------------------------------------------
(* What is chosen are entries of the sequence, one for each position.          *)
Picks(items, S) ==
  /\ Len(Chosen(items, S)) = Cardinality(S) /\ Cardinality(S) \in Nat
  /\ \A n \in 1 .. Cardinality(S) :
       InOrder(S)[n] \in S /\ Chosen(items, S)[n] = items[InOrder(S)[n]]
  /\ \A k \in S : \E n \in 1 .. Cardinality(S) : InOrder(S)[n] = k
  /\ \A m, n \in 1 .. Cardinality(S) : m < n => InOrder(S)[m] < InOrder(S)[n]

(* What Chosen lists are the entries at the chosen positions, in their       *)
(* order.                                                                    *)
LEMMA ChosenEntries ==
  ASSUME NEW T, NEW items \in Seq(T), NEW S, S \subseteq 1 .. Len(items)
  PROVE  Chosen(items, S) \in Seq(T) /\ Picks(items, S)
<1> DEFINE c == Cardinality(S)
           at == InOrder(S)
           s == Chosen(items, S)
<1>1. Len(items) \in Nat /\ S \subseteq Nat /\ IsFiniteSet(S)
  <2>1. Len(items) \in Nat
    BY LenProperties
  <2>2. IsFiniteSet(1 .. Len(items))
    BY <2>1, FS_Interval
  <2>3. IsFiniteSet(S)
    BY <2>2, FS_Subset
  <2> QED BY <2>1, <2>3
<1>2. /\ c \in Nat /\ \A n \in 1 .. c : at[n] \in S
      /\ \A k \in S : \E n \in 1 .. c : at[n] = k
      /\ \A m, n \in 1 .. c : m < n => at[m] < at[n]
  BY <1>1, InOrderLists
<1>3. s = [n \in 1 .. c |-> items[at[n]]]
  BY DEF Chosen
<1> HIDE DEF c, at, s
<1>4. \A n \in 1 .. c : items[at[n]] \in T
  BY <1>2, ElementOfSeq
<1>5. s \in [1 .. c -> T] /\ \A n \in 1 .. c : s[n] = items[at[n]]
  BY <1>3, <1>4
<1>6. s \in Seq(T)
  BY <1>2, <1>5, SeqDef
<1>7. Len(s) = c
  BY <1>2, <1>5, <1>6, LenProperties
<1> QED BY <1>2, <1>5, <1>6, <1>7 DEF c, at, s, Picks

(* Its members are the entries at the chosen positions. *)
LEMMA ChosenMembers ==
  ASSUME NEW T, NEW items \in Seq(T), NEW S, S \subseteq 1 .. Len(items)
  PROVE  /\ Chosen(items, S) \in Seq(T)
         /\ ToSet(Chosen(items, S)) = {items[k] : k \in S}
<1>1. Chosen(items, S) \in Seq(T) /\ Picks(items, S)
  BY ChosenEntries
<1>2. ToSet(Chosen(items, S)) = {Chosen(items, S)[n] : n \in 1 .. Cardinality(S)}
  BY <1>1, ToSetOf DEF Picks
<1>3. ASSUME NEW x PROVE x \in ToSet(Chosen(items, S)) <=> x \in {items[k] : k \in S}
  <2>1. ASSUME NEW n \in 1 .. Cardinality(S), x = Chosen(items, S)[n] PROVE \E k \in S : x = items[k]
    BY <1>1, <2>1 DEF Picks
  <2>2. ASSUME NEW k \in S, x = items[k]
        PROVE  \E n \in 1 .. Cardinality(S) : x = Chosen(items, S)[n]
    BY <1>1, <2>2 DEF Picks
  <2> QED BY <1>2, <2>1, <2>2
<1> QED BY <1>1, <1>3

(* The pieces are not empty; the entries of the n-th one follow its position,  *)
(* up to the next one's, and together they hold every entry if the first one   *)
(* begins at the first entry.                                                  *)
Divides(items, S) ==
  /\ Len(Pieces(items, S)) = Cardinality(S) /\ Cardinality(S) \in Nat
  /\ \A n \in 1 .. Cardinality(S) :
       /\ InOrder(S)[n] \in S /\ Pieces(items, S)[n] # <<>>
       /\ \A j \in 1 .. Len(Pieces(items, S)[n]) :
            /\ InOrder(S)[n] + j - 1 \in 1 .. Len(items)
            /\ Pieces(items, S)[n][j] = items[InOrder(S)[n] + j - 1]
  /\ 1 \in S => \A k \in 1 .. Len(items) :
       \E n \in 1 .. Cardinality(S) : \E j \in 1 .. Len(Pieces(items, S)[n]) :
         k = InOrder(S)[n] + j - 1

(* Pieces divides a sequence at the given positions, without loss.           *)
LEMMA PiecesEntries ==
  ASSUME NEW T, NEW items \in Seq(T), NEW S, S \subseteq 1 .. Len(items)
  PROVE  Pieces(items, S) \in Seq(Seq(T)) /\ Divides(items, S)
<1> DEFINE c == Cardinality(S)
           at == InOrder(S)
           end(n) == IF n = c THEN Len(items) ELSE at[n + 1] - 1
           ps == Pieces(items, S)
<1>1. Len(items) \in Nat /\ S \subseteq Nat /\ IsFiniteSet(S)
  <2>1. Len(items) \in Nat
    BY LenProperties
  <2>2. IsFiniteSet(1 .. Len(items))
    BY <2>1, FS_Interval
  <2>3. IsFiniteSet(S)
    BY <2>2, FS_Subset
  <2> QED BY <2>1, <2>3
<1>2. /\ c \in Nat /\ \A n \in 1 .. c : at[n] \in S
      /\ \A k \in S : \E n \in 1 .. c : at[n] = k
      /\ \A m, n \in 1 .. c : m < n => at[m] < at[n]
  BY <1>1, InOrderLists
<1>3. ps = [n \in 1 .. c |-> SubSeq(items, at[n], end(n))]
  BY DEF Pieces
<1> HIDE DEF c, at, ps
<1>4. ASSUME NEW n \in 1 .. c
      PROVE  end(n) \in 1 .. Len(items) /\ at[n] <= end(n) /\ at[n] \in 1 .. Len(items)
  <2>1. at[n] \in 1 .. Len(items)
    BY <1>2
  <2>2. CASE n = c
    BY <1>1, <2>1, <2>2
  <2>3. CASE n # c
    <3>1. PICK m \in 1 .. c : m = n + 1
      BY <1>2, <2>3
    <3>2. at[m] \in S /\ at[n] < at[m]
      <4>1. n < m
        BY <3>1
      <4> QED BY <1>2, <4>1
    <3>3. end(n) = at[m] - 1 /\ at[m] \in 1 .. Len(items)
      BY <2>3, <3>1, <3>2
    <3> HIDE DEF end
    <3> QED BY <1>1, <2>1, <3>2, <3>3
  <2> QED BY <2>2, <2>3
<1> HIDE DEF end
<1>5. ASSUME NEW n \in 1 .. c
      PROVE  /\ ps[n] \in Seq(T) /\ Len(ps[n]) = end(n) - at[n] + 1
             /\ \A j \in 1 .. Len(ps[n]) : ps[n][j] = items[at[n] + j - 1]
  <2>1. ps[n] = SubSeq(items, at[n], end(n))
    BY <1>3
  <2>2. at[n] \in Int /\ end(n) \in Int /\ at[n] <= end(n)
    BY <1>1, <1>4
  <2>3. \A i \in at[n] .. end(n) : items[i] \in T
    <3>1. \A i \in at[n] .. end(n) : i \in 1 .. Len(items)
      BY <1>1, <1>4
    <3> QED BY <3>1, ElementOfSeq
  <2> QED BY <2>1, <2>2, <2>3, SubSeqProperties
<1>6. ps \in Seq(Seq(T)) /\ Len(ps) = c
  <2>1. ps \in [1 .. c -> Seq(T)]
    BY <1>3, <1>5
  <2>2. ps \in Seq(Seq(T))
    BY <1>2, <2>1, SeqDef
  <2> QED BY <1>2, <2>1, <2>2, LenProperties
<1>7. ASSUME NEW n \in 1 .. c
      PROVE  /\ at[n] \in S /\ ps[n] # <<>>
             /\ \A j \in 1 .. Len(ps[n]) :
                  at[n] + j - 1 \in 1 .. Len(items) /\ ps[n][j] = items[at[n] + j - 1]
  <2>1. Len(ps[n]) # 0
    BY <1>1, <1>4, <1>5
  <2>2. ps[n] # <<>>
    BY <2>1, EmptySeq
  <2>3. \A j \in 1 .. Len(ps[n]) : at[n] + j - 1 \in 1 .. Len(items)
    BY <1>1, <1>4, <1>5
  <2> QED BY <1>2, <1>5, <2>2, <2>3
<1>8. ASSUME 1 \in S, NEW k \in 1 .. Len(items)
      PROVE  \E n \in 1 .. c : \E j \in 1 .. Len(ps[n]) : k = at[n] + j - 1
  <2> DEFINE B == {n \in 1 .. c : k < at[n]}
  <2>1. ASSUME NEW n \in 1 .. c, at[n] <= k, k <= end(n)
        PROVE  \E i \in 1 .. c : \E j \in 1 .. Len(ps[i]) : k = at[i] + j - 1
    <3>1. k - at[n] + 1 \in 1 .. Len(ps[n]) /\ k = at[n] + (k - at[n] + 1) - 1
      BY <1>1, <1>4, <1>5, <2>1
    <3> QED BY <3>1
  <2>2. PICK o \in 1 .. c : at[o] = 1
    BY <1>2, <1>8
  <2>3. CASE B = {}
    <3>1. c \in 1 .. c /\ end(c) = Len(items)
      BY <1>2 DEF end
    <3>2. at[c] \in 1 .. Len(items) /\ ~(k < at[c])
      BY <1>4, <2>3, <3>1
    <3>3. at[c] <= k /\ k <= end(c)
      BY <1>1, <3>1, <3>2
    <3> QED BY <2>1, <3>1, <3>3
  <2>4. CASE B # {}
    <3>1. B \subseteq Nat
      OBVIOUS
    <3>2. PICK b \in B : \A n \in B : b <= n
      BY <2>4, <3>1, SmallestOf
    <3>3. b \in 1 .. c /\ k < at[b] /\ at[b] \in 1 .. Len(items)
      BY <1>4, <3>2
    <3>4. b # 1
      <4>1. at[o] <= k /\ ~(k < at[o])
        BY <1>1, <2>2
      <4>2. b # o
        BY <3>3, <4>1
      <4>3. b = 1 => at[b] < at[o]
        BY <1>2, <3>3, <4>2
      <4>4. at[b] \in Nat
        BY <1>1, <3>3
      <4> QED BY <1>1, <2>2, <3>3, <4>3, <4>4
    <3>5. PICK n \in 1 .. c : n = b - 1 /\ n + 1 = b /\ n # c
      BY <1>2, <3>3, <3>4
    <3>6. n \notin B
      BY <3>2, <3>5
    <3>7. at[n] <= k
      BY <1>1, <1>4, <3>6
    <3>8. k <= end(n)
      <4>1. end(n) = at[b] - 1
        BY <3>5 DEF end
      <4> QED BY <1>1, <3>3, <4>1
    <3> QED BY <2>1, <3>7, <3>8
  <2> QED BY <2>3, <2>4
<1> QED BY <1>2, <1>6, <1>7, <1>8 DEF c, at, ps, Divides

(* A function on 1 .. n is a sequence. *)
LEMMA SequenceOf ==
  ASSUME NEW T, NEW n \in Nat, NEW f \in [1 .. n -> T]
  PROVE  f \in Seq(T) /\ Len(f) = n
<1>1. f \in Seq(T)
  BY SeqDef
<1>2. DOMAIN f = 1 .. n /\ DOMAIN f = 1 .. Len(f) /\ Len(f) \in Nat
  BY <1>1, LenProperties
<1> QED BY <1>1, <1>2

-----------------------------------------------------------------------------
(* Putting sequences together one by one: g[i] is what the first i make.     *)
Gathers(T, ss, g) ==
  /\ g \in [0 .. Len(ss) -> Seq(T)] /\ g[0] = <<>>
  /\ \A i \in 1 .. Len(ss) : g[i] = g[i - 1] \o ss[i]

(* A sequence of sequences can be put together one by one.                   *)
LEMMA FlattenGathers ==
  ASSUME NEW T, NEW ss \in Seq(Seq(T))
  PROVE  \E g : Gathers(T, ss, g) /\ FlattenSeq(ss) = g[Len(ss)]
<1>1. CASE ss # <<>>
  <2>1. PICK g \in [0 .. Len(ss) -> Seq(T)] :
           /\ g[0] = <<>> /\ FlattenSeq(ss) = g[Len(ss)]
           /\ \A i \in 1 .. Len(ss) : g[i] = g[i - 1] \o ss[i]
    BY <1>1, FlattenSteps
  <2> QED BY <2>1 DEF Gathers
<1>2. CASE ss = <<>>
  <2> DEFINE g == [i \in 0 .. 0 |-> <<>>]
  <2>1. Len(ss) = 0
    BY <1>2, EmptySeq
  <2>2. g \in [0 .. 0 -> Seq(T)]
    BY EmptySeq
  <2>3. FlattenSeq(ss) = <<>>
    BY <1>2, <2>1 DEF FlattenSeq
  <2>4. Gathers(T, ss, g)
    BY <2>1, <2>2 DEF Gathers
  <2>5. FlattenSeq(ss) = g[Len(ss)]
    BY <2>1, <2>3
  <2> HIDE DEF g
  <2> QED BY <2>4, <2>5
<1> QED BY <1>1, <1>2

(* There is only one way to do so.                                           *)
LEMMA FlattenGathered ==
  ASSUME NEW T, NEW ss \in Seq(Seq(T)), NEW g, Gathers(T, ss, g)
  PROVE  /\ FlattenSeq(ss) = g[Len(ss)] /\ FlattenSeq(ss) \in Seq(T)
<1> DEFINE L == Len(ss)
<1>0. L \in Nat
  BY LenProperties
<1>1. PICK f : Gathers(T, ss, f) /\ FlattenSeq(ss) = f[Len(ss)]
  BY FlattenGathers
<1> DEFINE Same == {i \in Nat : i <= L => g[i] = f[i]}
<1>2. 0 \in Same
  BY <1>1 DEF Gathers
<1>3. ASSUME NEW n \in Nat, n \in Same PROVE n + 1 \in Same
  <2> SUFFICES ASSUME n + 1 <= L PROVE g[n + 1] = f[n + 1]
    OBVIOUS
  <2>1. PICK m \in 1 .. L : m = n + 1 /\ m - 1 = n
    BY <1>0
  <2>2. g[m] = g[m - 1] \o ss[m] /\ f[m] = f[m - 1] \o ss[m]
    BY <1>1 DEF Gathers
  <2>3. g[n] = f[n]
    BY <1>0, <1>3
  <2> QED BY <2>1, <2>2, <2>3
<1>4. L \in Same
  <2> HIDE DEF Same
  <2> QED BY <1>0, <1>2, <1>3, InductionOf
<1>5. f[L] = g[L] /\ L \in 0 .. L
  BY <1>0, <1>4
<1> QED BY <1>1, <1>5 DEF Gathers

(* Two sequences of sequences make what each of them makes.                  *)
LEMMA FlattenConcat ==
  ASSUME NEW T, NEW ss \in Seq(Seq(T)), NEW tt \in Seq(Seq(T))
  PROVE  FlattenSeq(ss \o tt) = FlattenSeq(ss) \o FlattenSeq(tt)
<1>a. ASSUME NEW x \in Seq(T), NEW y \in Seq(T), NEW z \in Seq(T)
      PROVE  (x \o y) \o z = x \o (y \o z)
  BY ConcatAssociative
<1> DEFINE L == Len(ss)
           M == Len(tt)
           all == ss \o tt
<1>0. L \in Nat /\ M \in Nat
  BY LenProperties
<1>1. PICK f : Gathers(T, ss, f) /\ FlattenSeq(ss) = f[L]
  BY FlattenGathers
<1>2. PICK g : Gathers(T, tt, g) /\ FlattenSeq(tt) = g[M]
  BY FlattenGathers
<1>3. all \in Seq(Seq(T)) /\ Len(all) = L + M
      /\ \A i \in 1 .. L + M : all[i] = IF i <= L THEN ss[i] ELSE tt[i - L]
  BY ConcatProperties
<1> HIDE DEF all
<1> DEFINE h == [i \in 0 .. L + M |-> IF i <= L THEN f[i] ELSE f[L] \o g[i - L]]
<1>4. /\ \A i \in 0 .. L : f[i] \in Seq(T)
      /\ \A i \in 0 .. M : g[i] \in Seq(T)
  BY <1>1, <1>2 DEF Gathers
<1>5. ASSUME NEW i \in 0 .. L + M PROVE h[i] \in Seq(T)
  <2>1. CASE i <= L
    <3>1. i \in 0 .. L
      BY <1>0, <2>1
    <3> QED BY <1>4, <2>1, <3>1
  <2>2. CASE ~(i <= L)
    <3>1. i - L \in 0 .. M /\ L \in 0 .. L
      BY <1>0, <2>2
    <3>2. f[L] \o g[i - L] \in Seq(T)
      BY <1>4, <3>1, ConcatProperties
    <3> QED BY <2>2, <3>2
  <2> QED BY <2>1, <2>2
<1>6. h[0] = <<>>
  BY <1>0, <1>1 DEF Gathers
<1>7. ASSUME NEW i \in 1 .. L + M PROVE h[i] = h[i - 1] \o all[i]
  <2>0. i \in 0 .. L + M /\ i - 1 \in 0 .. L + M
    BY <1>0
  <2>1. CASE i <= L
    <3>1. i \in 1 .. L /\ i - 1 <= L
      BY <1>0, <2>1
    <3>2. f[i] = f[i - 1] \o ss[i]
      BY <1>1, <3>1 DEF Gathers
    <3>3. h[i] = f[i] /\ h[i - 1] = f[i - 1] /\ all[i] = ss[i]
      BY <1>3, <2>0, <2>1, <3>1
    <3> QED BY <3>2, <3>3
  <2>2. CASE ~(i <= L)
    <3>0. i - L \in 1 .. M /\ i - L - 1 = i - 1 - L
      BY <1>0, <2>2
    <3>1. PICK j \in 1 .. M : j = i - L /\ j - 1 = i - 1 - L
      BY <3>0
    <3>2. g[j] = g[j - 1] \o tt[j]
      BY <1>2 DEF Gathers
    <3>3. h[i] = f[L] \o g[j] /\ all[i] = tt[j]
      BY <1>3, <2>0, <2>2, <3>1
    <3>4. h[i - 1] = f[L] \o g[j - 1]
      <4>1. CASE i - 1 <= L
        <5>1. i - 1 = L /\ j - 1 = 0 /\ L \in 0 .. L
          BY <1>0, <2>2, <3>1, <4>1
        <5>2. h[i - 1] = f[L]
          BY <2>0, <4>1, <5>1
        <5>3. g[j - 1] = <<>>
          BY <1>2, <5>1 DEF Gathers
        <5> HIDE DEF h
        <5> QED BY <1>4, <5>1, <5>2, <5>3, ConcatEmptySeq
      <4>2. CASE ~(i - 1 <= L)
        BY <2>0, <3>1, <4>2
      <4> QED BY <4>1, <4>2
    <3> HIDE DEF h
    <3>5. f[L] \in Seq(T) /\ g[j - 1] \in Seq(T) /\ tt[j] \in Seq(T)
      <4>1. L \in 0 .. L /\ j - 1 \in 0 .. M
        BY <1>0
      <4> QED BY <1>4, <4>1, ElementOfSeq
    <3>6. (f[L] \o g[j - 1]) \o tt[j] = f[L] \o (g[j - 1] \o tt[j])
      <4>1. PICK x \in Seq(T), y \in Seq(T), z \in Seq(T) : x = f[L] /\ y = g[j - 1] /\ z = tt[j]
        BY <3>5
      <4>2. (x \o y) \o z = x \o (y \o z)
        BY <1>a
      <4> QED BY <4>1, <4>2
    <3> QED BY <3>2, <3>3, <3>4, <3>6
  <2> QED BY <2>1, <2>2
<1>8. Gathers(T, all, h)
  <2>1. h \in [0 .. Len(all) -> Seq(T)]
    BY <1>3, <1>5
  <2> HIDE DEF h
  <2> QED BY <1>3, <1>6, <1>7, <2>1 DEF Gathers
<1>9. h[L + M] = f[L] \o g[M]
  <2>1. L + M \in 0 .. L + M
    BY <1>0
  <2>2. CASE M = 0
    <3>1. L + M = L /\ L + M <= L /\ L \in 0 .. L
      BY <1>0, <2>2
    <3>2. h[L + M] = f[L] /\ g[M] = <<>>
      BY <1>2, <2>1, <2>2, <3>1 DEF Gathers
    <3> HIDE DEF h
    <3> QED BY <1>4, <3>1, <3>2, ConcatEmptySeq
  <2>3. CASE M # 0
    <3>1. ~(L + M <= L) /\ L + M - L = M
      BY <1>0, <2>3
    <3>2. PICK i \in 0 .. L + M : i = L + M /\ i - L = M /\ ~(i <= L)
      BY <2>1, <3>1
    <3>3. h[i] = f[L] \o g[i - L]
      BY <3>2
    <3> HIDE DEF h
    <3> QED BY <3>2, <3>3
  <2> QED BY <2>2, <2>3
<1>10. FlattenSeq(all) = h[L + M]
  <2> HIDE DEF h
  <2> QED BY <1>3, <1>8, FlattenGathered
<1> QED BY <1>1, <1>2, <1>9, <1>10 DEF all

(* Of three layers it does not matter which two are put together first.      *)
LEMMA FlattenTwice ==
  ASSUME NEW T, NEW sss \in Seq(Seq(Seq(T)))
  PROVE  /\ FlattenSeq(sss) \in Seq(Seq(T))
         /\ [n \in DOMAIN sss |-> FlattenSeq(sss[n])] \in Seq(Seq(T))
         /\ FlattenSeq(FlattenSeq(sss)) = FlattenSeq([n \in DOMAIN sss |-> FlattenSeq(sss[n])])
<1> DEFINE L == Len(sss)
           one == [n \in DOMAIN sss |-> FlattenSeq(sss[n])]
<1>0. L \in Nat /\ DOMAIN sss = 1 .. L /\ \A i \in 1 .. L : sss[i] \in Seq(Seq(T))
  BY LenProperties, ElementOfSeq
<1>1. PICK g : Gathers(Seq(T), sss, g) /\ FlattenSeq(sss) = g[L]
  BY FlattenGathers
<1>2. FlattenSeq(sss) \in Seq(Seq(T))
  BY FlattenMembers
<1>3. one \in Seq(Seq(T)) /\ Len(one) = L /\ \A i \in 1 .. L : one[i] = FlattenSeq(sss[i])
  <2>1. \A i \in 1 .. L : FlattenSeq(sss[i]) \in Seq(T)
    BY <1>0, FlattenMembers
  <2>2. one \in [1 .. L -> Seq(T)]
    BY <1>0, <2>1
  <2>3. one \in Seq(Seq(T))
    BY <1>0, <2>2, SeqDef
  <2> QED BY <1>0, <2>2, <2>3, LenProperties
<1> HIDE DEF one
<1> DEFINE h == [i \in 0 .. L |-> FlattenSeq(g[i])]
<1>4. \A i \in 0 .. L : g[i] \in Seq(Seq(T))
  BY <1>1 DEF Gathers
<1>5. ASSUME NEW i \in 1 .. L PROVE h[i] = h[i - 1] \o one[i]
  <2>1. i - 1 \in 0 .. L /\ i \in 0 .. L
    BY <1>0
  <2>2. g[i] = g[i - 1] \o sss[i]
    BY <1>1 DEF Gathers
  <2>3. FlattenSeq(g[i - 1] \o sss[i]) = FlattenSeq(g[i - 1]) \o FlattenSeq(sss[i])
    BY <1>0, <1>4, <2>1, FlattenConcat
  <2> QED BY <1>3, <2>1, <2>2, <2>3
<1>6. h[0] = <<>>
  <2>1. g[0] = <<>> /\ 0 \in 0 .. L
    BY <1>0, <1>1 DEF Gathers
  <2>2. FlattenSeq(<<>>) = <<>>
    <3>1. Len(<<>>) = 0
      BY EmptySeq
    <3> QED BY <3>1 DEF FlattenSeq
  <2> QED BY <2>1, <2>2
<1>7. h \in [0 .. L -> Seq(T)]
  <2>1. \A i \in 0 .. L : FlattenSeq(g[i]) \in Seq(T)
    BY <1>4, FlattenMembers
  <2> QED BY <2>1
<1>8. h[L] = FlattenSeq(g[L])
  <2>1. L \in 0 .. L
    BY <1>0
  <2> QED BY <2>1
<1> HIDE DEF h
<1>9. Gathers(T, one, h)
  BY <1>3, <1>5, <1>6, <1>7 DEF Gathers
<1>10. FlattenSeq(one) = h[L]
  BY <1>3, <1>9, FlattenGathered
<1> QED BY <1>1, <1>2, <1>3, <1>8, <1>10 DEF one

-----------------------------------------------------------------------------
(* The entries of a sequence, each changed by f.                             *)
Mapped(s, f) == [k \in DOMAIN s |-> f[s[k]]]

Maps(s, f, U) ==
  /\ Mapped(s, f) \in Seq(U) /\ Len(Mapped(s, f)) = Len(s)
  /\ \A k \in 1 .. Len(s) : Mapped(s, f)[k] = f[s[k]]

(* There are as many, in the same order.                                     *)
LEMMA MappedEntries ==
  ASSUME NEW T, NEW U, NEW f \in [T -> U], NEW s \in Seq(T)
  PROVE  Maps(s, f, U)
<1>1. Len(s) \in Nat /\ DOMAIN s = 1 .. Len(s) /\ \A k \in 1 .. Len(s) : s[k] \in T
  BY LenProperties, ElementOfSeq
<1>2. Mapped(s, f) \in [1 .. Len(s) -> U] /\ \A k \in 1 .. Len(s) : Mapped(s, f)[k] = f[s[k]]
  BY <1>1 DEF Mapped
<1>3. Mapped(s, f) \in Seq(U)
  BY <1>1, <1>2, SeqDef
<1>4. Len(Mapped(s, f)) = Len(s)
  BY <1>1, <1>2, <1>3, LenProperties
<1> QED BY <1>2, <1>3, <1>4 DEF Maps

(* Changing entries and putting together can change places.                  *)
LEMMA MappedConcat ==
  ASSUME NEW T, NEW U, NEW f \in [T -> U], NEW s \in Seq(T), NEW t \in Seq(T)
  PROVE  Mapped(s \o t, f) = Mapped(s, f) \o Mapped(t, f)
<1> DEFINE a == Mapped(s \o t, f)
           b == Mapped(s, f) \o Mapped(t, f)
<1>1. Len(s) \in Nat /\ Len(t) \in Nat
  BY LenProperties
<1>2. s \o t \in Seq(T) /\ Len(s \o t) = Len(s) + Len(t)
      /\ \A i \in 1 .. Len(s) + Len(t) : (s \o t)[i] = IF i <= Len(s) THEN s[i] ELSE t[i - Len(s)]
  BY ConcatProperties
<1>0. ASSUME NEW x \in Seq(T) PROVE Maps(x, f, U)
  BY MappedEntries
<1>3. a \in Seq(U) /\ Len(a) = Len(s) + Len(t)
      /\ \A k \in 1 .. Len(s) + Len(t) : a[k] = f[(s \o t)[k]]
  <2>1. Maps(s \o t, f, U)
    BY <1>0, <1>2
  <2> QED BY <1>2, <2>1 DEF Maps
<1>4. /\ Mapped(s, f) \in Seq(U) /\ Len(Mapped(s, f)) = Len(s)
      /\ \A k \in 1 .. Len(s) : Mapped(s, f)[k] = f[s[k]]
      /\ Mapped(t, f) \in Seq(U) /\ Len(Mapped(t, f)) = Len(t)
      /\ \A k \in 1 .. Len(t) : Mapped(t, f)[k] = f[t[k]]
  BY <1>0 DEF Maps
<1>5. b \in Seq(U) /\ Len(b) = Len(s) + Len(t)
      /\ \A k \in 1 .. Len(s) + Len(t) :
           b[k] = IF k <= Len(s) THEN Mapped(s, f)[k] ELSE Mapped(t, f)[k - Len(s)]
  <2>1. PICK x \in Seq(U), y \in Seq(U) : /\ x = Mapped(s, f) /\ y = Mapped(t, f)
                                        /\ Len(x) = Len(s) /\ Len(y) = Len(t)
    BY <1>4
  <2>2. /\ x \o y \in Seq(U) /\ Len(x \o y) = Len(x) + Len(y)
        /\ \A i \in 1 .. Len(x) + Len(y) : (x \o y)[i] = IF i <= Len(x) THEN x[i] ELSE y[i - Len(x)]
    BY ConcatProperties
  <2> QED BY <2>1, <2>2
<1> HIDE DEF a, b
<1>6. ASSUME NEW k \in 1 .. Len(a) PROVE a[k] = b[k]
  <2>0. k \in 1 .. Len(s) + Len(t)
    BY <1>3
  <2>1. CASE k <= Len(s)
    <3>1. k \in 1 .. Len(s)
      BY <1>1, <2>1, <2>0
    <3>2. a[k] = f[s[k]] /\ b[k] = Mapped(s, f)[k]
      BY <1>2, <1>3, <1>5, <2>0, <2>1
    <3> QED BY <1>4, <3>1, <3>2
  <2>2. CASE ~(k <= Len(s))
    <3>0. k - Len(s) \in 1 .. Len(t)
      BY <1>1, <2>2, <2>0
    <3>1. PICK j \in 1 .. Len(t) : j = k - Len(s)
      BY <3>0
    <3>2. a[k] = f[t[j]]
      BY <1>2, <1>3, <2>0, <2>2, <3>1
    <3>3. b[k] = Mapped(t, f)[j]
      BY <1>5, <2>0, <2>2, <3>1
    <3> QED BY <1>4, <3>2, <3>3
  <2> QED BY <2>1, <2>2
<1>7. a = b
  BY <1>3, <1>5, <1>6, SeqEqual
<1> QED BY <1>7 DEF a, b

(* The same of a sequence of sequences.                                      *)
MappedEach(ss, f) == [n \in DOMAIN ss |-> Mapped(ss[n], f)]

(* Mapping what is put together is putting the mapped ones together.         *)
LEMMA MappedFlatten ==
  ASSUME NEW T, NEW U, NEW f \in [T -> U], NEW ss \in Seq(Seq(T))
  PROVE  /\ MappedEach(ss, f) \in Seq(Seq(U))
         /\ Mapped(FlattenSeq(ss), f) = FlattenSeq(MappedEach(ss, f))
<1> DEFINE L == Len(ss)
           mm == MappedEach(ss, f)
<1>0. L \in Nat /\ DOMAIN ss = 1 .. L /\ \A i \in 1 .. L : ss[i] \in Seq(T)
  BY LenProperties, ElementOfSeq
<1>1. mm \in Seq(Seq(U)) /\ Len(mm) = L /\ \A i \in 1 .. L : mm[i] = Mapped(ss[i], f)
  <2>1. \A i \in 1 .. L : Mapped(ss[i], f) \in Seq(U)
    BY <1>0, MappedEntries DEF Maps
  <2>2. mm \in [1 .. L -> Seq(U)] /\ \A i \in 1 .. L : mm[i] = Mapped(ss[i], f)
    BY <1>0, <2>1 DEF MappedEach
  <2> HIDE DEF mm
  <2> QED BY <1>0, <2>2, SequenceOf
<1> HIDE DEF mm
<1>2. PICK g : Gathers(T, ss, g) /\ FlattenSeq(ss) = g[L]
  BY FlattenGathers
<1> DEFINE h == [i \in 0 .. L |-> Mapped(g[i], f)]
<1>3. \A i \in 0 .. L : g[i] \in Seq(T)
  BY <1>2 DEF Gathers
<1>4. ASSUME NEW i \in 1 .. L PROVE h[i] = h[i - 1] \o mm[i]
  <2>1. i - 1 \in 0 .. L /\ i \in 0 .. L
    BY <1>0
  <2>2. g[i] = g[i - 1] \o ss[i]
    BY <1>2 DEF Gathers
  <2>3. Mapped(g[i - 1] \o ss[i], f) = Mapped(g[i - 1], f) \o Mapped(ss[i], f)
    BY <1>0, <1>3, <2>1, MappedConcat
  <2> QED BY <1>1, <2>1, <2>2, <2>3
<1>5. h[0] = <<>>
  <2>1. g[0] = <<>> /\ 0 \in 0 .. L
    BY <1>0, <1>2 DEF Gathers
  <2>2. Mapped(<<>>, f) = <<>>
    <3>1. <<>> \in Seq(T) /\ Len(<<>>) = 0
      BY EmptySeq
    <3>2. PICK x \in Seq(T) : x = <<>> /\ Len(x) = 0
      BY <3>1
    <3>3. Mapped(x, f) \in Seq(U) /\ Len(Mapped(x, f)) = 0
      <4>1. Maps(x, f, U)
        BY MappedEntries
      <4> QED BY <3>2, <4>1 DEF Maps
    <3> QED BY <3>2, <3>3, EmptySeq
  <2> QED BY <2>1, <2>2
<1>6. h \in [0 .. L -> Seq(U)]
  <2>1. \A i \in 0 .. L : Mapped(g[i], f) \in Seq(U)
    BY <1>3, MappedEntries DEF Maps
  <2> QED BY <2>1
<1>7. h[L] = Mapped(g[L], f)
  <2>1. L \in 0 .. L
    BY <1>0
  <2> QED BY <2>1
<1> HIDE DEF h
<1>8. Gathers(U, mm, h)
  BY <1>1, <1>4, <1>5, <1>6 DEF Gathers
<1>9. FlattenSeq(mm) = h[L]
  BY <1>1, <1>8, FlattenGathered
<1> QED BY <1>1, <1>2, <1>7, <1>9 DEF mm

(* The pieces of a sequence, put together, are the sequence.                 *)
LEMMA FlattenPieces ==
  ASSUME NEW T, NEW items \in Seq(T), NEW S, S \subseteq 1 .. Len(items), items # <<>> => 1 \in S
  PROVE  FlattenSeq(Pieces(items, S)) = items
<1> DEFINE c == Cardinality(S)
           at == InOrder(S)
           M == Len(items)
           end(n) == IF n = c THEN M ELSE at[n + 1] - 1
           ps == Pieces(items, S)
<1>1. M \in Nat /\ S \subseteq Nat /\ IsFiniteSet(S)
  <2>1. M \in Nat
    BY LenProperties
  <2>2. IsFiniteSet(1 .. M)
    BY <2>1, FS_Interval
  <2>3. IsFiniteSet(S)
    BY <2>2, FS_Subset
  <2> QED BY <2>1, <2>3
<1>2. /\ c \in Nat /\ \A n \in 1 .. c : at[n] \in S
      /\ \A k \in S : \E n \in 1 .. c : at[n] = k
      /\ \A m, n \in 1 .. c : m < n => at[m] < at[n]
  BY <1>1, InOrderLists
<1>3. ps = [n \in 1 .. c |-> SubSeq(items, at[n], end(n))]
  BY DEF Pieces
<1>4. ps \in Seq(Seq(T)) /\ Len(ps) = c
  <2>1. Pieces(items, S) \in Seq(Seq(T)) /\ Divides(items, S)
    BY PiecesEntries
  <2>2. Len(Pieces(items, S)) = Cardinality(S)
    BY <2>1 DEF Divides
  <2> QED BY <2>1, <2>2
<1>5. CASE c = 0
  <2>1. S = {}
    BY <1>1, <1>5, FS_EmptySet
  <2>2. items = <<>>
    BY <2>1
  <2>3. ps = <<>>
    BY <1>4, <1>5, EmptySeq
  <2>4. FlattenSeq(<<>>) = <<>>
    <3>1. Len(<<>>) = 0
      BY EmptySeq
    <3> QED BY <3>1 DEF FlattenSeq
  <2> QED BY <2>2, <2>3, <2>4
<1>6. CASE c # 0
  <2> HIDE DEF c, at, ps, M
  <2> DEFINE h == [n \in 0 .. c |-> IF n = 0 THEN <<>> ELSE SubSeq(items, 1, end(n))]
  <2>1. at[1] = 1 /\ 1 \in 1 .. c
    <3>1. 1 \in 1 .. c
      BY <1>2, <1>6
    <3>2. items # <<>>
      <4>1. at[1] \in 1 .. M
        BY <1>2, <3>1 DEF M
      <4>2. M # 0
        BY <1>1, <4>1
      <4> QED BY <4>2, EmptySeq DEF M
    <3>3. PICK o \in 1 .. c : at[o] = 1
      BY <1>2, <3>2
    <3>4. o = 1
      <4> SUFFICES ASSUME o # 1 PROVE FALSE
        OBVIOUS
      <4>1. 1 < o
        BY <1>2
      <4>2. at[1] < at[o] /\ at[1] \in 1 .. M
        BY <1>2, <3>1, <4>1 DEF M
      <4> QED BY <1>1, <3>3, <4>2
    <3> QED BY <3>1, <3>3, <3>4
  <2>2. ASSUME NEW n \in 1 .. c PROVE at[n] \in 1 .. M /\ end(n) \in at[n] .. M
    <3>1. at[n] \in 1 .. M
      BY <1>2 DEF M
    <3>2. CASE n = c
      BY <1>1, <3>1, <3>2
    <3>3. CASE n # c
      <4>1. PICK m \in 1 .. c : m = n + 1
        BY <1>2, <3>3
      <4>2. at[m] \in 1 .. M /\ at[n] < at[m]
        <5>1. n < m
          BY <4>1
        <5>2. at[m] \in S
          BY <1>2
        <5> QED BY <1>2, <5>1, <5>2 DEF M
      <4>3. end(n) = at[m] - 1
        BY <3>3, <4>1
      <4> HIDE DEF end
      <4> QED BY <1>1, <3>1, <4>2, <4>3
    <3> QED BY <3>2, <3>3
  <2>3. ASSUME NEW n \in 1 .. c, n # 1 PROVE end(n - 1) = at[n] - 1
    <3>1. n - 1 # c /\ n - 1 + 1 = n
      BY <1>2, <2>3
    <3> QED BY <3>1
  <2>4. end(c) = M
    OBVIOUS
  <2> HIDE DEF end
  <2>5. ASSUME NEW n \in 1 .. c PROVE h[n] = h[n - 1] \o ps[n] /\ h[n] \in Seq(T)
    <3>1. ps[n] = SubSeq(items, at[n], end(n)) /\ ps[n] \in Seq(T)
      <4>1. ps[n] \in Seq(T)
        BY <1>4, ElementOfSeq
      <4> QED BY <1>3, <4>1
    <3>2. h[n] = SubSeq(items, 1, end(n))
      <4>1. n \in 0 .. c /\ n # 0
        BY <1>2
      <4> QED BY <4>1
    <3>3. CASE n = 1
      <4>1. h[n - 1] = <<>>
        BY <1>2, <3>3
      <4>2. h[n] = ps[n]
        BY <2>1, <3>1, <3>2, <3>3
      <4> HIDE DEF h
      <4> QED BY <3>1, <4>1, <4>2, ConcatEmptySeq
    <3>4. CASE n # 1
      <4>1. n - 1 \in 1 .. c /\ n - 1 # 0 /\ n - 1 \in 0 .. c
        BY <1>2, <3>4
      <4>2. h[n - 1] = SubSeq(items, 1, end(n - 1))
        BY <4>1
      <4> HIDE DEF h
      <4>3. PICK k \in 0 .. M : k = at[n] - 1 /\ k + 1 = at[n] /\ end(n - 1) = k
        BY <1>1, <2>2, <2>3, <3>4
      <4>4. end(n) \in k .. Len(items) /\ k \in 1 - 1 .. Len(items) /\ 1 \in 1 .. Len(items) + 1
        BY <1>1, <2>2, <4>3 DEF M
      <4>5. SubSeq(items, 1, k) \o SubSeq(items, k + 1, end(n)) = SubSeq(items, 1, end(n))
        BY <4>4, ConcatAdjacentSubSeq
      <4>6. SubSeq(items, 1, end(n)) \in Seq(T)
        <5>1. end(n) \in 0 .. Len(items)
          BY <1>1, <4>4 DEF M
        <5> QED BY <4>4, <5>1, SubSeqMembers
      <4> QED BY <3>1, <3>2, <4>2, <4>3, <4>5, <4>6
    <3>5. CASE n = 1
      <4>1. h[n] = ps[n]
        BY <2>1, <3>1, <3>2, <3>5
      <4> QED BY <3>1, <3>3, <3>5, <4>1
    <3> QED BY <3>3, <3>4, <3>5
  <2>6. h[0] = <<>> /\ h[0] \in Seq(T)
    <3>1. 0 \in 0 .. c
      BY <1>2
    <3> QED BY <3>1, EmptySeq
  <2>7. h \in [0 .. c -> Seq(T)]
    <3>1. \A n \in 0 .. c : h[n] \in Seq(T)
      <4> HIDE DEF h
      <4> TAKE n \in 0 .. c
      <4>1. n = 0 \/ n \in 1 .. c
        BY <1>2
      <4> QED BY <2>5, <2>6, <4>1
    <3> QED BY <3>1
  <2>8. h[c] = items
    <3>1. c \in 0 .. c
      BY <1>2
    <3>2. h[c] = SubSeq(items, 1, M)
      BY <1>6, <2>4, <3>1
    <3> QED BY <3>2, SubSeqFull DEF M
  <2> HIDE DEF h
  <2>9. Gathers(T, ps, h)
    BY <1>4, <2>5, <2>6, <2>7 DEF Gathers, c, ps
  <2>10. FlattenSeq(ps) = h[c]
    BY <1>4, <2>9, FlattenGathered DEF c, ps
  <2> QED BY <2>8, <2>10 DEF ps
<1> QED BY <1>5, <1>6

(* One sequence alone, put together.                                            *)
LEMMA FlattenOne ==
  ASSUME NEW T, NEW s \in Seq(T)
  PROVE  <<s>> \in Seq(Seq(T)) /\ FlattenSeq(<<s>>) = s
<1> DEFINE ss == <<s>>
<1>1. ss \in Seq(Seq(T)) /\ Len(ss) = 1 /\ ss[1] = s
  OBVIOUS
<1> HIDE DEF ss
<1>2. PICK g : Gathers(T, ss, g) /\ FlattenSeq(ss) = g[Len(ss)]
  BY <1>1, FlattenGathers
<1>3. g[0] = <<>> /\ g[1] = g[0] \o ss[1]
  <2>1. 1 \in 1 .. Len(ss) /\ 1 - 1 = 0
    BY <1>1
  <2> QED BY <1>2, <2>1 DEF Gathers
<1>4. <<>> \o s = s
  BY ConcatEmptySeq
<1> QED BY <1>1, <1>2, <1>3, <1>4 DEF ss

(* What never falls from one number to the next never falls.                    *)
LEMMA NeverFalls ==
  ASSUME NEW n \in Nat, NEW off \in [0 .. n -> Nat], \A i \in 1 .. n : off[i - 1] <= off[i]
  PROVE  \A j \in 0 .. n : \A i \in 0 .. j : off[i] <= off[j]
<1> DEFINE S == {j \in Nat : j \in 0 .. n => \A i \in 0 .. j : off[i] <= off[j]}
<1>1. 0 \in S
  <2>1. 0 .. 0 = {0} /\ off[0] \in Nat
    OBVIOUS
  <2> QED BY <2>1
<1>2. ASSUME NEW j \in Nat, j \in S PROVE j + 1 \in S
  <2> SUFFICES ASSUME NEW m \in 0 .. n, m = j + 1, NEW i \in 0 .. m PROVE off[i] <= off[m]
    OBVIOUS
  <2>1. j \in 0 .. n /\ m \in 1 .. n /\ m - 1 = j
    OBVIOUS
  <2>2. off[j] <= off[m] /\ off[j] \in Nat /\ off[m] \in Nat /\ off[i] \in Nat
    BY <2>1
  <2>3. CASE i = m
    BY <2>2, <2>3
  <2>4. CASE i # m
    <3>1. i \in 0 .. j
      BY <2>1, <2>4
    <3>2. off[i] <= off[j]
      BY <1>2, <2>1, <3>1
    <3> QED BY <2>2, <3>2
  <2> QED BY <2>3, <2>4
<1> HIDE DEF S
<1>3. Nat \subseteq S
  BY <1>1, <1>2, InductionOf
<1>4. ASSUME NEW j \in 0 .. n PROVE \A i \in 0 .. j : off[i] <= off[j]
  <2>1. j \in S
    BY <1>3
  <2> QED BY <2>1 DEF S
<1> QED BY <1>4
=============================================================================
