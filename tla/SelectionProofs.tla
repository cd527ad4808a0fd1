--------------------------- MODULE SelectionProofs ----------------------------
(***************************************************************************)
(* Lemmas about Selection: ranks number the elements of a finite set of    *)
(* numbers, so that Select keeps the order of a sequence and every element *)
(* it is asked for.                                                        *)
(***************************************************************************)
EXTENDS Selection, FiniteSetTheorems, WellFoundedInduction, TLAPS

\* Sets of numbers have a least member: what induction comes to here.
LEMMA LeastOfOrder ==
  ASSUME NEW R, IsWellFoundedOn(R, Nat), \A m, n \in Nat : m < n => <<m, n>> \in R,
         NEW S, S \subseteq Nat, S # {}
  PROVE  \E n \in S : \A m \in S : n <= m
<1>1. PICK n \in S : \A y \in S : ~ (<<y, n>> \in R)
  BY WFMin, ZenonT(30)
<1>2. \A y \in S : n \in Nat /\ y \in Nat /\ ~(y < n)
  BY <1>1
<1> QED  BY <1>2

LEMMA NatMin ==
  ASSUME NEW S, S \subseteq Nat, S # {}
  PROVE  \E n \in S : \A m \in S : n <= m
<1>1. IsWellFoundedOn(OpToRel(<,Nat), Nat)
  BY NatLessThanWellFounded
<1>2. \A m, n \in Nat : m < n => <<m, n>> \in OpToRel(<,Nat)
  BY DEF OpToRel
<1> DEFINE R == OpToRel(<,Nat)
<1>3. IsWellFoundedOn(R, Nat) /\ \A m, n \in Nat : m < n => <<m, n>> \in R
  BY <1>1, <1>2
<1> HIDE DEF R
<1> QED  BY <1>3, LeastOfOrder

\* A property of the first number that goes over to the next holds up to any.
LEMMA UpTheNumbers ==
  ASSUME NEW n \in Nat, NEW A \in SUBSET (0 .. n), 0 \in A,
         \A k \in 1 .. n : k - 1 \in A => k \in A
  PROVE  A = 0 .. n
<1> SUFFICES ASSUME (0 .. n) \ A # {} PROVE FALSE
  OBVIOUS
<1> DEFINE S == (0 .. n) \ A
<1>1. S \subseteq Nat /\ S # {}  OBVIOUS
<1>2. PICK k \in S : \A m \in S : k <= m  BY <1>1, NatMin, Zenon
<1>3. k \in 1 .. n /\ k - 1 \in 0 .. n /\ k - 1 < k  BY <1>2
<1>4. k - 1 \in A  BY <1>2, <1>3
<1> QED  BY <1>2, <1>3, <1>4

\* f goes from base over the numbers up to n, by a step for each.
Iterates(f, n, S, base, step) ==
  f \in [0 .. n -> S] /\ f[0] = base /\ \A k \in 1 .. n : f[k] = step[k][f[k - 1]]

\* What a recursive function over 0 .. n is: there is a function that does so.
LEMMA Recursion ==
  ASSUME NEW n \in Nat, NEW S, NEW base \in S, NEW step \in [1 .. n -> [S -> S]]
  PROVE  \E f : Iterates(f, n, S, base, step)
<1> DEFINE A == {m \in 0 .. n : \E f \in [0 .. m -> S] :
                   f[0] = base /\ \A k \in 1 .. m : f[k] = step[k][f[k - 1]]}
<1>1. 0 \in A
  <2>1. 0 \in 0 .. n /\ 0 .. 0 = {0} /\ 1 .. 0 = {}  OBVIOUS
  <2>2. [k \in 0 .. 0 |-> base] \in [0 .. 0 -> S] /\ [k \in 0 .. 0 |-> base][0] = base
    BY <2>1
  <2> QED  BY <2>1, <2>2
<1>2. ASSUME NEW m \in 1 .. n, m - 1 \in A PROVE m \in A
  <2>1. PICK f \in [0 .. m - 1 -> S] :
          f[0] = base /\ \A k \in 1 .. m - 1 : f[k] = step[k][f[k - 1]]
    BY <1>2
  <2> DEFINE g == [k \in 0 .. m |-> IF k = m THEN step[m][f[m - 1]] ELSE f[k]]
  <2>2. m - 1 \in 0 .. m - 1 /\ m \in 0 .. n /\ 0 \in 0 .. m - 1 /\ m # 0
    OBVIOUS
  <2>3. step[m][f[m - 1]] \in S  BY <2>1, <2>2
  <2>4. \A k \in 0 .. m : k = m \/ k \in 0 .. m - 1  OBVIOUS
  <2>5. g \in [0 .. m -> S]  BY <2>3, <2>4
  <2>6. g[0] = base  BY <2>1, <2>2
  <2>7. ASSUME NEW k \in 1 .. m PROVE g[k] = step[k][g[k - 1]]
    <3>1. k - 1 \in 0 .. m - 1 /\ k - 1 # m /\ k - 1 \in 0 .. m /\ k \in 0 .. m  BY <2>7
    <3>2. g[k - 1] = f[k - 1]  BY <3>1
    <3>3. CASE k = m  BY <3>1, <3>2, <3>3
    <3>4. CASE k # m
      <4>1. k \in 1 .. m - 1  BY <3>4
      <4> QED  BY <2>1, <3>1, <3>2, <3>4, <4>1
    <3> QED  BY <3>3, <3>4
  <2> HIDE DEF g
  <2> QED  BY <2>2, <2>5, <2>6, <2>7
<1>3. n \in A
  <2>1. A \in SUBSET (0 .. n)  OBVIOUS
  <2> HIDE DEF A
  <2>2. A = 0 .. n  BY <1>1, <1>2, <2>1, UpTheNumbers
  <2> QED  BY <2>2
<1> QED  BY <1>3 DEF Iterates

LEMMA UpTo ==
  ASSUME NEW n \in Nat
  PROVE  IsFiniteSet(1 .. n) /\ Cardinality(1 .. n) = n
<1>1. IsFiniteSet(1 .. n) /\ Cardinality(1 .. n) = IF 1 > n THEN 0 ELSE n - 1 + 1
  BY FS_Interval
<1> QED  BY <1>1

\* Ranks grow with the numbers.
LEMMA RankGrows ==
  ASSUME NEW I \in SUBSET Nat, IsFiniteSet(I), NEW i \in I, NEW j \in I, i < j
  PROVE  Rank(I, i) < Rank(I, j)
<1> DEFINE A == {m \in I : m <= i}
           B == {m \in I : m <= j}
<1>0. i \in Nat /\ j \in Nat /\ \A m \in I : m \in Nat
  OBVIOUS
<1>1. A \subseteq B /\ B \subseteq I /\ j \in B /\ j \notin A
  <2>1. \A m \in I : m <= i => m <= j
    BY <1>0
  <2>2. j <= j /\ ~(j <= i)
    BY <1>0
  <2> QED  BY <2>1, <2>2
<1>2. IsFiniteSet(B) /\ IsFiniteSet(A)
  BY <1>1, FS_Subset
<1>3. Cardinality(A) \in Nat /\ Cardinality(B) \in Nat
  BY <1>2, FS_CardinalityType
<1>4. Cardinality(A) <= Cardinality(B) /\ Cardinality(A) # Cardinality(B)
  BY <1>1, <1>2, FS_Subset
<1> QED  BY <1>3, <1>4 DEF Rank

\* The ranks of n numbers are 1 .. n, each of one number.
LEMMA RankBijective ==
  ASSUME NEW I \in SUBSET Nat, IsFiniteSet(I)
  PROVE  /\ Cardinality(I) \in Nat
         /\ \A i \in I : Rank(I, i) \in 1 .. Cardinality(I)
         /\ \A k \in 1 .. Cardinality(I) : \E i \in I : Rank(I, i) = k
         /\ \A i, j \in I : Rank(I, i) = Rank(I, j) => i = j
<1> DEFINE n == Cardinality(I)
           f == [i \in I |-> Rank(I, i)]
<1>1. n \in Nat
  BY FS_CardinalityType
<1>2. ASSUME NEW i \in I
      PROVE  Rank(I, i) \in 1 .. n
  <2> DEFINE A == {m \in I : m <= i}
  <2>1. A \subseteq I /\ i \in A
    OBVIOUS
  <2>2. IsFiniteSet(A) /\ Cardinality(A) <= n
    BY <2>1, FS_Subset
  <2>3. Cardinality(A) \in Nat /\ Cardinality(A) # 0
    BY <2>1, <2>2, FS_CardinalityType, FS_EmptySet
  <2> QED  BY <1>1, <2>2, <2>3 DEF Rank
<1>3. ASSUME NEW i \in I, NEW j \in I, Rank(I, i) = Rank(I, j)
      PROVE  i = j
  <2>1. Rank(I, i) \in Nat /\ Rank(I, j) \in Nat
    BY <1>1, <1>2
  <2>2. ~(i < j) /\ ~(j < i)
    BY <1>3, <2>1, RankGrows
  <2> QED  BY <2>2
<1>4. f \in Injection(I, 1 .. n)
  BY <1>2, <1>3 DEF Injection, IsInjective
<1>5. IsFiniteSet(1 .. n) /\ Cardinality(1 .. n) = n
  BY <1>1, FS_Interval
<1>6. f \in Surjection(I, 1 .. n)
  BY <1>4, <1>5, FS_Injection
<1>7. \A k \in 1 .. n : \E i \in I : Rank(I, i) = k
  BY <1>6 DEF Surjection
<1> QED  BY <1>1, <1>2, <1>3, <1>7

LEMMA NthSpec ==
  ASSUME NEW I \in SUBSET Nat, IsFiniteSet(I)
  PROVE  /\ \A k \in 1 .. Cardinality(I) : Nth(I, k) \in I /\ Rank(I, Nth(I, k)) = k
         /\ \A i \in I : Nth(I, Rank(I, i)) = i
<1>1. \A k \in 1 .. Cardinality(I) : Nth(I, k) \in I /\ Rank(I, Nth(I, k)) = k
  BY RankBijective DEF Nth
<1>2. ASSUME NEW i \in I PROVE Nth(I, Rank(I, i)) = i
  <2>1. Rank(I, i) \in 1 .. Cardinality(I)
    BY RankBijective
  <2>2. Nth(I, Rank(I, i)) \in I /\ Rank(I, Nth(I, Rank(I, i))) = Rank(I, i)
    BY <1>1, <2>1
  <2>3. \A m, n \in I : Rank(I, m) = Rank(I, n) => m = n
    BY RankBijective
  <2> QED  BY <2>2, <2>3
<1> QED  BY <1>1, <1>2

\* The k-th number comes before those after it.
LEMMA NthGrows ==
  ASSUME NEW I \in SUBSET Nat, IsFiniteSet(I),
         NEW k \in 1 .. Cardinality(I), NEW l \in 1 .. Cardinality(I), k < l
  PROVE  Nth(I, k) < Nth(I, l)
<1>1. /\ Nth(I, k) \in I /\ Rank(I, Nth(I, k)) = k
      /\ Nth(I, l) \in I /\ Rank(I, Nth(I, l)) = l
  BY NthSpec
<1>0. Cardinality(I) \in Nat
  BY RankBijective
<1>2. k \in Nat /\ l \in Nat /\ Nth(I, k) \in Nat /\ Nth(I, l) \in Nat
  <2>1. k \in Nat /\ l \in Nat
    BY <1>0
  <2>2. \A i \in I : i \in Nat
    OBVIOUS
  <2> QED  BY <1>1, <2>1, <2>2
<1>3. CASE Nth(I, l) < Nth(I, k)
  <2>1. l < k  BY <1>1, <1>3, RankGrows
  <2> QED  BY <1>2, <2>1
<1>4. CASE Nth(I, l) = Nth(I, k)
  BY <1>1, <1>2, <1>4
<1> QED  BY <1>2, <1>3, <1>4

\* Where nothing is skipped before the end the k-th position is k.
LEMMA NthOfPrefix ==
  ASSUME NEW n \in Nat, NEW k \in 1 .. n
  PROVE  Nth(1 .. n, k) = k
<1>1. IsFiniteSet(1 .. n) /\ 1 .. n \in SUBSET Nat
  BY FS_Interval
<1>2. {j \in 1 .. n : j <= k} = 1 .. k /\ k \in Nat /\ k >= 1
  OBVIOUS
<1>3. Cardinality(1 .. k) = k
  BY <1>2, FS_Interval
<1>4. Rank(1 .. n, k) = k
  BY <1>2, <1>3 DEF Rank
<1> QED  BY <1>1, <1>4, NthSpec

LEMMA PositionsFinite ==
  ASSUME NEW T, NEW s \in Seq(T), NEW I \in SUBSET DOMAIN s
  PROVE  /\ IsFiniteSet(I) /\ Cardinality(I) <= Len(s) /\ Cardinality(I) \in Nat
         /\ I \in SUBSET Nat
<1>1. DOMAIN s = 1 .. Len(s) /\ Len(s) \in Nat
  OBVIOUS
<1>2. IsFiniteSet(1 .. Len(s)) /\ Cardinality(1 .. Len(s)) = Len(s)
  BY <1>1, UpTo
<1>3. I \in SUBSET (1 .. Len(s))
  BY <1>1
<1>4. IsFiniteSet(I) /\ Cardinality(I) <= Len(s)
  BY <1>2, <1>3, FS_Subset
<1> QED  BY <1>3, <1>4, FS_CardinalityType

\* Select returns a sequence no longer than the one it is given, of elements at the
\* positions asked for, all of them, in their order.
LEMMA SelectSpec ==
  ASSUME NEW T, NEW s \in Seq(T), NEW I \in SUBSET DOMAIN s
  PROVE  /\ Select(s, I) \in Seq(T)
         /\ Len(Select(s, I)) \in Nat
         /\ Len(Select(s, I)) <= Len(s)
         /\ DOMAIN Select(s, I) = 1 .. Cardinality(I)
         /\ Len(Select(s, I)) = Cardinality(I)
         /\ \A k \in DOMAIN Select(s, I) : Nth(I, k) \in I /\ Select(s, I)[k] = s[Nth(I, k)]
         /\ \A i \in I : \E k \in DOMAIN Select(s, I) : Nth(I, k) = i
         /\ \A k, l \in DOMAIN Select(s, I) : k < l => Nth(I, k) < Nth(I, l)
<1>1. DOMAIN s = 1 .. Len(s) /\ Len(s) \in Nat
  OBVIOUS
<1>2. /\ IsFiniteSet(I) /\ Cardinality(I) <= Len(s) /\ Cardinality(I) \in Nat
      /\ I \in SUBSET Nat
  BY PositionsFinite
<1>3. \A k \in 1 .. Cardinality(I) : Nth(I, k) \in I
  BY <1>2, NthSpec
<1>4. \A k \in 1 .. Cardinality(I) : s[Nth(I, k)] \in T
  BY <1>1, <1>3
<1>5. /\ Select(s, I) \in Seq(T)
      /\ DOMAIN Select(s, I) = 1 .. Cardinality(I)
      /\ Len(Select(s, I)) = Cardinality(I)
      /\ \A k \in DOMAIN Select(s, I) : Select(s, I)[k] = s[Nth(I, k)]
  BY <1>2, <1>4 DEF Select
<1>6. ASSUME NEW i \in I PROVE \E k \in DOMAIN Select(s, I) : Nth(I, k) = i
  BY <1>2, <1>5, RankBijective, NthSpec
<1>7. \A k, l \in 1 .. Cardinality(I) : k < l => Nth(I, k) < Nth(I, l)
  BY <1>2, NthGrows
<1> QED  BY <1>2, <1>3, <1>5, <1>6, <1>7

\* What is skipped at the end only leaves a prefix.
LEMMA SelectPrefix ==
  ASSUME NEW T, NEW s \in Seq(T), NEW I \in SUBSET DOMAIN s,
         \A i \in I : \A j \in DOMAIN s : j < i => j \in I,
         NEW k \in DOMAIN Select(s, I)
  PROVE  Select(s, I)[k] = s[k]
<1> DEFINE n == Cardinality(I)
<1>1. DOMAIN s = 1 .. Len(s) /\ Len(s) \in Nat
  OBVIOUS
<1>2. IsFiniteSet(I) /\ n \in Nat /\ n <= Len(s) /\ I \in SUBSET Nat
  BY PositionsFinite
<1>3. k \in 1 .. n /\ Nth(I, k) \in I /\ Rank(I, Nth(I, k)) = k
  BY <1>2, SelectSpec, NthSpec
<1> DEFINE i == Nth(I, k)
<1>4. {j \in I : j <= i} = 1 .. i
  BY <1>1, <1>2, <1>3
<1>5. i \in Nat /\ i >= 1 /\ Cardinality(1 .. i) = i
  BY <1>1, <1>2, <1>3, FS_Interval
<1>6. Rank(I, i) = i
  BY <1>4, <1>5, Zenon DEF Rank
<1>7. i = k
  BY <1>3, <1>6
<1> QED  BY <1>7, SelectSpec
=============================================================================
