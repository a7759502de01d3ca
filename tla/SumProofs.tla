------------------------------ MODULE SumProofs ------------------------------
(***************************************************************************)
(* What the recursive functions behind Sum and Those (Sums.tla) compute,   *)
(* for every length, and what the games need to know about remainders and  *)
(* sorted lists.  The induction is over a set of numbers                   *)
(* (IntervalInduction), from the least element of a set of naturals.       *)
(***************************************************************************)
EXTENDS Sums, TLAPS, WellFoundedInduction, FiniteSets, FiniteSetTheorems

\* A set of naturals that is not empty has a least element.
LEMMA NatLeast ==
  ASSUME NEW S \in SUBSET Nat, S # {}
  PROVE  \E x \in S : \A y \in S : x <= y
<1>1. \E x \in S : \A y \in S : ~ (<<y, x>> \in OpToRel(<, Nat))
  BY WFMin, NatLessThanWellFounded
<1>2. PICK x \in S : \A y \in S : ~ (<<y, x>> \in OpToRel(<, Nat))
  BY <1>1
<1>3. \A y \in S : ~(y < x)
  BY <1>2 DEF OpToRel
<1>4. QED
  BY <1>3

\* Least chooses it.
LEMMA LeastIsLeast ==
  ASSUME NEW S \in SUBSET Nat, S # {}
  PROVE  Least(S) \in S /\ \A y \in S : Least(S) <= y
BY NatLeast DEF Least

\* Induction on an interval, for the elements of a set.
LEMMA IntervalInduction ==
  ASSUME NEW n \in Nat, NEW T, 0 \in T,
         \A i \in 1 .. n : i - 1 \in T => i \in T
  PROVE  \A i \in 0 .. n : i \in T
<1> DEFINE S == {i \in 0 .. n : i \notin T}
<1>1. SUFFICES ASSUME S # {} PROVE FALSE
  OBVIOUS
<1>2. S \in SUBSET Nat
  OBVIOUS
<1>3. PICK m \in S : \A k \in S : m <= k
  <2> HIDE DEF S
  <2> QED
    BY <1>2, <1>1, NatLeast
<1>4. m \in 1 .. n /\ m - 1 \in 0 .. n
  BY <1>3
<1>5. m - 1 \in T
  BY <1>3, <1>4
<1>6. QED
  BY <1>3, <1>4, <1>5

\* g holds the partial sums of f up to f[0] + ... + f[n - 1].
PartialSums(g, f, n) ==
  g = [i \in 0 .. n |-> IF i = 0 THEN 0 ELSE g[i - 1] + f[i - 1]]

\* The partial sums exist, whatever f is.
LEMMA PartialSumsExist ==
  ASSUME NEW f, NEW n \in Nat
  PROVE  \E g : PartialSums(g, f, n)
<1> DEFINE T == {k \in Nat : \E g : PartialSums(g, f, k)}
<1>1. 0 \in T
  <2>1. PartialSums([i \in 0 .. 0 |-> 0], f, 0)
    BY DEF PartialSums
  <2>2. QED
    BY <2>1
<1>2. ASSUME NEW m \in 1 .. n, m - 1 \in T
      PROVE  m \in T
  <2>1. PICK g : PartialSums(g, f, m - 1)
    BY <1>2
  <2> DEFINE h == [i \in 0 .. m |-> IF i = m THEN g[m - 1] + f[m - 1] ELSE g[i]]
  <2>2. ASSUME NEW i \in 0 .. m
        PROVE  h[i] = IF i = 0 THEN 0 ELSE h[i - 1] + f[i - 1]
    <3>1. CASE i = m
      BY <3>1
    <3>2. CASE i # m
      <4>1. i \in 0 .. m - 1
        BY <3>2
      <4>2. g[i] = IF i = 0 THEN 0 ELSE g[i - 1] + f[i - 1]
        BY <2>1, <4>1 DEF PartialSums
      <4>3. QED
        BY <3>2, <4>1, <4>2
    <3>3. QED
      BY <3>1, <3>2
  <2>3. PartialSums(h, f, m)
    BY <2>2 DEF PartialSums
  <2>4. QED
    BY <2>3
<1>3. \A i \in 0 .. n : i \in T
  BY <1>1, <1>2, IntervalInduction
<1>4. QED
  BY <1>3

\* Sum(f, n) is the last partial sum of the first n values of f.
LEMMA SumIsPartialSum ==
  ASSUME NEW f, NEW n \in Nat
  PROVE  \E g : PartialSums(g, f, n) /\ Sum(f, n) = g[n]
<1> DEFINE sum == CHOOSE g : g = [i \in 0 .. n |-> IF i = 0 THEN 0 ELSE g[i - 1] + f[i - 1]]
<1>1. PartialSums(sum, f, n)
  BY PartialSumsExist, Zenon DEF PartialSums
<1>2. Sum(f, n) = sum[n]
  BY Zenon DEF Sum
<1>3. QED
  BY <1>1, <1>2

\* Partial sums of the same values agree.
LEMMA PartialSumsAgree ==
  ASSUME NEW f, NEW n \in Nat, NEW m \in Nat, n <= m,
         NEW g, PartialSums(g, f, n),
         NEW k, PartialSums(k, f, m)
  PROVE  g[n] = k[n]
<1> DEFINE T == {i \in 0 .. n : g[i] = k[i]}
<1>1. 0 \in T
  BY DEF PartialSums
<1>2. ASSUME NEW i \in 1 .. n, i - 1 \in T
      PROVE  i \in T
  BY <1>2 DEF PartialSums
<1>3. \A i \in 0 .. n : i \in T
  <2> HIDE DEF T
  <2> QED
    BY <1>1, <1>2, IntervalInduction
<1>4. QED
  BY <1>3

\* The sum of no value, and of one value more.
LEMMA SumZero ==
  ASSUME NEW f
  PROVE  Sum(f, 0) = 0
BY SumIsPartialSum DEF PartialSums

\* The sum of one value more.
LEMMA SumStep ==
  ASSUME NEW f, NEW n \in Nat
  PROVE  Sum(f, n + 1) = Sum(f, n) + f[n]
<1>1. PICK g : PartialSums(g, f, n) /\ Sum(f, n) = g[n]
  BY SumIsPartialSum
<1>2. PICK k : PartialSums(k, f, n + 1) /\ Sum(f, n + 1) = k[n + 1]
  BY SumIsPartialSum
<1>3. g[n] = k[n]
  BY <1>1, <1>2, PartialSumsAgree, n + 1 \in Nat, n <= n + 1
<1>4. k[n + 1] = k[n] + f[n]
  BY <1>2 DEF PartialSums
<1>5. QED
  BY <1>1, <1>2, <1>3, <1>4

\* The sum depends on the values it adds, and on nothing else.
LEMMA SumSame ==
  ASSUME NEW f, NEW h, NEW n \in Nat, \A i \in 0 .. n - 1 : f[i] = h[i]
  PROVE  Sum(f, n) = Sum(h, n)
<1>1. PICK g : PartialSums(g, f, n) /\ Sum(f, n) = g[n]
  BY SumIsPartialSum
<1>2. PICK k : PartialSums(k, h, n) /\ Sum(h, n) = k[n]
  BY SumIsPartialSum
<1>3. PartialSums(g, h, n)
  BY <1>1 DEF PartialSums
<1>4. QED
  BY <1>1, <1>2, <1>3, PartialSumsAgree, n <= n

\* A sum of integers is an integer.
LEMMA SumInt ==
  ASSUME NEW f, NEW n \in Nat, \A i \in 0 .. n - 1 : f[i] \in Int
  PROVE  Sum(f, n) \in Int
<1> DEFINE T == {i \in 0 .. n : Sum(f, i) \in Int}
<1>1. 0 \in T
  BY SumZero
<1>2. ASSUME NEW i \in 1 .. n, i - 1 \in T
      PROVE  i \in T
  BY <1>2, SumStep, i - 1 \in Nat, (i - 1) + 1 = i
<1>3. \A i \in 0 .. n : i \in T
  <2> HIDE DEF T
  <2> QED
    BY <1>1, <1>2, IntervalInduction
<1>4. QED
  BY <1>3

\* Term by term: what is true of the values is true of the sums.
LEMMA SumLinear ==
  ASSUME NEW f, NEW g, NEW h, NEW n \in Nat,
         \A i \in 0 .. n - 1 : f[i] \in Int /\ g[i] \in Int /\ h[i] = f[i] + g[i]
  PROVE  Sum(h, n) = Sum(f, n) + Sum(g, n)
<1> DEFINE T == {i \in 0 .. n : Sum(h, i) = Sum(f, i) + Sum(g, i)}
<1>1. 0 \in T
  BY SumZero
<1>2. ASSUME NEW i \in 1 .. n, i - 1 \in T
      PROVE  i \in T
  <2>1. i - 1 \in Nat /\ (i - 1) + 1 = i
    OBVIOUS
  <2>2. Sum(f, i - 1) \in Int /\ Sum(g, i - 1) \in Int
    BY SumInt, <2>1
  <2>3. /\ Sum(f, i) = Sum(f, i - 1) + f[i - 1]
        /\ Sum(g, i) = Sum(g, i - 1) + g[i - 1]
        /\ Sum(h, i) = Sum(h, i - 1) + h[i - 1]
    BY SumStep, <2>1
  <2>4. QED
    BY <1>2, <2>2, <2>3
<1>3. \A i \in 0 .. n : i \in T
  <2> HIDE DEF T
  <2> QED
    BY <1>1, <1>2, IntervalInduction
<1>4. QED
  BY <1>3

\* Greater values have a sum that is no less.
LEMMA SumMonotone ==
  ASSUME NEW f, NEW h, NEW n \in Nat,
         \A i \in 0 .. n - 1 : f[i] \in Int /\ h[i] \in Int /\ f[i] <= h[i]
  PROVE  Sum(f, n) <= Sum(h, n)
<1> DEFINE T == {i \in 0 .. n : Sum(f, i) <= Sum(h, i)}
<1>1. 0 \in T
  BY SumZero
<1>2. ASSUME NEW i \in 1 .. n, i - 1 \in T
      PROVE  i \in T
  <2>1. i - 1 \in Nat /\ (i - 1) + 1 = i
    OBVIOUS
  <2>2. Sum(f, i - 1) \in Int /\ Sum(h, i - 1) \in Int
    BY SumInt, <2>1
  <2>3. /\ Sum(f, i) = Sum(f, i - 1) + f[i - 1]
        /\ Sum(h, i) = Sum(h, i - 1) + h[i - 1]
    BY SumStep, <2>1
  <2>4. QED
    BY <1>2, <2>2, <2>3
<1>3. \A i \in 0 .. n : i \in T
  <2> HIDE DEF T
  <2> QED
    BY <1>1, <1>2, IntervalInduction
<1>4. QED
  BY <1>3

\* Changing one value changes the sum by as much.
LEMMA SumChange ==
  ASSUME NEW f, NEW h, NEW n \in Nat, NEW j \in 0 .. n - 1, NEW d \in Int,
         \A i \in 0 .. n - 1 : f[i] \in Int,
         h[j] = f[j] + d,
         \A i \in 0 .. n - 1 : i # j => h[i] = f[i]
  PROVE  Sum(h, n) = Sum(f, n) + d
<1> DEFINE T == {i \in 0 .. n : Sum(h, i) = Sum(f, i) + (IF i > j THEN d ELSE 0)}
<1>1. 0 \in T
  BY SumZero
<1>2. ASSUME NEW i \in 1 .. n, i - 1 \in T
      PROVE  i \in T
  <2>1. i - 1 \in Nat /\ (i - 1) + 1 = i
    OBVIOUS
  <2>2. Sum(f, i - 1) \in Int
    BY SumInt, <2>1
  <2>3. /\ Sum(f, i) = Sum(f, i - 1) + f[i - 1]
        /\ Sum(h, i) = Sum(h, i - 1) + h[i - 1]
    BY SumStep, <2>1
  <2>4. f[i - 1] \in Int /\ h[i - 1] = f[i - 1] + (IF i - 1 = j THEN d ELSE 0)
    OBVIOUS
  <2>5. QED
    BY <1>2, <2>2, <2>3, <2>4
<1>3. \A i \in 0 .. n : i \in T
  <2> HIDE DEF T
  <2> QED
    BY <1>1, <1>2, IntervalInduction
<1>4. n \in T
  BY <1>3
<1>5. QED
  BY <1>4

\* The sum of naturals is a natural.
LEMMA SumNat ==
  ASSUME NEW f, NEW n \in Nat, \A i \in 0 .. n - 1 : f[i] \in Nat
  PROVE  Sum(f, n) \in Nat
<1> DEFINE z == [i \in 0 .. n - 1 |-> 0]
<1>1. Sum(z, n) = Sum(z, n) + Sum(z, n)
  BY SumLinear
<1>2. Sum(z, n) \in Int /\ Sum(f, n) \in Int
  BY SumInt
<1>3. Sum(z, n) <= Sum(f, n)
  BY SumMonotone
<1>4. QED
  BY <1>1, <1>2, <1>3

-----------------------------------------------------------------------------
(* Counting the members of a set of seats in their order.                  *)

\* How many members of S are below k.
Below(S, k) == Cardinality({i \in S : i < k})

\* One more number to be below: one more member, if it is one.
LEMMA BelowNext ==
  ASSUME NEW n \in Nat, NEW S \in SUBSET (0 .. n - 1), NEW k \in Nat
  PROVE  /\ Below(S, k) \in Nat
         /\ Below(S, k + 1) = Below(S, k) + (IF k \in S THEN 1 ELSE 0)
<1> DEFINE B == {i \in S : i < k}
           C == {i \in S : i < k + 1}
<1>0. \A i \in S : i \in 0 .. n - 1
  OBVIOUS
<1>1. IsFiniteSet(S)
  BY FS_Interval, FS_Subset, 0 \in Int, n - 1 \in Int
<1>2. IsFiniteSet(B) /\ B \subseteq S
  BY <1>1, FS_Subset
<1>3. Cardinality(B) \in Nat
  BY <1>2, FS_CardinalityType
<1>4. k \notin B
  OBVIOUS
<1>5. CASE k \in S
  <2>1. \A i \in S : i < k + 1 <=> i < k \/ i = k
    BY <1>0
  <2>2. C = B \cup {k}
    BY <1>5, <2>1
  <2>3. Cardinality(C) = Cardinality(B) + 1
    BY <1>2, <1>4, <2>2, FS_AddElement
  <2>4. QED
    BY <1>3, <1>5, <2>3 DEF Below
<1>6. CASE k \notin S
  <2>1. \A i \in S : i < k + 1 <=> i < k
    BY <1>0, <1>6
  <2>2. C = B
    BY <2>1
  <2>3. QED
    BY <1>3, <1>6, <2>2 DEF Below
<1>7. QED
  BY <1>5, <1>6

\* None is below the first number, and all are below n.
LEMMA BelowEnds ==
  ASSUME NEW n \in Nat, NEW S \in SUBSET (0 .. n - 1)
  PROVE  Below(S, 0) = 0 /\ Below(S, n) = Cardinality(S)
<1>1. \A i \in S : i \in 0 .. n - 1
  OBVIOUS
<1>2. \A i \in S : ~(i < 0) /\ i < n
  BY <1>1
<1>3. {i \in S : i < 0} = {} /\ {i \in S : i < n} = S
  BY <1>2
<1>4. QED
  BY <1>3, FS_EmptySet DEF Below

\* As much for every member of S, and nothing for the others.
LEMMA SumOfMembers ==
  ASSUME NEW f, NEW n \in Nat, NEW S \in SUBSET (0 .. n - 1), NEW q \in Int,
         \A i \in 0 .. n - 1 : f[i] = IF i \in S THEN q ELSE 0
  PROVE  Sum(f, n) = q * Cardinality(S)
<1> DEFINE T == {k \in 0 .. n : Sum(f, k) = q * Below(S, k)}
<1>1. 0 \in T
  BY SumZero, BelowEnds
<1>2. ASSUME NEW k \in 1 .. n, k - 1 \in T
      PROVE  k \in T
  <2>1. k - 1 \in Nat /\ (k - 1) + 1 = k /\ k - 1 \in 0 .. n - 1
    OBVIOUS
  <2>2. Sum(f, k) = Sum(f, k - 1) + f[k - 1]
    BY SumStep, <2>1
  <2>3. /\ Below(S, k - 1) \in Nat
        /\ Below(S, k) = Below(S, k - 1) + (IF k - 1 \in S THEN 1 ELSE 0)
    <3> HIDE DEF T
    <3>1. PICK j \in Nat : j = k - 1 /\ j + 1 = k
      BY <2>1
    <3>2. /\ Below(S, j) \in Nat
          /\ Below(S, j + 1) = Below(S, j) + (IF j \in S THEN 1 ELSE 0)
      BY BelowNext
    <3> QED
      BY <3>1, <3>2
  <2>4. f[k - 1] = IF k - 1 \in S THEN q ELSE 0
    BY <2>1
  <2>5. Sum(f, k - 1) = q * Below(S, k - 1)
    BY <1>2
  <2> DEFINE b == Below(S, k - 1)
  <2>6. q * (b + 1) = q * b + q
    BY <2>3
  <2>7. CASE k - 1 \in S
    BY <2>2, <2>3, <2>4, <2>5, <2>6, <2>7
  <2>8. CASE k - 1 \notin S
    BY <2>2, <2>3, <2>4, <2>5, <2>8
  <2>9. QED
    BY <2>7, <2>8
<1>3. \A k \in 0 .. n : k \in T
  <2> HIDE DEF T
  <2> QED
    BY <1>1, <1>2, IntervalInduction
<1>4. n \in T
  BY <1>3
<1>5. QED
  BY <1>4, BelowEnds

\* One for each of the first c members of S.
LEMMA SumOfFirst ==
  ASSUME NEW f, NEW n \in Nat, NEW S \in SUBSET (0 .. n - 1), NEW c \in Nat,
         c <= Cardinality(S),
         \A i \in 0 .. n - 1 : f[i] = IF i \in S /\ Below(S, i) < c THEN 1 ELSE 0
  PROVE  Sum(f, n) = c
<1> DEFINE T == {k \in 0 .. n : Sum(f, k) = IF Below(S, k) < c THEN Below(S, k) ELSE c}
<1>1. 0 \in T
  BY SumZero, BelowEnds
<1>2. ASSUME NEW k \in 1 .. n, k - 1 \in T
      PROVE  k \in T
  <2>1. k - 1 \in Nat /\ (k - 1) + 1 = k /\ k - 1 \in 0 .. n - 1
    OBVIOUS
  <2>2. Sum(f, k) = Sum(f, k - 1) + f[k - 1]
    BY SumStep, <2>1
  <2>3. /\ Below(S, k - 1) \in Nat
        /\ Below(S, k) = Below(S, k - 1) + (IF k - 1 \in S THEN 1 ELSE 0)
    <3> HIDE DEF T
    <3>1. PICK j \in Nat : j = k - 1 /\ j + 1 = k
      BY <2>1
    <3>2. /\ Below(S, j) \in Nat
          /\ Below(S, j + 1) = Below(S, j) + (IF j \in S THEN 1 ELSE 0)
      BY BelowNext
    <3> QED
      BY <3>1, <3>2
  <2>4. f[k - 1] = IF k - 1 \in S /\ Below(S, k - 1) < c THEN 1 ELSE 0
    BY <2>1
  <2>5. Sum(f, k - 1) = IF Below(S, k - 1) < c THEN Below(S, k - 1) ELSE c
    BY <1>2
  <2>6. QED
    BY <2>2, <2>3, <2>4, <2>5
<1>3. \A k \in 0 .. n : k \in T
  <2> HIDE DEF T
  <2> QED
    BY <1>1, <1>2, IntervalInduction
<1>4. n \in T
  BY <1>3
<1>5. Cardinality(S) = Below(S, n)
  BY BelowEnds
<1>6. Below(S, n) \in Nat
  BY BelowNext
<1>7. QED
  BY <1>4, <1>5, <1>6

\* What is divided evenly and what is left over.
LEMMA Division ==
  ASSUME NEW a \in Nat, NEW b \in Nat \ {0}
  PROVE  /\ a \div b \in Nat /\ a % b \in 0 .. b - 1
         /\ a = (b * (a \div b)) + (a % b)
OBVIOUS

\* What is divided among the members of W, the odd ones going to the first, is
\* all there is.
LEMMA SharesAddUp ==
  ASSUME NEW f, NEW n \in Nat, NEW W \in SUBSET (0 .. n - 1), W # {}, NEW total \in Nat,
         \A i \in 0 .. n - 1 :
           f[i] = IF i \in W
                  THEN (total \div Cardinality(W))
                       + (IF Below(W, i) < total % Cardinality(W) THEN 1 ELSE 0)
                  ELSE 0
  PROVE  Sum(f, n) = total
<1>1. IsFiniteSet(W)
  BY FS_Interval, FS_Subset, 0 \in Int, n - 1 \in Int
<1>2. PICK size \in Nat \ {0} : size = Cardinality(W)
  BY <1>1, FS_CardinalityType, FS_EmptySet
<1>3. PICK q \in Nat, c \in 0 .. size - 1 :
        q = total \div size /\ c = total % size /\ total = (size * q) + c
  BY Division
<1> DEFINE even == [i \in 0 .. n - 1 |-> IF i \in W THEN q ELSE 0]
           odd  == [i \in 0 .. n - 1 |-> IF i \in W /\ Below(W, i) < c THEN 1 ELSE 0]
<1>4. \A i \in 0 .. n - 1 : /\ even[i] = IF i \in W THEN q ELSE 0
                            /\ odd[i] = IF i \in W /\ Below(W, i) < c THEN 1 ELSE 0
  OBVIOUS
<1> HIDE DEF even, odd
<1>5. ASSUME NEW i \in 0 .. n - 1
      PROVE  even[i] \in Int /\ odd[i] \in Int /\ f[i] = even[i] + odd[i]
  <2>1. f[i] = IF i \in W THEN q + (IF Below(W, i) < c THEN 1 ELSE 0) ELSE 0
    BY <1>2, <1>3
  <2>2. even[i] = IF i \in W THEN q ELSE 0
    BY <1>4
  <2>3. odd[i] = IF i \in W /\ Below(W, i) < c THEN 1 ELSE 0
    BY <1>4
  <2>4. QED
    BY <2>1, <2>2, <2>3
<1>6. Sum(f, n) = Sum(even, n) + Sum(odd, n)
  BY <1>5, SumLinear
<1>7. Sum(even, n) = q * Cardinality(W)
  BY <1>4, SumOfMembers
<1>8. Sum(odd, n) = c
  <2>1. c \in Nat /\ c <= Cardinality(W)
    BY <1>2
  <2>2. QED
    BY <1>4, <2>1, SumOfFirst
<1>9. q * size = size * q
  OBVIOUS
<1>10. QED
  BY <1>2, <1>3, <1>6, <1>7, <1>8, <1>9

\* A multiple of every value: the same multiple of the sum.
LEMMA SumScaled ==
  ASSUME NEW f, NEW h, NEW n \in Nat, NEW c \in Int,
         \A i \in 0 .. n - 1 : f[i] \in Int /\ h[i] = c * f[i]
  PROVE  Sum(h, n) = c * Sum(f, n)
<1> DEFINE T == {k \in 0 .. n : Sum(h, k) = c * Sum(f, k)}
<1>1. 0 \in T
  BY SumZero
<1>2. ASSUME NEW k \in 1 .. n, k - 1 \in T
      PROVE  k \in T
  <2>1. PICK j \in Nat : j = k - 1 /\ j + 1 = k /\ j \in 0 .. n - 1
    OBVIOUS
  <2>2. Sum(h, j + 1) = Sum(h, j) + h[j] /\ Sum(f, j + 1) = Sum(f, j) + f[j]
    BY SumStep
  <2>3. Sum(h, j) = c * Sum(f, j) /\ h[j] = c * f[j] /\ f[j] \in Int
    BY <1>2, <2>1
  <2>4. \A i \in 0 .. j - 1 : f[i] \in Int
    BY <2>1
  <2>5. Sum(f, j) \in Int
    BY <2>4, SumInt
  <2>6. \A x, y \in Int : c * (x + y) = (c * x) + (c * y)
    OBVIOUS
  <2>7. Sum(h, j + 1) = c * Sum(f, j + 1)
    BY <2>2, <2>3, <2>5, <2>6
  <2>8. QED
    BY <2>1, <2>7
<1>3. \A k \in 0 .. n : k \in T
  <2> HIDE DEF T
  <2> QED
    BY <1>1, <1>2, IntervalInduction
<1>4. QED
  BY <1>3

\* The n rows of the table a and its m columns, b, with the sum of each.
Table(a, b, n, m, rows, cols) ==
  /\ \A s \in 0 .. n - 1 : \A i \in 0 .. m - 1 : a[s][i] \in Int /\ b[i][s] = a[s][i]
  /\ \A s \in 0 .. n - 1 : rows[s] = Sum(a[s], m)
  /\ \A i \in 0 .. m - 1 : cols[i] = Sum(b[i], n)

\* Adding up the rows comes to what adding up the columns does.
LEMMA SumSwap ==
  ASSUME NEW n \in Nat, NEW m \in Nat, NEW a, NEW b, NEW rows, NEW cols,
         Table(a, b, n, m, rows, cols)
  PROVE  Sum(rows, n) = Sum(cols, m)
<1> DEFINE part(k) == [s \in 0 .. n - 1 |-> Sum(a[s], k)]
           T       == {k \in 0 .. m : Sum(part(k), n) = Sum(cols, k)}
<1>0. /\ \A s \in 0 .. n - 1 : \A i \in 0 .. m - 1 : a[s][i] \in Int /\ b[i][s] = a[s][i]
      /\ \A s \in 0 .. n - 1 : rows[s] = Sum(a[s], m)
      /\ \A i \in 0 .. m - 1 : cols[i] = Sum(b[i], n)
  BY DEF Table
<1>1. 0 \in T
  <2>1. \A s \in 0 .. n - 1 : part(0)[s] = 0
    BY SumZero
  <2>2. \A s \in 0 .. n - 1 : /\ part(0)[s] \in Int /\ 0 \in Int
                              /\ part(0)[s] = 0 * part(0)[s]
    BY <2>1
  <2> HIDE DEF part
  <2>3. Sum(part(0), n) = 0 * Sum(part(0), n)
    BY <2>2, SumScaled, 0 \in Int
  <2>4. Sum(part(0), n) \in Int
    BY <2>2, SumInt
  <2>5. QED
    BY <2>3, <2>4, SumZero
<1>2. ASSUME NEW k \in 1 .. m, k - 1 \in T
      PROVE  k \in T
  <2>1. PICK j \in Nat : j = k - 1 /\ j + 1 = k /\ j \in 0 .. m - 1
    OBVIOUS
  <2>2. Sum(part(j), n) = Sum(cols, j)
    BY <1>2, <2>1
  <2>3. ASSUME NEW s \in 0 .. n - 1
        PROVE  /\ part(j)[s] \in Int /\ b[j][s] \in Int
               /\ part(k)[s] = part(j)[s] + b[j][s]
    <3>1. \A i \in 0 .. j - 1 : a[s][i] \in Int
      BY <1>0, <2>1
    <3>2. Sum(a[s], j) \in Int
      BY <3>1, SumInt
    <3>3. Sum(a[s], j + 1) = Sum(a[s], j) + a[s][j]
      BY SumStep
    <3>4. QED
      BY <1>0, <2>1, <3>2, <3>3
  <2>4. Sum(b[j], n) = cols[j]
    BY <1>0, <2>1
  <2> HIDE DEF part
  <2>5. Sum(part(k), n) = Sum(part(j), n) + Sum(b[j], n)
    BY <2>3, SumLinear
  <2>6. Sum(cols, j + 1) = Sum(cols, j) + cols[j]
    BY SumStep
  <2>7. QED
    BY <2>1, <2>2, <2>4, <2>5, <2>6
<1>3. \A k \in 0 .. m : k \in T
  <2> HIDE DEF T
  <2> QED
    BY <1>1, <1>2, IntervalInduction
<1>4. Sum(part(m), n) = Sum(cols, m)
  <2> HIDE DEF T
  <2>1. m \in T
    BY <1>3
  <2> HIDE DEF part
  <2>2. QED
    BY <2>1 DEF T
<1>5. \A s \in 0 .. n - 1 : part(m)[s] = rows[s]
  BY <1>0
<1> HIDE DEF part
<1>6. Sum(part(m), n) = Sum(rows, n)
  BY <1>5, SumSame
<1>7. QED
  BY <1>4, <1>6

-----------------------------------------------------------------------------
(* Lists of players.                                                       *)

\* t holds the selections of the first i of seq, for i up to n.
Selections(t, seq, S, n) ==
  t = [i \in 0 .. n |->
         IF i = 0 THEN <<>>
         ELSE IF seq[i] \in S THEN Append(t[i - 1], seq[i]) ELSE t[i - 1]]

\* They exist, whatever is selected.
LEMMA SelectionsExist ==
  ASSUME NEW seq, NEW S, NEW n \in Nat
  PROVE  \E t : Selections(t, seq, S, n)
<1> DEFINE T == {k \in Nat : \E t : Selections(t, seq, S, k)}
<1>1. 0 \in T
  <2>1. Selections([i \in 0 .. 0 |-> <<>>], seq, S, 0)
    BY DEF Selections
  <2>2. QED
    BY <2>1
<1>2. ASSUME NEW m \in 1 .. n, m - 1 \in T
      PROVE  m \in T
  <2>1. PICK t : Selections(t, seq, S, m - 1)
    BY <1>2
  <2> DEFINE last == IF seq[m] \in S THEN Append(t[m - 1], seq[m]) ELSE t[m - 1]
             h == [i \in 0 .. m |-> IF i = m THEN last ELSE t[i]]
  <2>2. ASSUME NEW i \in 0 .. m
        PROVE  h[i] = IF i = 0 THEN <<>>
                      ELSE IF seq[i] \in S THEN Append(h[i - 1], seq[i]) ELSE h[i - 1]
    <3>1. CASE i = m
      BY <3>1
    <3>2. CASE i # m
      <4>1. i \in 0 .. m - 1
        BY <3>2
      <4>2. t[i] = IF i = 0 THEN <<>>
                   ELSE IF seq[i] \in S THEN Append(t[i - 1], seq[i]) ELSE t[i - 1]
        BY <2>1, <4>1 DEF Selections
      <4>3. QED
        BY <3>2, <4>1, <4>2
    <3>3. QED
      BY <3>1, <3>2
  <2>3. Selections(h, seq, S, m)
    BY <2>2 DEF Selections
  <2>4. QED
    BY <2>3
<1>3. \A i \in 0 .. n : i \in T
  BY <1>1, <1>2, IntervalInduction
<1>4. QED
  BY <1>3

\* Those(seq, S) is the last selection.
LEMMA ThoseAreSelections ==
  ASSUME NEW seq, NEW S, Len(seq) \in Nat
  PROVE  \E t : Selections(t, seq, S, Len(seq)) /\ Those(seq, S) = t[Len(seq)]
<1> DEFINE those == CHOOSE g : g = [i \in 0 .. Len(seq) |->
               IF i = 0 THEN <<>>
               ELSE IF seq[i] \in S THEN Append(g[i - 1], seq[i]) ELSE g[i - 1]]
<1>1. \E t : Selections(t, seq, S, Len(seq))
  BY SelectionsExist
<1>2. Selections(those, seq, S, Len(seq))
  BY <1>1, Zenon DEF Selections
<1>3. Those(seq, S) = those[Len(seq)]
  BY Zenon DEF Those
<1>4. QED
  BY <1>2, <1>3

\* Those who are left are on a list of their own: nobody else is on it, they all are,
\* and nobody is on it twice.
LEMMA ThoseAreListed ==
  ASSUME NEW A, NEW seq \in Seq(A), NEW S,
         \A a, b \in DOMAIN seq : seq[a] = seq[b] => a = b
  PROVE  LET l == Those(seq, S)
         IN  /\ l \in Seq(A)
             /\ Len(l) <= Len(seq)
             /\ {l[i] : i \in DOMAIN l} = {seq[i] : i \in DOMAIN seq} \cap S
             /\ \A a, b \in DOMAIN l : l[a] = l[b] => a = b
<1> DEFINE n == Len(seq)
<1>1. n \in Nat /\ DOMAIN seq = 1 .. n
  OBVIOUS
<1>2. PICK t : Selections(t, seq, S, n) /\ Those(seq, S) = t[n]
  BY <1>1, ThoseAreSelections
<1> DEFINE Good(l, k) ==
             /\ l \in Seq(A) /\ Len(l) <= k
             /\ \A x : (\E i \in 1 .. Len(l) : l[i] = x) <=> (x \in S /\ \E i \in 1 .. k : seq[i] = x)
             /\ \A a, b \in 1 .. Len(l) : l[a] = l[b] => a = b
           T == {k \in 0 .. n : Good(t[k], k)}
<1>4. 0 \in T
  <2>1. t[0] = <<>> /\ 0 \in 0 .. n
    BY <1>1, <1>2 DEF Selections
  <2>2. Good(<<>>, 0)
    OBVIOUS
  <2> HIDE DEF Good
  <2>3. QED
    BY <2>1, <2>2
<1>5. ASSUME NEW k \in 1 .. n, k - 1 \in T
      PROVE  k \in T
  <2>1. k - 1 \in 0 .. n /\ k \in 0 .. n /\ Good(t[k - 1], k - 1)
    BY <1>1, <1>5
  <2>2. t[k] = IF seq[k] \in S THEN Append(t[k - 1], seq[k]) ELSE t[k - 1]
    <3>1. k \in 0 .. n /\ k # 0
      BY <1>1
    <3> HIDE DEF T, Good
    <3>2. QED
      BY <1>2, <3>1 DEF Selections
  <2>3. \A x : (\E i \in 1 .. k : seq[i] = x) <=> (x = seq[k] \/ \E i \in 1 .. k - 1 : seq[i] = x)
    BY <1>1, \A i \in 1 .. k : i = k \/ i \in 1 .. k - 1
  <2>4. CASE seq[k] \notin S
    <3>1. t[k] = t[k - 1] /\ Len(t[k - 1]) <= k
      BY <1>1, <2>1, <2>2, <2>4
    <3>2. \A x : (\E i \in 1 .. Len(t[k]) : t[k][i] = x) <=> (x \in S /\ \E i \in 1 .. k : seq[i] = x)
      BY <2>1, <2>3, <2>4, <3>1
    <3>3. QED
      BY <2>1, <3>1, <3>2
  <2>5. CASE seq[k] \in S
    <3> DEFINE l == t[k - 1]
               h == t[k]
    <3>1. h = Append(l, seq[k]) /\ l \in Seq(A) /\ seq[k] \in A
      BY <1>1, <2>1, <2>2, <2>5
    <3>2. /\ h \in Seq(A) /\ Len(h) = Len(l) + 1 /\ Len(l) \in Nat
          /\ h[Len(h)] = seq[k]
          /\ \A i \in 1 .. Len(l) : h[i] = l[i]
      <4> HIDE DEF l, h
      <4> QED
        BY <3>1
    <3>3. Len(l) <= k - 1
      BY <2>1
    <3>4. \A x : (\E i \in 1 .. Len(l) : l[i] = x) <=> (x \in S /\ \E i \in 1 .. k - 1 : seq[i] = x)
      BY <2>1
    <3>5. \A a, b \in 1 .. Len(l) : l[a] = l[b] => a = b
      BY <2>1
    <3> HIDE DEF l, h, T
    <3>6. \A i \in 1 .. Len(h) : i = Len(h) \/ i \in 1 .. Len(l)
      BY <3>2
    <3>7. ASSUME NEW x
          PROVE  (\E i \in 1 .. Len(h) : h[i] = x) <=> (x \in S /\ \E i \in 1 .. k : seq[i] = x)
      <4>1. (\E i \in 1 .. Len(h) : h[i] = x) <=> x = seq[k] \/ \E i \in 1 .. Len(l) : l[i] = x
        BY <3>2, <3>6
      <4>2. QED
        BY <4>1, <3>4, <2>3, <2>5
    <3>8. \A i \in 1 .. Len(l) : l[i] # seq[k]
      <4>1. SUFFICES ASSUME NEW i \in 1 .. Len(l), l[i] = seq[k] PROVE FALSE
        OBVIOUS
      <4>2. PICK j \in 1 .. k - 1 : seq[j] = seq[k]
        BY <3>4, <4>1
      <4>3. j = k
        BY <1>1, <4>2
      <4>4. QED
        BY <4>3
    <3>9. \A a, b \in 1 .. Len(h) : h[a] = h[b] => a = b
      BY <3>2, <3>5, <3>6, <3>8
    <3>10. Len(h) <= k
      BY <3>2, <3>3
    <3>11. QED
      BY <2>1, <3>2, <3>7, <3>9, <3>10 DEF T, h
  <2>6. QED
    BY <2>4, <2>5
<1>6. n \in T
  <2> HIDE DEF T
  <2> QED
    BY <1>1, <1>4, <1>5, IntervalInduction
<1>7. Good(t[n], n)
  BY <1>6
<1>8. DOMAIN t[n] = 1 .. Len(t[n])
  BY <1>7
<1>9. {t[n][i] : i \in DOMAIN t[n]} = {seq[i] : i \in DOMAIN seq} \cap S
  <2>1. \A x : (\E i \in DOMAIN t[n] : t[n][i] = x) <=> (x \in S /\ \E i \in DOMAIN seq : seq[i] = x)
    BY <1>1, <1>7, <1>8
  <2> HIDE DEF n
  <2>2. QED
    BY <2>1
<1>10. t[n] \in Seq(A) /\ Len(t[n]) <= n
  BY <1>7
<1>11. \A a, b \in DOMAIN t[n] : t[n][a] = t[n][b] => a = b
  BY <1>7, <1>8
<1>12. Those(seq, S) = t[n]
  BY <1>2
<1> HIDE DEF Good
<1>13. QED
  BY <1>9, <1>10, <1>11, <1>12

\* A list on which nobody is twice is as long as there are people on it.
LEMMA ListedOnce ==
  ASSUME NEW A, NEW seq \in Seq(A),
         \A a, b \in DOMAIN seq : seq[a] = seq[b] => a = b
  PROVE  /\ IsFiniteSet({seq[i] : i \in DOMAIN seq})
         /\ Cardinality({seq[i] : i \in DOMAIN seq}) = Len(seq)
<1> DEFINE R == {seq[i] : i \in DOMAIN seq}
<1>1. DOMAIN seq = 1 .. Len(seq) /\ Len(seq) \in Nat
  OBVIOUS
<1>2. seq \in [DOMAIN seq -> R]
  OBVIOUS
<1>3. seq \in Bijection(DOMAIN seq, R)
  BY <1>2 DEF Bijection, Injection, Surjection, IsInjective
<1>4. ExistsBijection(DOMAIN seq, R)
  BY <1>3 DEF ExistsBijection
<1>5. IsFiniteSet(DOMAIN seq) /\ Cardinality(DOMAIN seq) = Len(seq)
  BY <1>1, FS_Interval, 1 \in Int, Len(seq) \in Int
<1>6. QED
  BY <1>4, <1>5, FS_Bijection

\* The first of a list goes to its end.
LEMMA FirstGoesLast ==
  ASSUME NEW A, NEW seq \in Seq(A), seq # <<>>,
         \A a, b \in DOMAIN seq : seq[a] = seq[b] => a = b
  PROVE  LET l == Append(Tail(seq), Head(seq))
         IN  /\ l \in Seq(A)
             /\ Len(l) = Len(seq)
             /\ {l[i] : i \in DOMAIN l} = {seq[i] : i \in DOMAIN seq}
             /\ \A a, b \in DOMAIN l : l[a] = l[b] => a = b
<1> DEFINE l == Append(Tail(seq), Head(seq))
           n == Len(seq)
<1>1. n \in Nat /\ n >= 1 /\ DOMAIN seq = 1 .. n
  OBVIOUS
<1>2. l \in Seq(A) /\ Len(l) = n /\ DOMAIN l = 1 .. n
  OBVIOUS
<1>3. \A i \in 1 .. n : l[i] = IF i = n THEN seq[1] ELSE seq[i + 1]
  OBVIOUS
<1>3a. \A a, b \in 1 .. n : seq[a] = seq[b] => a = b
  BY <1>1
<1> HIDE DEF l, n
<1>4. \A a, b \in 1 .. n : l[a] = l[b] => a = b
  BY <1>1, <1>3, <1>3a
<1>5. \A i \in 1 .. n : \E j \in 1 .. n : l[i] = seq[j]
  BY <1>1, <1>3
<1>6. \A j \in 1 .. n : \E i \in 1 .. n : l[i] = seq[j]
  <2> TAKE j \in 1 .. n
  <2>1. CASE j = 1
    BY <1>1, <1>3, <2>1
  <2>2. CASE j # 1
    <3>1. j - 1 \in 1 .. n /\ l[j - 1] = seq[j]
      BY <1>1, <1>3, <2>2
    <3>2. QED
      BY <3>1
  <2>3. QED
    BY <2>1, <2>2
<1>7. {l[i] : i \in DOMAIN l} = {seq[i] : i \in DOMAIN seq}
  <2>1. \A i \in DOMAIN l : l[i] \in {seq[j] : j \in DOMAIN seq}
    BY <1>1, <1>2, <1>5
  <2>2. \A j \in DOMAIN seq : seq[j] \in {l[i] : i \in DOMAIN l}
    BY <1>1, <1>2, <1>6
  <2>3. QED
    BY <2>1, <2>2
<1>8. \A a, b \in DOMAIN l : l[a] = l[b] => a = b
  BY <1>2, <1>4
<1>9. QED
  BY <1>2, <1>7, <1>8 DEF l, n

-----------------------------------------------------------------------------
(* Remainders.                                                             *)

\* The remainder of a place at most once round the table.
LEMMA ModOnce ==
  ASSUME NEW m \in Nat \ {0}, NEW x \in Int, m <= x, x < 2 * m
  PROVE  x % m = x - m
BY SMTT(30)

\* Quotient and remainder of naturals are naturals.
LEMMA DivModNat ==
  ASSUME NEW x \in Nat, NEW m \in Nat \ {0}
  PROVE  x \div m \in Nat /\ x % m \in Nat
BY SMTT(30)

-----------------------------------------------------------------------------
(* Sorting.                                                                *)

\* seq lists the k elements of S in increasing order.
Increasing(seq, S, k) ==
  /\ seq \in [1 .. k -> S]
  /\ \A i, j \in 1 .. k : i < j => seq[i] < seq[j]
  /\ \A x \in S : \E i \in 1 .. k : seq[i] = x

\* Put the least element in front of the sorted rest.
LEMMA IncreasingCons ==
  ASSUME NEW S \in SUBSET Nat, NEW k \in Nat \ {0}, NEW m \in S, \A y \in S : m <= y,
         NEW rest, Increasing(rest, S \ {m}, k - 1)
  PROVE  \E seq : Increasing(seq, S, k)
<1> DEFINE seq == [i \in 1 .. k |-> IF i = 1 THEN m ELSE rest[i - 1]]
<1>1. \A i \in 1 .. k : i # 1 => i - 1 \in 1 .. k - 1 /\ rest[i - 1] \in S \ {m}
  BY DEF Increasing
<1>2. seq \in [1 .. k -> S]
  BY <1>1
<1>3. ASSUME NEW i \in 1 .. k, NEW j \in 1 .. k, i < j
      PROVE  seq[i] < seq[j]
  <2>1. j # 1
    BY <1>3
  <2>2. j # 1 /\ rest[j - 1] \in Nat /\ m <= rest[j - 1] /\ m # rest[j - 1]
    <3>1. rest[j - 1] \in S \ {m}
      BY <2>1, <1>1
    <3>2. QED
      BY <2>1, <3>1
  <2>3. CASE i = 1
    BY <2>2, <2>3
  <2>4. CASE i # 1
    <3>1. rest[i - 1] < rest[j - 1]
      BY <1>1, <1>3, <2>2, <2>4 DEF Increasing
    <3>2. QED
      BY <2>2, <2>4, <3>1
  <2>5. QED
    BY <2>3, <2>4
<1>4. ASSUME NEW x \in S
      PROVE  \E i \in 1 .. k : seq[i] = x
  <2>1. CASE x = m
    BY <2>1, 1 \in 1 .. k
  <2>2. CASE x # m
    <3>1. PICK i \in 1 .. k - 1 : rest[i] = x
      BY <2>2 DEF Increasing
    <3>2. i + 1 \in 1 .. k /\ i + 1 # 1 /\ (i + 1) - 1 = i
      OBVIOUS
    <3>3. seq[i + 1] = x
      BY <3>1, <3>2
    <3>4. QED
      BY <3>2, <3>3
  <2>3. QED
    BY <2>1, <2>2
<1>5. Increasing(seq, S, k)
  BY <1>2, <1>3, <1>4 DEF Increasing
<1>6. QED
  BY <1>5

\* Every finite set of naturals can be sorted.
LEMMA SortedExists ==
  ASSUME NEW S \in SUBSET Nat, IsFiniteSet(S)
  PROVE  \E seq : Increasing(seq, S, Cardinality(S))
<1> DEFINE T == {k \in Nat : \A R \in SUBSET Nat :
                   IsFiniteSet(R) /\ Cardinality(R) = k => \E seq : Increasing(seq, R, k)}
<1>1. 0 \in T
  <2>1. ASSUME NEW R \in SUBSET Nat, IsFiniteSet(R), Cardinality(R) = 0
        PROVE  \E seq : Increasing(seq, R, 0)
    <3>1. R = {}
      BY <2>1, FS_EmptySet
    <3>2. Increasing([i \in 1 .. 0 |-> 0], R, 0)
      BY <3>1 DEF Increasing
    <3>3. QED
      BY <3>2
  <2>2. QED
    BY <2>1
<1>2. ASSUME NEW k \in 1 .. Cardinality(S), k - 1 \in T
      PROVE  k \in T
  <2>1. ASSUME NEW R \in SUBSET Nat, IsFiniteSet(R), Cardinality(R) = k
        PROVE  \E seq : Increasing(seq, R, k)
    <3>1. k \in Nat \ {0}
      OBVIOUS
    <3>2. R # {}
      BY <2>1, <3>1, FS_EmptySet
    <3>3. PICK m \in R : \A y \in R : m <= y
      BY <3>2, NatLeast
    <3>4. IsFiniteSet(R \ {m}) /\ Cardinality(R \ {m}) = k - 1
      BY <2>1, FS_RemoveElement
    <3>5. PICK rest : Increasing(rest, R \ {m}, k - 1)
      BY <1>2, <3>4
    <3>6. QED
      BY <3>1, <3>3, <3>5, IncreasingCons
  <2>2. QED
    BY <2>1
<1>3. Cardinality(S) \in Nat
  BY FS_CardinalityType
<1>4. \A k \in 0 .. Cardinality(S) : k \in T
  <2> HIDE DEF T
  <2> QED
    BY <1>1, <1>2, <1>3, IntervalInduction
<1>5. QED
  BY <1>3, <1>4

=============================================================================
