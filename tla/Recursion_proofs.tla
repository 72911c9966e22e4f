------------------------- MODULE Recursion_proofs --------------------------
(***************************************************************************)
(* What the other proofs need to know of recursive functions.  A recursive *)
(* definition chooses some function that solves an equation, so that it    *)
(* takes a proof that there is one: LoopHasSolution gives it for loops,    *)
(* which refer to later places only, up to an end.  Induction is over a    *)
(* set of naturals, by its least element.                                  *)
(*                                                                         *)
(* Sums over a finite set are told by their prefix sums: the values of f   *)
(* on S add up to total when some prefix sums along the enumeration of S   *)
(* end in total.                                                           *)
(***************************************************************************)
EXTENDS Integers, FiniteSets, FiniteSetTheorems, WellFoundedInduction, TLAPS

-----------------------------------------------------------------------------

\* Every nonempty set of naturals has a least element.
LEMMA LeastNatural ==
  ASSUME NEW S \in SUBSET Nat, S # {}
  PROVE  \E m \in S : \A n \in S : m <= n
<1> DEFINE R == OpToRel(<, Nat)
<1>1. IsWellFoundedOn(R, Nat)
  BY NatLessThanWellFounded
<1>2. PICK m \in S : \A n \in S : ~(<<n, m>> \in R)
  <2> HIDE DEF R
  <2> QED BY <1>1, WFMin
<1>3. \A n \in S : ~(n < m)
  BY <1>2 DEF OpToRel
<1> QED BY <1>3

\* A set with 0 and, for each number below N it has, the next one, has all of
\* them up to N.
LEMMA SetInduction ==
  ASSUME NEW S \in SUBSET Nat, NEW N \in Nat, 0 \in S,
         \A n \in Nat : n \in S /\ n < N => n + 1 \in S
  PROVE  \A n \in 0..N : n \in S
<1> DEFINE Missing == {n \in 0..N : n \notin S}
<1>1. SUFFICES ASSUME Missing # {} PROVE FALSE
  OBVIOUS
<1>2. PICK n \in Missing : \A m \in Missing : n <= m
  <2>1. Missing \in SUBSET Nat
    OBVIOUS
  <2>. HIDE DEF Missing
  <2>. QED BY <1>1, <2>1, LeastNatural
<1>3. n \in 1..N /\ n - 1 \notin Missing
  BY <1>2
<1>4. n - 1 \in S /\ n - 1 < N /\ n - 1 \in Nat
  BY <1>3
<1>5. (n - 1) + 1 \in S
  BY <1>4
<1>. QED BY <1>2, <1>3, <1>5

\* The same from N down: what has every number from N on, and a number before N
\* when it has all later ones, has all.
LEMMA BackwardInduction ==
  ASSUME NEW S \in SUBSET Nat, NEW N \in Nat,
         \A b \in Nat : (b < N => \A c \in Nat : c > b => c \in S) => b \in S
  PROVE  \A b \in Nat : b \in S
<1> DEFINE Reached == {n \in Nat : \A b \in Nat : b + n >= N => b \in S}
<1>1. 0 \in Reached
  OBVIOUS
<1>2. ASSUME NEW n \in Nat, n \in Reached
      PROVE  n + 1 \in Reached
  <2>1. ASSUME NEW b \in Nat, b + (n + 1) >= N
        PROVE  b \in S
    <3>1. \A c \in Nat : c > b => c \in S
      BY <1>2, <2>1
    <3>. QED BY <3>1
  <2>. QED BY <2>1
<1>3. N \in Reached
  <2>1. Reached \in SUBSET Nat
    OBVIOUS
  <2>. HIDE DEF Reached
  <2>2. \A n \in Nat : n \in Reached /\ n < N => n + 1 \in Reached
    BY <1>2
  <2>3. \A n \in 0..N : n \in Reached
    BY <1>1, <2>1, <2>2, SetInduction
  <2>. QED BY <2>3
<1>. QED BY <1>3

\* The rounds of a loop before N refer to later rounds only, and those from N on
\* refer to none; the second is for loops that carry a number.
RefersLater(Round, W, N) ==
  \A f, g \in [Nat -> W], b \in Nat :
    (b < N => \A c \in Nat : c > b => f[c] = g[c]) => Round[f][b] = Round[g][b]

CountsLater(Round, V, N) ==
  \A f, g \in [Nat -> [Nat -> V]], b \in Nat, p \in Nat :
    (b < N => \A c \in Nat : c > b => f[c] = g[c]) => Round[f][b][p] = Round[g][b][p]

\* Such a loop has a solution.
LEMMA LoopHasSolution ==
  ASSUME NEW W, W # {}, NEW N \in Nat, NEW Round \in [[Nat -> W] -> [Nat -> W]],
         RefersLater(Round, W, N)
  PROVE  \E f \in [Nat -> W] : f = Round[f]
<1> DEFINE Solves(f, n) == \A b \in Nat : b + n >= N => f[b] = Round[f][b]
           Solved == {n \in Nat : \E f \in [Nat -> W] : Solves(f, n)}
<1>1. 0 \in Solved
  <2>1. PICK w \in W : TRUE
    OBVIOUS
  <2>. DEFINE h == [b \in Nat |-> w]
              f == Round[h]
  <2>2. h \in [Nat -> W] /\ f \in [Nat -> W]
    OBVIOUS
  <2>. HIDE DEF h, f
  <2>3. ASSUME NEW b \in Nat, b >= N
        PROVE  f[b] = Round[f][b]
    <3>1. Round[h][b] = Round[f][b]
      BY <2>2, <2>3 DEF RefersLater
    <3>. QED BY <3>1 DEF f
  <2>. QED BY <2>2, <2>3
<1>2. ASSUME NEW n \in Nat, n \in Solved, n < N
      PROVE  n + 1 \in Solved
  <2>1. PICK f \in [Nat -> W] : Solves(f, n)
    BY <1>2
  <2>. DEFINE at == N - n - 1
              g  == [f EXCEPT ![at] = Round[f][at]]
  <2>2. at \in Nat /\ at + (n + 1) = N
    BY <1>2
  <2>3. g \in [Nat -> W] /\ g[at] = Round[f][at] /\ \A b \in Nat : b # at => g[b] = f[b]
    BY <2>2
  <2>. HIDE DEF g, at
  <2>4. ASSUME NEW b \in Nat, b >= at
        PROVE  Round[f][b] = Round[g][b]
    BY <2>2, <2>3, <2>4 DEF RefersLater
  <2>5. ASSUME NEW b \in Nat, b + (n + 1) >= N
        PROVE  g[b] = Round[g][b]
    <3>1. b >= at
      BY <2>2, <2>5
    <3>2. CASE b = at
      BY <2>3, <2>4, <3>1, <3>2
    <3>3. CASE b # at
      <4>1. b + n >= N
        BY <2>2, <3>1, <3>3
      <4>. QED BY <2>1, <2>3, <2>4, <3>1, <3>3, <4>1
    <3>. QED BY <3>2, <3>3
  <2>. QED BY <2>3, <2>5
<1>3. N \in Solved
  <2>. HIDE DEF Solved
  <2>1. Solved \in SUBSET Nat
    BY DEF Solved
  <2>. QED BY <1>1, <1>2, <2>1, SetInduction
<1>4. PICK f \in [Nat -> W] : Solves(f, N)
  BY <1>3
<1>5. \A b \in Nat : f[b] = Round[f][b]
  BY <1>4
<1>. QED BY <1>5

\* The same for loops that carry a number.
LEMMA CountingLoopHasSolution ==
  ASSUME NEW V, V # {}, NEW N \in Nat,
         NEW Round \in [[Nat -> [Nat -> V]] -> [Nat -> [Nat -> V]]],
         CountsLater(Round, V, N)
  PROVE  \E f \in [Nat -> [Nat -> V]] : f = Round[f]
<1> DEFINE W == [Nat -> V]
<1>1. W # {}
  <2>1. PICK v \in V : TRUE
    OBVIOUS
  <2>2. [p \in Nat |-> v] \in W
    OBVIOUS
  <2>. QED BY <2>2
<1>2. ASSUME NEW f \in [Nat -> W], NEW g \in [Nat -> W], NEW b \in Nat,
             b < N => \A c \in Nat : c > b => f[c] = g[c]
      PROVE  Round[f][b] = Round[g][b]
  <2>1. Round[f][b] \in W /\ Round[g][b] \in W
    <3>1. Round[f] \in [Nat -> W] /\ Round[g] \in [Nat -> W]
      OBVIOUS
    <3>. HIDE DEF W
    <3>. QED BY <3>1
  <2>2. \A p \in Nat : Round[f][b][p] = Round[g][b][p]
    BY <1>2 DEF CountsLater
  <2>. QED BY <2>1, <2>2
<1>3. Round \in [[Nat -> W] -> [Nat -> W]]
  OBVIOUS
<1>. HIDE DEF W
<1>4. \E f \in [Nat -> W] : f = Round[f]
  <2>1. RefersLater(Round, W, N)
    BY <1>2 DEF RefersLater
  <2>. QED BY <1>1, <1>3, <2>1, LoopHasSolution
<1>. QED BY <1>4 DEF W

-----------------------------------------------------------------------------
(* Sums                                                                    *)

Size(S) == Cardinality(S)

\* The elements of S in some order, each of them once.
Enumeration(S) ==
  CHOOSE e \in [1..Size(S) -> S] :
    \A x \in S : \E k \in 1..Size(S) :
      e[k] = x /\ \A j \in 1..Size(S) : e[j] = x => j = k

IsPrefixSum(S, p, f) ==
  /\ p \in [0..Size(S) -> Nat]
  /\ p[0] = 0
  /\ \A i \in 1..Size(S) : p[i] = p[i - 1] + f[Enumeration(S)[i]]

AddUpTo(S, f, total) == \E p : IsPrefixSum(S, p, f) /\ p[Size(S)] = total

LEMMA EnumerationType ==
  ASSUME NEW S, IsFiniteSet(S)
  PROVE  /\ Size(S) \in Nat
         /\ Enumeration(S) \in [1..Size(S) -> S]
         /\ \A x \in S : \E k \in 1..Size(S) :
              /\ Enumeration(S)[k] = x
              /\ \A j \in 1..Size(S) : Enumeration(S)[j] = x => j = k
<1>1. Size(S) \in Nat
  BY FS_CardinalityType DEF Size
<1>2. PICK e \in [1..Size(S) -> S] : e \in Bijection(1..Size(S), S)
  BY FS_CardinalityType DEF Size, ExistsBijection, Bijection, Injection
<1>3. ASSUME NEW x \in S
      PROVE  \E k \in 1..Size(S) : e[k] = x /\ \A j \in 1..Size(S) : e[j] = x => j = k
  <2>1. PICK k \in 1..Size(S) : e[k] = x
    BY <1>2 DEF Bijection, Surjection
  <2>2. \A j \in 1..Size(S) : e[j] = x => j = k
    BY <1>2, <2>1 DEF Bijection, Injection, IsInjective
  <2> QED BY <2>1, <2>2
<1>4. \E g \in [1..Size(S) -> S] :
        \A x \in S : \E k \in 1..Size(S) :
          g[k] = x /\ \A j \in 1..Size(S) : g[j] = x => j = k
  BY <1>2, <1>3
<1> QED BY <1>1, <1>4 DEF Enumeration

\* Prefix sums of naturals grow: none exceeds a later one.
LEMMA PrefixSumsGrow ==
  ASSUME NEW S, IsFiniteSet(S), NEW f \in [S -> Nat], NEW p, IsPrefixSum(S, p, f),
         NEW k \in 0..Size(S), NEW i \in 0..Size(S), k <= i
  PROVE  p[k] <= p[i]
<1> DEFINE Falls == {j \in 0..Size(S) : k <= j /\ p[j] < p[k]}
<1>1. Size(S) \in Nat
  BY EnumerationType
<1>2. SUFFICES ASSUME Falls # {} PROVE FALSE
  <2>1. p[i] \in Nat /\ p[k] \in Nat
    BY <1>1 DEF IsPrefixSum
  <2>2. p[k] <= p[i] \/ p[i] < p[k]
    BY <2>1
  <2>. QED BY <2>2
<1>3. PICK j \in Falls : \A m \in Falls : j <= m
  <2>1. Falls \in SUBSET Nat
    BY <1>1
  <2> HIDE DEF Falls
  <2> QED BY <1>2, <2>1, LeastNatural
<1>4. j \in 1..Size(S) /\ j > k
  BY <1>1, <1>3 DEF IsPrefixSum
<1>5. f[Enumeration(S)[j]] \in Nat
  BY <1>4, EnumerationType
<1>6. p[j] = p[j - 1] + f[Enumeration(S)[j]]
  BY <1>4 DEF IsPrefixSum
<1>7. p[j - 1] \in Nat /\ p[j] \in Nat /\ p[k] \in Nat
  BY <1>1, <1>4, SMTT(30) DEF IsPrefixSum
<1>8. j - 1 \in Falls
  BY <1>1, <1>3, <1>4, <1>5, <1>6, <1>7
<1> QED BY <1>3, <1>4, <1>8, <1>1

\* Zeros add up to zero.
LEMMA ZerosAddUp ==
  ASSUME NEW S, IsFiniteSet(S), NEW f \in [S -> Nat], \A x \in S : f[x] = 0
  PROVE  AddUpTo(S, f, 0)
<1> DEFINE p == [i \in 0..Size(S) |-> 0]
<1>1. Size(S) \in Nat /\ \A i \in 1..Size(S) : Enumeration(S)[i] \in S
  BY EnumerationType
<1>2. IsPrefixSum(S, p, f)
  BY <1>1 DEF IsPrefixSum
<1>3. p[Size(S)] = 0
  BY <1>1
<1> HIDE DEF p
<1> QED BY <1>2, <1>3 DEF AddUpTo

\* No value exceeds the sum.
LEMMA SumBoundsEach ==
  ASSUME NEW S, IsFiniteSet(S), NEW f \in [S -> Nat], NEW total,
         AddUpTo(S, f, total), NEW x \in S
  PROVE  total \in Nat /\ f[x] <= total
<1>1. PICK p : IsPrefixSum(S, p, f) /\ p[Size(S)] = total
  BY DEF AddUpTo
<1>2. PICK k \in 1..Size(S) : Enumeration(S)[k] = x
  BY EnumerationType
<1>3. Size(S) \in Nat
  BY EnumerationType
<1>4. p[k] = p[k - 1] + f[x] /\ p[k - 1] \in Nat /\ p[k] \in Nat /\ total \in Nat
  BY <1>1, <1>2, <1>3 DEF IsPrefixSum
<1>5. p[k] <= p[Size(S)]
  BY <1>1, <1>3, PrefixSumsGrow
<1> QED BY <1>1, <1>4, <1>5

\* Adding n to one value adds n to the sum.
LEMMA SumIncreases ==
  ASSUME NEW S, IsFiniteSet(S), NEW f \in [S -> Nat], NEW total,
         AddUpTo(S, f, total), NEW x \in S, NEW n \in Nat
  PROVE  AddUpTo(S, [f EXCEPT ![x] = @ + n], total + n)
<1> DEFINE g == [f EXCEPT ![x] = @ + n]
<1>1. PICK p : IsPrefixSum(S, p, f) /\ p[Size(S)] = total
  BY DEF AddUpTo
<1>2. PICK k \in 1..Size(S) :
        Enumeration(S)[k] = x /\ \A j \in 1..Size(S) : Enumeration(S)[j] = x => j = k
  BY EnumerationType
<1>3. Size(S) \in Nat /\ \A i \in 1..Size(S) : Enumeration(S)[i] \in S
  BY EnumerationType
<1> DEFINE q == [i \in 0..Size(S) |-> IF i < k THEN p[i] ELSE p[i] + n]
<1>4. q \in [0..Size(S) -> Nat] /\ q[0] = 0
  BY <1>1, <1>3 DEF IsPrefixSum
<1>5. ASSUME NEW i \in 1..Size(S)
      PROVE  q[i] = q[i - 1] + g[Enumeration(S)[i]]
  <2>1. p[i] = p[i - 1] + f[Enumeration(S)[i]] /\ p[i] \in Nat /\ p[i - 1] \in Nat
    BY <1>1, <1>3 DEF IsPrefixSum
  <2>2. g[Enumeration(S)[i]] = f[Enumeration(S)[i]] + (IF i = k THEN n ELSE 0)
    BY <1>2, <1>3
  <2>3. f[Enumeration(S)[i]] \in Nat
    BY <1>3
  <2> QED BY <1>3, <2>1, <2>2, <2>3, SMTT(30)
<1>6. q[Size(S)] = total + n
  BY <1>1, <1>3
<1>7. IsPrefixSum(S, q, g)
  BY <1>4, <1>5 DEF IsPrefixSum
<1> QED BY <1>6, <1>7 DEF AddUpTo

\* Taking n from one value takes n from the sum.
LEMMA SumDecreases ==
  ASSUME NEW S, IsFiniteSet(S), NEW f \in [S -> Nat], NEW total,
         AddUpTo(S, f, total), NEW x \in S, NEW n \in Nat, n <= f[x]
  PROVE  AddUpTo(S, [f EXCEPT ![x] = @ - n], total - n)
<1> DEFINE g == [f EXCEPT ![x] = @ - n]
<1>1. PICK p : IsPrefixSum(S, p, f) /\ p[Size(S)] = total
  BY DEF AddUpTo
<1>2. PICK k \in 1..Size(S) :
        Enumeration(S)[k] = x /\ \A j \in 1..Size(S) : Enumeration(S)[j] = x => j = k
  BY EnumerationType
<1>3. Size(S) \in Nat /\ \A i \in 1..Size(S) : Enumeration(S)[i] \in S
  BY EnumerationType
<1> DEFINE q == [i \in 0..Size(S) |-> IF i < k THEN p[i] ELSE p[i] - n]
<1>4. \A i \in k..Size(S) : p[i] \in Nat /\ n <= p[i]
  <2>1. p[k] = p[k - 1] + f[x] /\ p[k - 1] \in Nat /\ p[k] \in Nat
    BY <1>1, <1>2, <1>3 DEF IsPrefixSum
  <2>2. n <= p[k]
    BY <2>1
  <2>3. \A i \in k..Size(S) : p[k] <= p[i]
    BY <1>1, <1>3, PrefixSumsGrow
  <2>4. \A i \in k..Size(S) : p[i] \in Nat
    BY <1>1, <1>3 DEF IsPrefixSum
  <2> QED BY <2>1, <2>2, <2>3, <2>4
<1>5. q \in [0..Size(S) -> Nat] /\ q[0] = 0
  BY <1>1, <1>3, <1>4 DEF IsPrefixSum
<1>6. ASSUME NEW i \in 1..Size(S)
      PROVE  q[i] = q[i - 1] + g[Enumeration(S)[i]]
  <2>1. p[i] \in Nat /\ p[i - 1] \in Nat /\ p[i] = p[i - 1] + f[Enumeration(S)[i]]
    <3>1. p \in [0..Size(S) -> Nat] /\ i \in 0..Size(S) /\ i - 1 \in 0..Size(S)
      BY <1>1, <1>3 DEF IsPrefixSum
    <3>2. p[i] = p[i - 1] + f[Enumeration(S)[i]]
      BY <1>1 DEF IsPrefixSum
    <3> QED BY <3>1, <3>2
  <2>2. g[Enumeration(S)[i]] = f[Enumeration(S)[i]] - (IF i = k THEN n ELSE 0)
    BY <1>2, <1>3
  <2>3. f[Enumeration(S)[i]] \in Nat
    BY <1>3
  <2> QED BY <1>3, <2>1, <2>2, <2>3, SMTT(30)
<1>7. q[Size(S)] = total - n
  BY <1>1, <1>3
<1>8. IsPrefixSum(S, q, g)
  BY <1>5, <1>6 DEF IsPrefixSum
<1> QED BY <1>7, <1>8 DEF AddUpTo

\* A quotient rounded down.
LEMMA QuotientBound ==
  ASSUME NEW x \in Nat, NEW s \in Nat \ {0}, NEW c \in Nat, x <= c * s
  PROVE  x \div s \in Nat /\ x \div s <= c
<1>1. x \div s \in Nat /\ (x \div s) * s <= x
  OBVIOUS
<1>2. SUFFICES ASSUME x \div s >= c + 1 PROVE FALSE
  BY <1>1
<1>3. (x \div s) * s >= (c + 1) * s
  BY <1>1, <1>2
<1> QED BY <1>1, <1>3
=============================================================================
