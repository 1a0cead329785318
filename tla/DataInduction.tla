----------------------------- MODULE DataInduction -----------------------------
(***************************************************************************)
(* Induction for the proofs about data: over natural numbers, stated of a  *)
(* set instead of a predicate, and what follows from it.                   *)
(***************************************************************************)
EXTENDS Integers, FiniteSets, FiniteSetTheorems, WellFoundedInduction, TLAPS

\* The order of the natural numbers, as a set of pairs.
Smaller == {pair \in Nat \X Nat : pair[1] < pair[2]}

\* The order of the natural numbers is well founded.
LEMMA NatWellFounded == IsWellFoundedOn(Smaller, Nat)
BY NatLessThanWellFounded DEF OpToRel, Smaller

\* A set of natural numbers that is not empty has a least member.
LEMMA LeastMember ==
  ASSUME NEW S, S \subseteq Nat, S # {}
  PROVE  \E least \in S : \A n \in S : least <= n
<1>1. PICK least \in S : \A n \in S : ~(<<n, least>> \in Smaller)
  BY NatWellFounded, WFMin
<1>2. ASSUME NEW n \in S PROVE least <= n
  <2>1. <<n, least>> \in Nat \X Nat /\ ~(n < least)
    BY <1>1 DEF Smaller
  <2> QED BY <2>1
<1> QED BY <1>2

\* A set of natural numbers below a bound has a greatest member.
LEMMA GreatestMember ==
  ASSUME NEW N \in Nat, NEW S, S \subseteq 0..N, S # {}
  PROVE  \E greatest \in S : \A n \in S : n <= greatest
<1> DEFINE T == {N - n : n \in S}
<1>1. T \subseteq Nat /\ T # {}
  <2>1. \A n \in S : N - n \in Nat
    OBVIOUS
  <2> QED BY <2>1
<1>2. PICK least \in T : \A n \in T : least <= n
  BY <1>1, LeastMember
<1>3. PICK greatest \in S : least = N - greatest
  OBVIOUS
<1>4. ASSUME NEW n \in S PROVE n <= greatest
  <2>1. N - n \in T /\ n \in 0..N /\ greatest \in 0..N
    OBVIOUS
  <2> HIDE DEF T
  <2>2. N - greatest <= N - n
    BY <2>1, <1>2, <1>3
  <2> QED BY <2>1, <2>2
<1> QED BY <1>4

\* A set that has 0, and n + 1 whenever it has n, has every natural number.
LEMMA InductionOnNat ==
  ASSUME NEW S, 0 \in S, \A n \in Nat : n \in S => n + 1 \in S
  PROVE  Nat \subseteq S
<1> SUFFICES ASSUME Nat \ S # {} PROVE FALSE
  OBVIOUS
<1>1. PICK least \in Nat \ S : \A n \in Nat \ S : least <= n
  BY LeastMember
<1>2. least # 0 /\ least - 1 \in Nat
  OBVIOUS
<1>3. least - 1 \in S
  BY <1>1, <1>2
<1> QED BY <1>2, <1>3

\* The same for the numbers up to N.
LEMMA InductionUpTo ==
  ASSUME NEW N \in Nat, NEW S, 0 \in S, \A n \in 1..N : n - 1 \in S => n \in S
  PROVE  0..N \subseteq S
<1> DEFINE T == {n \in Nat : n <= N => n \in S}
<1>1. 0 \in T
  OBVIOUS
<1>2. ASSUME NEW n \in Nat, n \in T PROVE n + 1 \in T
  <2>1. CASE n + 1 <= N
    <3>1. n + 1 \in 1..N /\ (n + 1) - 1 = n /\ n \in S
      BY <2>1, <1>2
    <3> QED BY <3>1
  <2>2. CASE ~(n + 1 <= N)
    BY <2>2
  <2> QED BY <2>1, <2>2
<1> HIDE DEF T
<1>3. Nat \subseteq T
  BY <1>1, <1>2, InductionOnNat
<1> QED BY <1>3 DEF T

\* f is the recursion over 0..N in A with this first value and this step.
Steps(A, N) == [A \X (1..N) -> A]
Iterates(f, N, A, first, step) ==
  /\ f \in [0..N -> A]
  /\ f[0] = first
  /\ \A n \in 1..N : f[n] = step[<<f[n - 1], n>>]

\* Every such recursion has a solution.
LEMMA Recursion ==
  ASSUME NEW N \in Nat, NEW A, NEW first \in A, NEW step \in Steps(A, N)
  PROVE  \E f : Iterates(f, N, A, first, step)
<1> DEFINE Solves(f, m) == f[0] = first /\ \A n \in 1..m : f[n] = step[<<f[n - 1], n>>]
           S == {m \in 0..N : \E f \in [0..m -> A] : Solves(f, m)}
<1>1. 0 \in S
  <2>1. [n \in 0..0 |-> first] \in [0..0 -> A] /\ Solves([n \in 0..0 |-> first], 0)
    OBVIOUS
  <2> HIDE DEF Solves
  <2>2. \E f \in [0..0 -> A] : Solves(f, 0)
    BY <2>1
  <2> QED BY <2>2
<1>2. ASSUME NEW m \in 1..N, m - 1 \in S PROVE m \in S
  <2>1. PICK f \in [0..(m - 1) -> A] : Solves(f, m - 1)
    BY <1>2
  <2> DEFINE g == [n \in 0..m |-> IF n = m THEN step[<<f[m - 1], m>>] ELSE f[n]]
  <2>2. f[m - 1] \in A
    OBVIOUS
  <2>3. step[<<f[m - 1], m>>] \in A
    BY <2>2 DEF Steps
  <2>4. g \in [0..m -> A]
    BY <2>3
  <2>5. g[0] = first
    BY <2>1
  <2>6. ASSUME NEW n \in 1..m PROVE g[n] = step[<<g[n - 1], n>>]
    <3>1. CASE n \in 1..(m - 1)
      <4>1. n - 1 \in 0..(m - 1) /\ n \in 0..(m - 1) /\ n # m /\ n - 1 # m
        BY <3>1
      <4>2. g[n] = f[n] /\ g[n - 1] = f[n - 1]
        BY <4>1
      <4>3. f[n] = step[<<f[n - 1], n>>]
        BY <3>1, <2>1
      <4> QED BY <4>2, <4>3
    <3>2. CASE n = m
      <4>1. g[m] = step[<<f[m - 1], m>>] /\ g[m - 1] = f[m - 1]
        OBVIOUS
      <4> QED BY <4>1, <3>2
    <3> QED BY <3>1, <3>2
  <2>7. Solves(g, m)
    BY <2>5, <2>6
  <2> HIDE DEF g, Solves
  <2>8. \E h \in [0..m -> A] : Solves(h, m)
    BY <2>4, <2>7
  <2> QED BY <2>8
<1> HIDE DEF S
<1>3. N \in S
  BY <1>1, <1>2, InductionUpTo
<1> QED BY <1>3 DEF S, Iterates

\* A strict total order, as a set of pairs, of the elements of a set.
StrictOrder(R, S) ==
  /\ \A x \in S : <<x, x>> \notin R
  /\ \A x, y \in S : x # y => <<x, y>> \in R \/ <<y, x>> \in R
  /\ \A x, y, z \in S : <<x, y>> \in R /\ <<y, z>> \in R => <<x, z>> \in R

\* The elements of S before x.
Below(R, S, x) == {y \in S : <<y, x>> \in R}

\* The elements of a finite set under a strict order have the ranks 1, 2, ... up to its size,
\* each exactly one of them.
LEMMA EveryRankTaken ==
  ASSUME NEW S, IsFiniteSet(S), NEW R, StrictOrder(R, S)
  PROVE  /\ Cardinality(S) \in Nat
         /\ \A x \in S : Cardinality(Below(R, S, x)) \in 0..(Cardinality(S) - 1)
         /\ \A x, y \in S : Cardinality(Below(R, S, x)) < Cardinality(Below(R, S, y))
                              <=> <<x, y>> \in R
         /\ \A i \in 1..Cardinality(S) : \E x \in S : Cardinality(Below(R, S, x)) = i - 1
<1> DEFINE n == Cardinality(S)
           rank == [x \in S |-> Cardinality(Below(R, S, x)) + 1]
<1>1. n \in Nat
  BY FS_CardinalityType
<1>2. ASSUME NEW x \in S
      PROVE  IsFiniteSet(Below(R, S, x)) /\ Cardinality(Below(R, S, x)) \in 0..(n - 1)
  <2>1. Below(R, S, x) \in SUBSET (S \ {x})
    BY DEF Below, StrictOrder
  <2>2. IsFiniteSet(S \ {x}) /\ Cardinality(S \ {x}) = n - 1
    BY FS_RemoveElement
  <2>3. IsFiniteSet(Below(R, S, x)) /\ Cardinality(Below(R, S, x)) <= n - 1
    BY <2>1, <2>2, FS_Subset
  <2> QED BY <2>3, FS_CardinalityType, <1>1
<1>3. ASSUME NEW x \in S, NEW y \in S, <<x, y>> \in R
      PROVE  Cardinality(Below(R, S, x)) < Cardinality(Below(R, S, y))
  <2>1. Below(R, S, x) \in SUBSET Below(R, S, y)
    BY <1>3 DEF Below, StrictOrder
  <2>2. x \in Below(R, S, y) /\ x \notin Below(R, S, x)
    BY <1>3 DEF Below, StrictOrder
  <2>3. Cardinality(Below(R, S, x)) <= Cardinality(Below(R, S, y))
        /\ Cardinality(Below(R, S, y)) # Cardinality(Below(R, S, x))
    BY <2>1, <2>2, <1>2, FS_Subset
  <2> QED BY <2>3, <1>2, <1>1
<1>4. ASSUME NEW x \in S, NEW y \in S,
             Cardinality(Below(R, S, x)) < Cardinality(Below(R, S, y))
      PROVE  <<x, y>> \in R
  <2>1. x # y /\ ~(<<y, x>> \in R)
    BY <1>4, <1>3, <1>2, <1>1
  <2> QED BY <2>1 DEF StrictOrder
<1>5. rank \in Injection(S, 1..n)
  <2>1. rank \in [S -> 1..n]
    BY <1>1, <1>2
  <2>2. ASSUME NEW x \in S, NEW y \in S, x # y PROVE rank[x] # rank[y]
    <3>1. <<x, y>> \in R \/ <<y, x>> \in R
      BY <2>2 DEF StrictOrder
    <3>2. Cardinality(Below(R, S, x)) # Cardinality(Below(R, S, y))
      BY <3>1, <1>3, <1>2, <1>1
    <3> QED BY <3>2, <1>2, <1>1
  <2> QED BY <2>1, <2>2 DEF Injection, IsInjective
<1>6. IsFiniteSet(1..n) /\ Cardinality(1..n) = n
  BY <1>1, FS_Interval
<1>7. rank \in Surjection(S, 1..n)
  BY <1>5, <1>6, FS_Injection
<1>8. ASSUME NEW i \in 1..n PROVE \E x \in S : Cardinality(Below(R, S, x)) = i - 1
  <2>1. PICK x \in S : rank[x] = i
    BY <1>7 DEF Surjection
  <2> QED BY <2>1, <1>2, <1>1
<1> QED BY <1>1, <1>2, <1>3, <1>4, <1>8

\* A list of S: every member once, and in the order R.
IsListing(list, S, R) ==
  /\ list \in [1..Cardinality(S) -> S]
  /\ \A x \in S : \E i \in 1..Cardinality(S) : list[i] = x
  /\ \A i, j \in 1..Cardinality(S) : i < j <=> <<list[i], list[j]>> \in R

\* A function that gives every rank the member of that rank is such a list.
LEMMA ListedByRank ==
  ASSUME NEW S, IsFiniteSet(S), NEW R, StrictOrder(R, S),
         NEW list \in [1..Cardinality(S) -> S],
         \A k \in 1..Cardinality(S) : Cardinality(Below(R, S, list[k])) = k - 1
  PROVE  IsListing(list, S, R)
<1> DEFINE n == Cardinality(S)
           place(x) == Cardinality(Below(R, S, x))
<1>1. /\ n \in Nat
      /\ \A x \in S : place(x) \in 0..(n - 1)
      /\ \A x, y \in S : place(x) < place(y) <=> <<x, y>> \in R
  BY EveryRankTaken
<1>2. list \in [1..n -> S] /\ \A k \in 1..n : list[k] \in S /\ place(list[k]) = k - 1
  OBVIOUS
<1> HIDE DEF place, n
<1>3. ASSUME NEW x \in S PROVE \E i \in 1..n : list[i] = x
  <2>1. place(x) + 1 \in 1..n
    BY <1>1
  <2>2. list[place(x) + 1] \in S /\ place(list[place(x) + 1]) = place(x)
    BY <2>1, <1>1, <1>2
  <2>3. ASSUME NEW y \in S, place(y) = place(x) PROVE y = x
    <3>1. <<x, y>> \notin R /\ <<y, x>> \notin R
      BY <2>3, <1>1
    <3> QED BY <3>1 DEF StrictOrder
  <2> QED BY <2>1, <2>2, <2>3
<1>4. \A i, j \in 1..n : i < j <=> <<list[i], list[j]>> \in R
  BY <1>1, <1>2
<1> QED BY <1>2, <1>3, <1>4 DEF IsListing, n
================================================================================
