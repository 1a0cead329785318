--------------------------- MODULE AnswerGateProofs ---------------------------
(***************************************************************************)
(* The text a client gets does not depend on how the provider splits its   *)
(* answer, and the stored answer is that of the unstreamed endpoint, with  *)
(* matching citations, for every refusal sentence, alphabet and length.    *)
(* The argument has two parts.  A text that is no beginning of a refusal   *)
(* does not become one when it grows, nor does it then change whether it   *)
(* begins with the refusal.  And a removal of markers moves the characters *)
(* it keeps together without changing their order: it leaves every other   *)
(* marker and all before the first bracket alone, and puts a new marker    *)
(* together only where one bracket was opened within another.              *)
(***************************************************************************)
EXTENDS AnswerGate, DataInduction

-----------------------------------------------------------------------------
(* Texts that grow *)

\* What a concatenation holds, and where.
LEMMA Grown ==
  ASSUME NEW s \in Seq(Chars), NEW t \in Seq(Chars)
  PROVE  /\ s \o t \in Seq(Chars)
         /\ Len(s) \in Nat /\ Len(t) \in Nat
         /\ Len(s \o t) = Len(s) + Len(t)
         /\ \A i \in 1..Len(s) : (s \o t)[i] = s[i]
  OBVIOUS

\* Blanks that do not reach the end of a text are not changed by what follows it.
LEMMA BlanksKept ==
  ASSUME NEW s \in Seq(Chars), NEW t \in Seq(Chars), NEW k \in Nat, k < Len(s)
  PROVE  LeadingBlanks(s \o t, k) <=> LeadingBlanks(s, k)
<1>1. /\ \A i \in 1..k : (s \o t)[i] = s[i]
      /\ (s \o t)[k + 1] = s[k + 1]
      /\ k < Len(s \o t)
  BY Grown
<1> QED
  BY <1>1 DEF LeadingBlanks

\* Nor is the agreement with the refusal within the text.
LEMMA AgreementKept ==
  ASSUME NEW s \in Seq(Chars), NEW t \in Seq(Chars), NEW k \in Nat, NEW n \in Nat,
         k + n <= Len(s)
  PROVE  Agrees(s \o t, k, n) <=> Agrees(s, k, n)
<1>1. \A i \in 1..n : (s \o t)[k + i] = s[k + i]
  BY Grown
<1> QED
  BY <1>1 DEF Agrees

\* A text of blanks may still become a refusal.
LEMMA BlankIsUndecided ==
  ASSUME NEW s \in Seq(Chars), \A i \in 1..Len(s) : s[i] \in Blanks
  PROVE  Undecided(s)
<1>1. Len(s) \in 0..Len(s) /\ Len(s) - Len(s) = 0 /\ Len(RefusalPrefix) >= 0
  BY GateAssumption
<1>2. LeadingBlanks(s, Len(s)) /\ Agrees(s, Len(s), 0)
  BY <1>1 DEF LeadingBlanks, Agrees
<1> QED
  BY <1>1, <1>2 DEF Undecided

\* Leading blanks of a longer text that reach into what was added cover all of the text.
LEMMA BlanksBeyond ==
  ASSUME NEW s \in Seq(Chars), NEW t \in Seq(Chars), NEW k \in Nat, k >= Len(s),
         LeadingBlanks(s \o t, k)
  PROVE  Undecided(s)
<1>1. \A i \in 1..Len(s) : s[i] \in Blanks
  BY Grown DEF LeadingBlanks
<1> QED
  BY <1>1, BlankIsUndecided

\* A text that grows does not become a beginning of the refusal.
LEMMA UndecidedShrinks ==
  ASSUME NEW s \in Seq(Chars), NEW t \in Seq(Chars), Undecided(s \o t)
  PROVE  Undecided(s)
<1>1. PICK k \in 0..Len(s \o t) : /\ LeadingBlanks(s \o t, k)
                                  /\ Len(s \o t) - k <= Len(RefusalPrefix)
                                  /\ Agrees(s \o t, k, Len(s \o t) - k)
  BY DEF Undecided
<1>2. CASE k >= Len(s)
  BY <1>1, <1>2, Grown, BlanksBeyond
<1>3. CASE k < Len(s)
  <2>1. k \in 0..Len(s) /\ LeadingBlanks(s, k)
    BY <1>1, <1>3, Grown, BlanksKept
  <2>2. Len(s) - k <= Len(RefusalPrefix)
    BY <1>1, <1>3, Grown, GateAssumption
  <2>3. Agrees(s \o t, k, Len(s) - k)
    BY <1>1, <1>3, Grown DEF Agrees
  <2>4. Agrees(s, k, Len(s) - k)
    BY <1>3, <2>1, <2>3, Grown, AgreementKept
  <2> QED
    BY <2>1, <2>2, <2>4 DEF Undecided
<1> QED
  BY <1>1, <1>2, <1>3, Grown

\* Once a text is no beginning of the refusal, it keeps beginning, or not beginning, with it.
LEMMA RefusalDecided ==
  ASSUME NEW s \in Seq(Chars), NEW t \in Seq(Chars), ~Undecided(s)
  PROVE  Refusing(s \o t) <=> Refusing(s)
<1>1. Len(RefusalPrefix) \in Nat \ {0}
  BY GateAssumption
<1>2. ASSUME Refusing(s) PROVE Refusing(s \o t)
  <2>1. PICK k \in 0..Len(s) : /\ LeadingBlanks(s, k)
                               /\ Len(s) - k >= Len(RefusalPrefix)
                               /\ Agrees(s, k, Len(RefusalPrefix))
    BY <1>2 DEF Refusing
  <2>2. k < Len(s) /\ k + Len(RefusalPrefix) <= Len(s)
    BY <1>1, <2>1, Grown
  <2>3. LeadingBlanks(s \o t, k) /\ Agrees(s \o t, k, Len(RefusalPrefix))
    BY <1>1, <2>1, <2>2, Grown, BlanksKept, AgreementKept
  <2>4. k \in 0..Len(s \o t) /\ Len(s \o t) - k >= Len(RefusalPrefix)
    BY <1>1, <2>1, <2>2, Grown
  <2> QED
    BY <2>3, <2>4 DEF Refusing
<1>3. ASSUME Refusing(s \o t) PROVE Refusing(s)
  <2>1. PICK k \in 0..Len(s \o t) : /\ LeadingBlanks(s \o t, k)
                                    /\ Len(s \o t) - k >= Len(RefusalPrefix)
                                    /\ Agrees(s \o t, k, Len(RefusalPrefix))
    BY <1>3 DEF Refusing
  <2>2. k < Len(s)
    BY <2>1, Grown, BlanksBeyond
  <2>3. k \in 0..Len(s) /\ LeadingBlanks(s, k)
    BY <2>1, <2>2, Grown, BlanksKept
  <2>4. Len(s) - k >= Len(RefusalPrefix)
    <3> SUFFICES ASSUME Len(s) - k < Len(RefusalPrefix) PROVE Undecided(s)
      BY <1>1, <2>3, Grown
    <3>1. Agrees(s \o t, k, Len(s) - k)
      BY <1>1, <2>1, <2>2, Grown DEF Agrees
    <3>2. Agrees(s, k, Len(s) - k)
      BY <2>2, <2>3, <3>1, Grown, AgreementKept
    <3> QED
      BY <1>1, <2>3, <3>2, Grown DEF Undecided
  <2>5. Agrees(s, k, Len(RefusalPrefix))
    BY <1>1, <2>1, <2>3, <2>4, Grown, AgreementKept
  <2> QED
    BY <2>3, <2>4, <2>5 DEF Refusing
<1> QED
  BY <1>2, <1>3

-----------------------------------------------------------------------------
(* Numbers *)

\* A finite set of numbers is listed from the least to the greatest.
LEMMA Ascending ==
  ASSUME NEW S, S \subseteq Nat, IsFiniteSet(S)
  PROVE  /\ Cardinality(S) \in Nat /\ Len(InOrder(S)) = Cardinality(S)
         /\ IsListing(InOrder(S), S, Smaller)
<1> DEFINE N == Cardinality(S)
           rank(n) == Cardinality({k \in S : k < n})
<1>1. StrictOrder(Smaller, S)
  BY DEF StrictOrder, Smaller
<1>2. \A n \in S : Below(Smaller, S, n) = {k \in S : k < n}
  BY DEF Below, Smaller
<1>3. N \in Nat /\ \A i \in 1..N : \E n \in S : rank(n) = i - 1
  <2>1. N \in Nat /\ \A i \in 1..N : \E n \in S : Cardinality(Below(Smaller, S, n)) = i - 1
    BY <1>1, EveryRankTaken
  <2> QED BY <2>1, <1>2
<1> DEFINE list == [i \in 1..N |-> CHOOSE n \in S : rank(n) = i - 1]
<1>4. ASSUME NEW i \in 1..N PROVE list[i] \in S /\ rank(list[i]) = i - 1
  <2> HIDE DEF rank, N
  <2> QED BY <1>3
<1>5. list \in [1..N -> S]
  <2> HIDE DEF rank, N
  <2> QED BY <1>4
<1>6. InOrder(S) = list
  BY DEF InOrder
<1>7. \A i \in 1..N : Cardinality(Below(Smaller, S, list[i])) = i - 1
  BY <1>2, <1>4
<1> HIDE DEF list
<1>8. IsListing(list, S, Smaller)
  BY <1>1, <1>5, <1>7, ListedByRank
<1>9. Len(list) = N
  <2> HIDE DEF N
  <2> QED BY <1>3, <1>5
<1> QED BY <1>3, <1>6, <1>8, <1>9

\* int() of digits is a natural number.
LEMMA NumberIsNatural ==
  ASSUME NEW word \in Seq(Digits)
  PROVE  Number(word) \in Nat
<1> DEFINE N == Len(word)
           next(v, d) == 10 * v + DigitOf[word[d]]
           step == [x \in Nat \X (1..N) |-> next(x[1], x[2])]
           Values(f) == f = [d \in 0..N |-> IF d = 0 THEN 0 ELSE 10 * f[d - 1] + DigitOf[word[d]]]
<1>1. N \in Nat /\ \A d \in 1..N : DigitOf[word[d]] \in Nat
  BY GateAssumption
<1>2. step \in Steps(Nat, N)
  <2>1. ASSUME NEW x \in Nat \X (1..N) PROVE next(x[1], x[2]) \in Nat
    <3>1. x[1] \in Nat /\ DigitOf[word[x[2]]] \in Nat
      BY <1>1
    <3> QED BY <3>1
  <2> HIDE DEF next
  <2> QED BY <2>1 DEF Steps
<1> HIDE DEF N
<1>3. PICK f : Iterates(f, N, Nat, 0, step)
  <2> HIDE DEF step
  <2> QED BY <1>1, <1>2, Recursion
<1>4. Values(f)
  <2>1. ASSUME NEW d \in 1..N PROVE f[d] = next(f[d - 1], d)
    <3>1. d - 1 \in 0..N
      BY <1>1
    <3> HIDE DEF next
    <3>2. <<f[d - 1], d>> \in Nat \X (1..N)
      BY <3>1, <1>3 DEF Iterates
    <3> QED BY <3>2, <1>3 DEF Iterates
  <2>2. f = [d \in 0..N |-> f[d]] /\ f[0] = 0
    BY <1>3 DEF Iterates
  <2>3. \A d \in 0..N : d # 0 => d \in 1..N
    BY <1>1
  <2> QED BY <2>1, <2>2, <2>3
<1>5. ASSUME NEW g, Values(g) PROVE g[N] \in Nat
  <2> DEFINE S == {d \in 0..N : g[d] \in Nat}
  <2>1. 0 \in S
    BY <1>1, <1>5
  <2>2. ASSUME NEW d \in 1..N, d - 1 \in S PROVE d \in S
    <3>1. d \in 0..N /\ d # 0
      BY <1>1
    <3>2. g[d] = 10 * g[d - 1] + DigitOf[word[d]]
      BY <1>5, <3>1
    <3> QED BY <3>1, <3>2, <2>2, <1>1
  <2> HIDE DEF S
  <2>3. 0..N \subseteq S
    BY <2>1, <2>2, InductionUpTo, <1>1
  <2>4. N \in S
    BY <2>3, <1>1
  <2> QED BY <2>4 DEF S
<1> QED BY <1>4, <1>5 DEF Number, N

-----------------------------------------------------------------------------
(* Markers *)

\* A text is a sequence of characters, of which the brackets are no digits.
LEMMA MarkerTyped ==
  ASSUME NEW s \in Seq(Chars), NEW m \in Markers(s)
  PROVE  /\ m[1] \in 1..Len(s) /\ m[2] \in 1..Len(s) /\ m = <<m[1], m[2]>>
         /\ m[1] + 1 < m[2]
         /\ s[m[1]] = Opening /\ s[m[2]] = Closing
         /\ \A k \in (m[1] + 1)..(m[2] - 1) : s[k] \in Digits
         /\ WordOf(s, m) \in Seq(Digits)
<1>1. /\ m \in (1..Len(s)) \X (1..Len(s))
      /\ m[1] + 1 < m[2] /\ Opened(s, m[1], m[2]) /\ s[m[2]] = Closing
  BY DEF Markers
<1>2. m[1] \in 1..Len(s) /\ m[2] \in 1..Len(s) /\ m = <<m[1], m[2]>>
  BY <1>1
<1>3. s[m[1]] = Opening /\ \A k \in (m[1] + 1)..(m[2] - 1) : s[k] \in Digits
  BY <1>1 DEF Opened
<1>4. WordOf(s, m) \in Seq(Digits)
  <2> DEFINE n == m[2] - m[1] - 1
             a == m[1]
  <2>1. n \in Nat /\ a \in Nat /\ \A d \in 1..n : a + d \in (m[1] + 1)..(m[2] - 1)
    BY <1>1, <1>2
  <2>2. \A d \in 1..n : s[a + d] \in Digits
    BY <2>1, <1>3
  <2> HIDE DEF n, a
  <2>3. [d \in 1..n |-> s[a + d]] \in Seq(Digits)
    BY <2>1, <2>2
  <2> QED BY <2>3 DEF WordOf, n, a
<1> QED BY <1>1, <1>2, <1>3, <1>4

\* Two markers do not overlap: the second would begin among the digits of the first.
LEMMA MarkersApart ==
  ASSUME NEW s \in Seq(Chars), NEW m \in Markers(s), NEW o \in Markers(s),
         NEW k, k \in m[1]..m[2], k \in o[1]..o[2]
  PROVE  m = o
<1>1. ASSUME NEW x \in Markers(s), NEW y \in Markers(s), k \in x[1]..x[2], k \in y[1]..y[2]
      PROVE  ~(x[1] < y[1])
  <2> SUFFICES ASSUME x[1] < y[1] PROVE FALSE
    OBVIOUS
  <2>1. y[1] \in (x[1] + 1)..(x[2] - 1) \/ y[1] = x[2]
    <3> DEFINE last == x[2]
               first == y[1]
               start == x[1]
    <3>1. last \in 1..Len(s) /\ first \in 1..Len(s) /\ start \in 1..Len(s)
      BY MarkerTyped
    <3>2. start < first /\ k \in start..last /\ k \in first..y[2]
      BY <1>1
    <3> HIDE DEF last, first, start
    <3>3. first \in (start + 1)..(last - 1) \/ first = last
      BY <3>1, <3>2
    <3> QED BY <3>3 DEF last, first, start
  <2>2. s[y[1]] = Opening
    BY MarkerTyped
  <2>3. CASE y[1] = x[2]
    BY <2>2, <2>3, MarkerTyped, GateAssumption
  <2>4. CASE y[1] \in (x[1] + 1)..(x[2] - 1)
    BY <2>2, <2>4, MarkerTyped, GateAssumption
  <2> QED BY <2>1, <2>3, <2>4
<1>2. m[1] = o[1]
  BY <1>1, MarkerTyped
<1>3. ASSUME NEW x \in Markers(s), NEW y \in Markers(s), x[1] = y[1] PROVE ~(x[2] < y[2])
  <2> SUFFICES ASSUME x[2] < y[2] PROVE FALSE
    OBVIOUS
  <2>1. x[2] \in (y[1] + 1)..(y[2] - 1)
    BY <1>3, MarkerTyped
  <2>2. s[x[2]] \in Digits
    BY <2>1, MarkerTyped
  <2> QED BY <2>2, MarkerTyped, GateAssumption
<1>4. m[2] = o[2]
  BY <1>2, <1>3, MarkerTyped
<1> QED BY <1>2, <1>4, MarkerTyped

\* The numbers that a text cites are finitely many natural numbers.
LEMMA SeenTyped ==
  ASSUME NEW s \in Seq(Chars)
  PROVE  Seen(s) \subseteq Nat /\ IsFiniteSet(Seen(s))
<1>1. Seen(s) \subseteq Nat
  BY MarkerTyped, NumberIsNatural DEF Seen
<1>2. IsFiniteSet(Markers(s))
  <2>1. IsFiniteSet(1..Len(s))
    BY FS_Interval
  <2>2. IsFiniteSet((1..Len(s)) \X (1..Len(s)))
    BY <2>1, FS_Product
  <2>3. Markers(s) \in SUBSET ((1..Len(s)) \X (1..Len(s)))
    BY DEF Markers
  <2> QED BY <2>2, <2>3, FS_Subset
<1>3. IsFiniteSet(Seen(s))
  <2> DEFINE f == [m \in Markers(s) |-> Number(WordOf(s, m))]
  <2>1. f \in Surjection(Markers(s), Seen(s))
    BY DEF Surjection, Seen
  <2> HIDE DEF f
  <2> QED BY <1>2, <2>1, FS_Surjection
<1> QED BY <1>1, <1>3
-----------------------------------------------------------------------------
(* A text without some of its markers *)

\* The positions of s that are not in a removed marker.
Kept(s, removed) == {k \in 1..Len(s) : \A m \in removed : k \notin m[1]..m[2]}

\* Where the characters of what is left stand in s: the kept positions, in their order.
Places(s, removed, text, place) ==
  /\ text \in Seq(Chars)
  /\ place \in [1..Len(text) -> Kept(s, removed)]
  /\ \A i \in 1..Len(text) : text[i] = s[place[i]]
  /\ \A k \in Kept(s, removed) : \E i \in 1..Len(text) : place[i] = k
  /\ \A i, j \in 1..Len(text) : i < j <=> place[i] < place[j]

\* The n characters after the one at i stood right after it in s, too.
Unbroken(s, text, place, i, n) ==
  \A d \in 0..n : /\ i + d \in 1..Len(text) /\ place[i + d] = place[i] + d
                  /\ text[i + d] = s[place[i] + d]

\* The positions of s from k to k + n are kept.
AllKept(s, removed, k, n) == \A d \in 0..n : k + d \in Kept(s, removed)

LEMMA LeftInPlace ==
  ASSUME NEW s \in Seq(Chars), NEW removed
  PROVE  \E place : Places(s, removed, Without(s, removed), place)
<1> DEFINE K == Kept(s, removed)
           place == InOrder(K)
           n == Cardinality(K)
           text == [i \in 1..n |-> s[place[i]]]
<1>1. K \subseteq Nat /\ K \subseteq 1..Len(s) /\ IsFiniteSet(K)
  <2>1. K \in SUBSET (1..Len(s)) /\ IsFiniteSet(1..Len(s))
    BY FS_Interval DEF Kept
  <2> QED BY <2>1, FS_Subset
<1>0. K = {k \in DOMAIN s : \A m \in removed : k \notin m[1]..m[2]}
  BY DEF Kept
<1> HIDE DEF K
<1>2. n \in Nat /\ Len(place) = n /\ IsListing(place, K, Smaller)
  BY <1>1, Ascending
<1>3. Without(s, removed) = text
  <2>1. Without(s, removed) = [i \in 1..Len(place) |-> s[place[i]]]
    BY <1>0 DEF Without
  <2> QED BY <1>2, <2>1
<1>4. /\ place \in [1..n -> K]
      /\ \A k \in K : \E i \in 1..n : place[i] = k
      /\ \A i, j \in 1..n : i < j <=> <<place[i], place[j]>> \in Smaller
  BY <1>2 DEF IsListing
<1> HIDE DEF place, n
<1>5. ASSUME NEW i \in 1..n PROVE s[place[i]] \in Chars
  <2>1. place[i] \in 1..Len(s)
    BY <1>1, <1>4
  <2> QED BY <2>1
<1>6. text \in Seq(Chars) /\ Len(text) = n /\ \A i \in 1..n : text[i] = s[place[i]]
  BY <1>2, <1>5
<1>7. \A i, j \in 1..n : i < j <=> place[i] < place[j]
  BY <1>1, <1>4 DEF Smaller
<1> HIDE DEF text
<1>8. Places(s, removed, text, place)
  BY <1>4, <1>6, <1>7 DEF Places, K
<1> QED BY <1>3, <1>8

\* The character after a kept one comes next, if it is kept too.
LEMMA NextPlace ==
  ASSUME NEW s \in Seq(Chars), NEW removed, NEW text, NEW place, Places(s, removed, text, place),
         NEW i \in 1..Len(text), place[i] + 1 \in Kept(s, removed)
  PROVE  i + 1 \in 1..Len(text) /\ place[i + 1] = place[i] + 1
<1>1. Len(text) \in Nat /\ \A j \in 1..Len(text) : place[j] \in 1..Len(s)
  BY DEF Places, Kept
<1>2. PICK j \in 1..Len(text) : place[j] = place[i] + 1
  BY DEF Places
<1>3. i < j
  BY <1>1, <1>2 DEF Places
<1>4. i + 1 \in 1..Len(text)
  BY <1>1, <1>3
<1>5. ~(i + 1 < j)
  <2> SUFFICES ASSUME i + 1 < j PROVE FALSE
    OBVIOUS
  <2>1. place[i] < place[i + 1] /\ place[i + 1] < place[j]
    BY <1>1, <1>4 DEF Places
  <2> QED BY <2>1, <1>1, <1>2, <1>4
<1>6. j = i + 1
  BY <1>1, <1>3, <1>5
<1> QED BY <1>2, <1>4, <1>6

\* What was kept without a gap stands without a gap in what is left.
LEMMA RunKept ==
  ASSUME NEW s \in Seq(Chars), NEW removed, NEW text, NEW place, Places(s, removed, text, place),
         NEW i \in 1..Len(text), NEW n \in Nat, AllKept(s, removed, place[i], n)
  PROVE  Unbroken(s, text, place, i, n)
<1> DEFINE S == {d \in 0..n : i + d \in 1..Len(text) /\ place[i + d] = place[i] + d}
<1>1. Len(text) \in Nat /\ place[i] \in Nat
  BY DEF Places, Kept
<1>2. 0 \in S
  BY <1>1
<1>3. ASSUME NEW d \in 1..n, d - 1 \in S PROVE d \in S
  <2>1. i + (d - 1) \in 1..Len(text) /\ place[i + (d - 1)] = place[i] + (d - 1) /\ d \in 0..n
    BY <1>3
  <2>2. place[i + (d - 1)] + 1 = place[i] + d /\ (i + (d - 1)) + 1 = i + d
    BY <1>1, <2>1
  <2>3. place[i] + d \in Kept(s, removed)
    BY <2>1 DEF AllKept
  <2>4. i + d \in 1..Len(text) /\ place[i + d] = place[i] + d
    BY <2>1, <2>2, <2>3, NextPlace
  <2> QED BY <2>1, <2>4
<1> HIDE DEF S
<1>4. 0..n \subseteq S
  BY <1>2, <1>3, InductionUpTo
<1> QED BY <1>4 DEF S, Places, Unbroken

\* A text is not changed before its first opening bracket.
LEMMA BeginningStays ==
  ASSUME NEW s \in Seq(Chars), NEW removed, removed \subseteq Markers(s),
         NEW p \in 0..Len(s), \A j \in 1..p : s[j] # Opening
  PROVE  LET text == Without(s, removed)
         IN  p <= Len(text) /\ \A j \in 1..p : text[j] = s[j]
<1> DEFINE text == Without(s, removed)
<1>1. PICK place : Places(s, removed, text, place)
  BY LeftInPlace
<1> HIDE DEF text
<1>2. ASSUME NEW j \in 1..p PROVE j \in Kept(s, removed)
  <2>1. j \in 1..Len(s)
    OBVIOUS
  <2>2. ASSUME NEW m \in removed, j \in m[1]..m[2] PROVE FALSE
    <3>1. m[1] \in 1..p /\ s[m[1]] = Opening
      BY <2>2, MarkerTyped
    <3> QED BY <3>1
  <2> QED BY <2>1, <2>2 DEF Kept
<1>3. Len(text) \in Nat
  BY <1>1 DEF Places
<1>4. CASE p = 0
  BY <1>3, <1>4 DEF text
<1>5. CASE p # 0
  <2>1. 1 \in Kept(s, removed) /\ p - 1 \in Nat
    BY <1>2, <1>5
  <2>2. PICK i \in 1..Len(text) : place[i] = 1
    BY <1>1, <2>1 DEF Places
  <2>3. i = 1
    <3>1. 1 \in 1..Len(text) /\ place[1] >= 1
      BY <1>1, <1>3, <2>2 DEF Places, Kept
    <3>2. ~(1 < i)
      BY <1>1, <2>2, <3>1 DEF Places, Kept
    <3> QED BY <3>2, <2>2
  <2>4. AllKept(s, removed, place[1], p - 1)
    BY <1>2, <2>2, <2>3 DEF AllKept
  <2>5. \A d \in 0..(p - 1) : 1 + d \in 1..Len(text) /\ text[1 + d] = s[1 + d]
    <3>1. 1 \in 1..Len(text) /\ place[1] = 1
      BY <2>2, <2>3
    <3>2. Unbroken(s, text, place, 1, p - 1)
      BY <1>1, <2>1, <2>4, <3>1, RunKept
    <3> QED BY <3>1, <3>2 DEF Unbroken
  <2>6. ASSUME NEW j \in 1..p PROVE j \in 1..Len(text) /\ text[j] = s[j]
    <3>1. j - 1 \in 0..(p - 1) /\ 1 + (j - 1) = j
      OBVIOUS
    <3> QED BY <3>1, <2>5
  <2>7. p \in 1..Len(text)
    BY <1>5, <2>6
  <2> QED BY <2>6, <2>7, <1>3 DEF text
<1> QED BY <1>4, <1>5

\* A marker that is not among the removed ones is still there.
LEMMA MarkerStays ==
  ASSUME NEW s \in Seq(Chars), NEW removed, removed \subseteq Markers(s),
         NEW m \in Markers(s), m \notin removed
  PROVE  \E o \in Markers(Without(s, removed)) :
           WordOf(Without(s, removed), o) = WordOf(s, m)
<1> DEFINE text == Without(s, removed)
           n == m[2] - m[1]
<1>1. PICK place : Places(s, removed, text, place)
  BY LeftInPlace
<1> HIDE DEF text
<1>2. n \in Nat /\ m[1] \in 1..Len(s) /\ m[2] \in 1..Len(s) /\ 1 < n /\ m[2] = m[1] + n
  BY MarkerTyped
<1>3. ASSUME NEW d \in 0..n PROVE m[1] + d \in Kept(s, removed)
  <2>1. m[1] + d \in 1..Len(s) /\ m[1] + d \in m[1]..m[2]
    BY <1>2
  <2>2. \A o \in removed : m[1] + d \notin o[1]..o[2]
    BY <2>1, MarkersApart
  <2> QED BY <2>1, <2>2 DEF Kept
<1>4. m[1] \in Kept(s, removed)
  BY <1>2, <1>3
<1>5. PICK i \in 1..Len(text) : place[i] = m[1]
  BY <1>1, <1>4 DEF Places
<1> HIDE DEF n
<1>6. \A d \in 0..n : i + d \in 1..Len(text) /\ text[i + d] = s[m[1] + d]
  <2>1. AllKept(s, removed, place[i], n)
    BY <1>3, <1>5 DEF AllKept
  <2>2. Unbroken(s, text, place, i, n)
    BY <1>1, <1>2, <2>1, RunKept
  <2> QED BY <1>5, <2>2 DEF Unbroken
<1> DEFINE o == <<i, i + n>>
<1>7. text[i] = Opening /\ text[i + n] = Closing /\ i + n \in 1..Len(text)
  <2>1. 0 \in 0..n /\ n \in 0..n /\ i + 0 = i /\ m[1] + 0 = m[1]
    BY <1>2
  <2>2. s[m[1]] = Opening /\ s[m[1] + n] = Closing
    BY <1>2, MarkerTyped
  <2> QED BY <2>1, <2>2, <1>6
<1>8. ASSUME NEW k \in (i + 1)..((i + n) - 1) PROVE text[k] \in Digits
  <2>1. k - i \in 0..n /\ i + (k - i) = k /\ m[1] + (k - i) \in (m[1] + 1)..(m[2] - 1)
    BY <1>2
  <2>2. text[i + (k - i)] = s[m[1] + (k - i)] /\ s[m[1] + (k - i)] \in Digits
    BY <2>1, <1>6, MarkerTyped
  <2> QED BY <2>1, <2>2
<1>9. o \in Markers(text)
  <2>1. i \in DOMAIN text /\ i + n \in DOMAIN text /\ i + 1 < i + n
    BY <1>1, <1>2, <1>7 DEF Places
  <2>2. Opened(text, i, i + n)
    BY <1>7, <1>8 DEF Opened
  <2> QED BY <2>1, <2>2, <1>7 DEF Markers
<1>10. WordOf(text, o) = WordOf(s, m)
  <2>1. (i + n) - i - 1 = n - 1 /\ m[2] - m[1] - 1 = n - 1
    BY <1>2
  <2>2. \A d \in 1..(n - 1) : text[i + d] = s[m[1] + d]
    BY <1>2, <1>6
  <2>3. WordOf(text, o) = [d \in 1..(n - 1) |-> text[i + d]]
    BY <2>1 DEF WordOf
  <2>4. WordOf(s, m) = [d \in 1..(n - 1) |-> s[m[1] + d]]
    BY <2>1 DEF WordOf
  <2> QED BY <2>2, <2>3, <2>4
<1> QED BY <1>9, <1>10 DEF text

\* Without nested brackets no removal lies between a bracket and the digits after it, so
\* that a bracket and what was opened with it stood in s as they stand in what is left.
LEMMA OpenedBefore ==
  ASSUME NEW s \in Seq(Chars), ~Nested(s), NEW removed, removed \subseteq Markers(s),
         NEW text, NEW place, Places(s, removed, text, place),
         NEW a \in 1..Len(text), NEW b \in 1..Len(text), a < b, Opened(text, a, b)
  PROVE  Unbroken(s, text, place, a, b - a)
<1> DEFINE n == b - a
           S == {d \in 0..n : \A e \in 0..d : place[a + e] = place[a] + e}
<1>1. /\ n \in Nat /\ Len(text) \in Nat
      /\ \A i \in 1..Len(text) : place[i] \in Kept(s, removed) /\ place[i] \in 1..Len(s)
  BY DEF Places, Kept
<1>2. 0 \in S
  BY <1>1
<1>3. ASSUME NEW d \in 1..n, d - 1 \in S PROVE d \in S
  <2> DEFINE q == place[a] + d
  <2>1. /\ d \in 0..n /\ a + d \in 1..Len(text) /\ a + (d - 1) \in 1..Len(text)
        /\ a + (d - 1) < a + d /\ (a + (d - 1)) + 1 = a + d
    BY <1>1
  <2>2. \A e \in 0..(d - 1) : place[a + e] = place[a] + e
    BY <1>3
  <2>3. place[a + (d - 1)] = q - 1 /\ place[a + (d - 1)] + 1 = q /\ place[a] \in Nat
    <3>1. place[a] \in Nat
      BY <1>1
    <3>2. d - 1 \in 0..(d - 1)
      OBVIOUS
    <3>3. place[a + (d - 1)] = place[a] + (d - 1)
      BY <2>2, <3>2
    <3> QED BY <3>1, <3>3
  <2>4. q \in 1..Len(s)
    <3>1. place[a + (d - 1)] < place[a + d]
      BY <2>1 DEF Places
    <3> QED BY <3>1, <2>1, <2>3, <1>1
  <2>5. q \in Kept(s, removed)
    <3> SUFFICES ASSUME NEW m \in removed, q \in m[1]..m[2] PROVE FALSE
      BY <2>4 DEF Kept
    <3>1. m[1] \in 1..Len(s) /\ m[2] \in 1..Len(s) /\ s[m[1]] = Opening
      BY MarkerTyped
    <3>2. place[a + (d - 1)] \notin m[1]..m[2]
      BY <1>1, <2>1 DEF Kept
    <3> HIDE DEF q
    <3>3. q - 1 \notin m[1]..m[2]
      BY <2>3, <3>2
    <3>4. m[1] = q
      BY <2>4, <3>1, <3>3
    <3>5. s[q] = Opening
      BY <3>1, <3>4
    <3>6. s[place[a]] = Opening
      BY DEF Places, Opened
    <3>7. ASSUME NEW k \in (place[a] + 1)..(q - 1) PROVE s[k] \in Digits
      <4> DEFINE e == k - place[a]
      <4>1. e \in 1..(d - 1) /\ place[a] + e = k
        BY <2>3 DEF q
      <4> HIDE DEF e
      <4>2. a + e \in (a + 1)..(b - 1) /\ a + e \in 1..Len(text) /\ e \in 0..(d - 1)
        <5>1. a \in Nat /\ b \in Nat /\ d \in Nat /\ e \in Nat
          BY <1>1, <4>1
        <5>2. b <= Len(text) /\ Len(text) \in Nat /\ d <= b - a /\ e <= d - 1 /\ 1 <= e /\ 1 <= a
          BY <1>1, <4>1
        <5> QED BY <5>1, <5>2
      <4>3. text[a + e] \in Digits /\ text[a + e] = s[place[a + e]]
        BY <4>2 DEF Opened, Places
      <4> QED BY <4>1, <4>2, <4>3, <2>2
    <3>8. place[a] \in DOMAIN s /\ q \in DOMAIN s /\ place[a] < q
      BY <1>1, <2>4 DEF q
    <3> QED BY <3>5, <3>6, <3>7, <3>8 DEF Nested, Opened
  <2>6. place[a + d] = q
    <3> HIDE DEF q
    <3>1. place[(a + (d - 1)) + 1] = place[a + (d - 1)] + 1
      BY <2>1, <2>3, <2>5, NextPlace
    <3> QED BY <3>1, <2>1, <2>3
  <2>7. \A e \in 0..d : e = d \/ e \in 0..(d - 1)
    OBVIOUS
  <2> QED BY <2>1, <2>2, <2>6, <2>7
<1> HIDE DEF S
<1>4. 0..n \subseteq S
  BY <1>1, <1>2, <1>3, InductionUpTo
<1>5. n \in S /\ (\A d \in 0..n : d \in 0..n)
  BY <1>1, <1>4
<1>6. ASSUME NEW d \in 0..n
      PROVE  /\ a + d \in 1..Len(text) /\ place[a + d] = place[a] + d
             /\ text[a + d] = s[place[a] + d]
  <2>1. a + d \in 1..Len(text)
    BY <1>1
  <2> HIDE DEF n
  <2>2. place[a + d] = place[a] + d
    BY <1>5 DEF S
  <2> QED BY <2>1, <2>2 DEF Places
<1> QED BY <1>6 DEF Unbroken

\* So a removal from such a text neither nests brackets ...
LEMMA NotNestedStays ==
  ASSUME NEW s \in Seq(Chars), ~Nested(s), NEW removed, removed \subseteq Markers(s)
  PROVE  ~Nested(Without(s, removed))
<1> DEFINE text == Without(s, removed)
<1>1. PICK place : Places(s, removed, text, place)
  BY LeftInPlace
<1> HIDE DEF text
<1> SUFFICES ASSUME Nested(text) PROVE FALSE
  BY DEF text
<1>2. PICK a \in 1..Len(text), b \in 1..Len(text) :
        a < b /\ Opened(text, a, b) /\ text[b] = Opening
  BY <1>1 DEF Nested, Places
<1>3. Unbroken(s, text, place, a, b - a)
  BY <1>1, <1>2, OpenedBefore
<1>4. place[a] \in 1..Len(s) /\ place[b] \in 1..Len(s) /\ s[place[a]] = Opening
      /\ s[place[b]] = Opening
  BY <1>1, <1>2 DEF Places, Kept, Opened
<1>5. place[b] = place[a] + (b - a)
  <2>1. b - a \in 0..(b - a) /\ a + (b - a) = b
    BY <1>2
  <2> QED BY <2>1, <1>3 DEF Unbroken
<1>6. ASSUME NEW k \in (place[a] + 1)..(place[b] - 1) PROVE s[k] \in Digits
  <2> DEFINE e == k - place[a]
  <2>1. e \in 0..(b - a) /\ place[a] + e = k /\ a + e \in (a + 1)..(b - 1)
    <3> DEFINE x == place[a]
    <3>1. x \in Nat /\ k \in (x + 1)..((x + (b - a)) - 1)
      BY <1>4, <1>5
    <3> HIDE DEF x
    <3>2. k - x \in 1..(b - a - 1) /\ x + (k - x) = k
      BY <3>1, <1>2
    <3>3. e = k - x
      BY DEF x
    <3> HIDE DEF e
    <3>4. e \in 0..(b - a) /\ a + e \in (a + 1)..(b - 1)
      BY <3>2, <3>3, <1>2
    <3> QED BY <3>2, <3>3, <3>4 DEF x
  <2>2. a + e \in 1..Len(text)
    BY <1>2, <2>1
  <2> HIDE DEF e
  <2>3. text[a + e] \in Digits /\ text[a + e] = s[place[a] + e]
    BY <1>2, <1>3, <2>1 DEF Opened, Unbroken
  <2> QED BY <2>1, <2>3
<1>7. place[a] \in DOMAIN s /\ place[b] \in DOMAIN s /\ place[a] < place[b]
  BY <1>2, <1>4, <1>5
<1> QED BY <1>4, <1>6, <1>7 DEF Nested, Opened

\* ... nor puts a marker together: each that is left is one that was not removed.
LEMMA NoNewMarker ==
  ASSUME NEW s \in Seq(Chars), ~Nested(s), NEW removed, removed \subseteq Markers(s),
         NEW o \in Markers(Without(s, removed))
  PROVE  \E m \in Markers(s) \ removed : WordOf(s, m) = WordOf(Without(s, removed), o)
<1> DEFINE text == Without(s, removed)
<1>1. PICK place : Places(s, removed, text, place)
  BY LeftInPlace
<1> DEFINE a == o[1]
           b == o[2]
<1>2. /\ text \in Seq(Chars) /\ a \in 1..Len(text) /\ b \in 1..Len(text) /\ a + 1 < b
      /\ text[a] = Opening /\ text[b] = Closing
      /\ \A k \in (a + 1)..(b - 1) : text[k] \in Digits
  <2>1. text \in Seq(Chars)
    BY <1>1 DEF Places
  <2> QED BY <2>1, MarkerTyped
<1>3. WordOf(text, o) = [d \in 1..(b - a - 1) |-> text[a + d]]
  BY DEF WordOf
<1> HIDE DEF text, a, b
<1>4. Unbroken(s, text, place, a, b - a)
  <2>1. Opened(text, a, b) /\ a < b
    BY <1>2 DEF Opened
  <2> QED BY <1>1, <1>2, <2>1, OpenedBefore
<1>5. \A i \in 1..Len(text) : /\ place[i] \in 1..Len(s) /\ text[i] = s[place[i]]
                              /\ place[i] \in Kept(s, removed)
  BY <1>1 DEF Places, Kept
<1> DEFINE m == <<place[a], place[b]>>
<1>6. place[b] = place[a] + (b - a)
  <2>1. b - a \in 0..(b - a) /\ a + (b - a) = b
    BY <1>2
  <2> QED BY <2>1, <1>4 DEF Unbroken
<1>7. ASSUME NEW d \in 1..(b - a - 1) PROVE s[place[a] + d] = text[a + d] /\ text[a + d] \in Digits
  <2>1. d \in 0..(b - a) /\ a + d \in 1..Len(text) /\ a + d \in (a + 1)..(b - 1)
    BY <1>2
  <2> QED BY <2>1, <1>2, <1>4 DEF Unbroken
<1>8. m \in Markers(s)
  <2>1. place[a] \in 1..Len(s) /\ place[b] \in 1..Len(s) /\ place[a] + 1 < place[b]
    BY <1>2, <1>5, <1>6
  <2>2. s[place[a]] = Opening /\ s[place[b]] = Closing
    BY <1>2, <1>5
  <2>3. ASSUME NEW k \in (place[a] + 1)..(place[b] - 1) PROVE s[k] \in Digits
    <3>1. k - place[a] \in 1..(b - a - 1) /\ place[a] + (k - place[a]) = k
      BY <1>2, <1>6, <2>1
    <3> QED BY <3>1, <1>7
  <2> QED BY <2>1, <2>2, <2>3 DEF Markers, Opened
<1>9. m \notin removed
  <2>1. place[a] \in m[1]..m[2] /\ place[a] \in Kept(s, removed)
    BY <1>2, <1>5, <1>6
  <2> QED BY <2>1 DEF Kept
<1>10. WordOf(s, m) = WordOf(text, o)
  <2>1. place[b] - place[a] - 1 = b - a - 1
    BY <1>2, <1>5, <1>6
  <2>2. WordOf(s, m) = [d \in 1..(b - a - 1) |-> s[place[a] + d]]
    BY <2>1 DEF WordOf
  <2> QED BY <2>2, <1>3, <1>7
<1> QED BY <1>8, <1>9, <1>10 DEF text

-----------------------------------------------------------------------------
(* The cleaned text *)

\* What the passes over the first k of the listed numbers keep and leave of s: the sourced
\* markers and the beginning before the first bracket, and, without nested brackets, of the
\* plain markers only those of other numbers.
CleanedOf(s, listed, k, text) ==
  /\ text \in Seq(Chars)
  /\ k = 0 => text = s
  /\ Seen(s) \cap Sources \subseteq Seen(text)
  /\ \A p \in 0..Len(s) : (\A j \in 1..p : s[j] # Opening)
                            => p <= Len(text) /\ \A j \in 1..p : text[j] = s[j]
  /\ ~Nested(s) =>
       /\ ~Nested(text)
       /\ \A m \in Markers(text) :
            Plain(WordOf(text, m)) =>
              /\ Number(WordOf(text, m)) \in Seen(s)
              /\ \A i \in 1..k : Number(WordOf(text, m)) # listed[i]

LEMMA NothingCleaned ==
  ASSUME NEW s \in Seq(Chars), NEW listed
  PROVE  CleanedOf(s, listed, 0, s)
  BY DEF CleanedOf, Seen

\* One pass of replace() keeps that.
LEMMA OnePass ==
  ASSUME NEW s \in Seq(Chars), NEW listed, NEW k \in Nat \ {0}, NEW text,
         listed[k] \notin Sources, CleanedOf(s, listed, k - 1, text)
  PROVE  CleanedOf(s, listed, k, Removed(text, listed[k]))
<1> DEFINE n == listed[k]
           gone == Spelled(text, n)
           left == Removed(text, n)
<1>1. text \in Seq(Chars) /\ gone \subseteq Markers(text) /\ left = Without(text, gone)
  BY DEF CleanedOf, Spelled, Removed
<1>2. left \in Seq(Chars)
  BY <1>1, LeftInPlace DEF Places
<1>3. \A m \in Markers(text) : m \in gone <=> Plain(WordOf(text, m)) /\ Number(WordOf(text, m)) = n
  BY DEF Spelled
<1> HIDE DEF gone, left, n
<1>4. ASSUME NEW x \in Seen(s) \cap Sources PROVE x \in Seen(left)
  <2>1. x \in Seen(text) /\ x # n
    BY DEF CleanedOf, n
  <2>2. PICK m \in Markers(text) : Number(WordOf(text, m)) = x
    BY <2>1 DEF Seen
  <2>3. m \notin gone
    BY <2>1, <2>2, <1>3
  <2>4. PICK o \in Markers(left) : WordOf(left, o) = WordOf(text, m)
    BY <2>3, <1>1, MarkerStays
  <2> QED BY <2>2, <2>4 DEF Seen
<1>5. ASSUME NEW p \in 0..Len(s), \A j \in 1..p : s[j] # Opening
      PROVE  p <= Len(left) /\ \A j \in 1..p : left[j] = s[j]
  <2>1. p <= Len(text) /\ \A j \in 1..p : text[j] = s[j]
    BY <1>5 DEF CleanedOf
  <2>2. p \in 0..Len(text) /\ \A j \in 1..p : text[j] # Opening
    BY <1>1, <1>5, <2>1
  <2>3. p <= Len(left) /\ \A j \in 1..p : left[j] = text[j]
    BY <1>1, <2>2, BeginningStays
  <2> QED BY <2>1, <2>3
<1>6. ASSUME ~Nested(s)
      PROVE  /\ ~Nested(left)
             /\ \A o \in Markers(left) :
                  Plain(WordOf(left, o)) =>
                    /\ Number(WordOf(left, o)) \in Seen(s)
                    /\ \A i \in 1..k : Number(WordOf(left, o)) # listed[i]
  <2>1. /\ ~Nested(text)
        /\ \A m \in Markers(text) :
             Plain(WordOf(text, m)) =>
               /\ Number(WordOf(text, m)) \in Seen(s)
               /\ \A i \in 1..(k - 1) : Number(WordOf(text, m)) # listed[i]
    BY <1>6 DEF CleanedOf
  <2>2. ~Nested(left)
    BY <1>1, <2>1, NotNestedStays
  <2>3. ASSUME NEW o \in Markers(left), Plain(WordOf(left, o))
        PROVE  /\ Number(WordOf(left, o)) \in Seen(s)
               /\ \A i \in 1..k : Number(WordOf(left, o)) # listed[i]
    <3>1. PICK m \in Markers(text) \ gone : WordOf(text, m) = WordOf(left, o)
      BY <1>1, <2>1, NoNewMarker
    <3>2. Number(WordOf(left, o)) # n
      BY <1>3, <2>3, <3>1
    <3>3. /\ Number(WordOf(left, o)) \in Seen(s)
          /\ \A i \in 1..(k - 1) : Number(WordOf(left, o)) # listed[i]
      BY <2>1, <2>3, <3>1
    <3>4. \A i \in 1..k : i = k \/ i \in 1..(k - 1)
      OBVIOUS
    <3> QED BY <3>2, <3>3, <3>4 DEF n
  <2> QED BY <2>2, <2>3
<1>7. k # 0
  OBVIOUS
<1>8. CleanedOf(s, listed, k, left)
  BY <1>2, <1>4, <1>5, <1>6, <1>7 DEF CleanedOf
<1> QED BY <1>8 DEF left, n

\* So does the whole clean-up.
LEMMA CleanedText ==
  ASSUME NEW s \in Seq(Chars)
  PROVE  LET listed == InOrder(Seen(s) \ Sources)
         IN  /\ Len(listed) \in Nat
             /\ \A x \in Seen(s) \ Sources : \E i \in 1..Len(listed) : listed[i] = x
             /\ Seen(s) \ Sources = {} => Len(listed) = 0
             /\ CleanedOf(s, listed, Len(listed), Cleaned(s))
<1> DEFINE bad == Seen(s) \ Sources
           listed == InOrder(bad)
           N == Len(listed)
           A == Seq(Chars)
           pass(text, k) == Removed(text, listed[k])
           step == [x \in A \X (1..N) |-> pass(x[1], x[2])]
           Passes(f) == f = [k \in 0..N |-> IF k = 0 THEN s ELSE Removed(f[k - 1], listed[k])]
<1>1. bad \subseteq Nat /\ IsFiniteSet(bad)
  <2>1. Seen(s) \subseteq Nat /\ IsFiniteSet(Seen(s)) /\ bad \in SUBSET Seen(s)
    BY SeenTyped
  <2> HIDE DEF bad
  <2> QED BY <2>1, FS_Subset
<1>2. Cardinality(bad) \in Nat /\ Len(listed) = Cardinality(bad) /\ IsListing(listed, bad, Smaller)
  <2> HIDE DEF bad
  <2> QED BY <1>1, Ascending
<1>3. /\ N \in Nat /\ \A k \in 1..N : listed[k] \in bad
      /\ \A x \in bad : \E i \in 1..N : listed[i] = x
  <2> HIDE DEF bad, listed
  <2> QED BY <1>2 DEF IsListing
<1>4. bad = {} => N = 0
  <2>1. Cardinality({}) = 0
    BY FS_EmptySet
  <2> HIDE DEF bad, listed
  <2> QED BY <1>2, <2>1
<1>5. \A k \in 1..N : listed[k] \notin Sources
  <2> HIDE DEF listed
  <2> QED BY <1>3
<1> HIDE DEF N, listed
<1>6. step \in Steps(A, N)
  <2>1. ASSUME NEW x \in A \X (1..N) PROVE pass(x[1], x[2]) \in A
    <3>1. x[1] \in Seq(Chars)
      OBVIOUS
    <3>2. Removed(x[1], listed[x[2]]) = Without(x[1], Spelled(x[1], listed[x[2]]))
      BY DEF Removed
    <3> QED BY <3>1, <3>2, LeftInPlace DEF Places
  <2> HIDE DEF A, pass
  <2> QED BY <2>1 DEF Steps
<1>7. PICK f : Iterates(f, N, A, s, step)
  <2> HIDE DEF step
  <2> QED BY <1>3, <1>6, Recursion
<1>8. Passes(f)
  <2>1. ASSUME NEW k \in 1..N PROVE f[k] = pass(f[k - 1], k)
    <3>1. k - 1 \in 0..N
      BY <1>3
    <3> HIDE DEF A, pass
    <3>2. <<f[k - 1], k>> \in A \X (1..N)
      BY <3>1, <1>7 DEF Iterates
    <3> QED BY <3>2, <1>7 DEF Iterates
  <2>2. f = [k \in 0..N |-> f[k]] /\ f[0] = s
    BY <1>7 DEF Iterates
  <2>3. \A k \in 0..N : k # 0 => k \in 1..N
    BY <1>3
  <2> QED BY <2>1, <2>2, <2>3
<1>9. ASSUME NEW g, Passes(g) PROVE CleanedOf(s, listed, N, g[N])
  <2> DEFINE S == {k \in 0..N : CleanedOf(s, listed, k, g[k])}
  <2>1. 0 \in S
    <3>1. g[0] = s /\ 0 \in 0..N
      BY <1>9, <1>3
    <3> QED BY <3>1, NothingCleaned
  <2>2. ASSUME NEW k \in 1..N, k - 1 \in S PROVE k \in S
    <3>1. k \in 0..N /\ k \in Nat \ {0}
      BY <1>3
    <3>2. g[k] = Removed(g[k - 1], listed[k])
      BY <1>9, <3>1
    <3>3. CleanedOf(s, listed, k - 1, g[k - 1]) /\ listed[k] \notin Sources
      BY <2>2, <1>5
    <3> HIDE DEF Passes
    <3>4. CleanedOf(s, listed, k, g[k])
      BY <3>1, <3>2, <3>3, OnePass
    <3> QED BY <3>1, <3>4
  <2> HIDE DEF S
  <2>3. 0..N \subseteq S
    BY <2>1, <2>2, InductionUpTo, <1>3
  <2>4. N \in S
    BY <2>3, <1>3
  <2> QED BY <2>4 DEF S
<1>10. CleanedOf(s, listed, N, Cleaned(s))
  BY <1>8, <1>9 DEF Cleaned, N, listed
<1> QED BY <1>3, <1>4, <1>10 DEF N, listed

\* A refusal stays one when markers are removed from what follows it.
LEMMA RefusalStays ==
  ASSUME NEW s \in Seq(Chars), Refusing(s)
  PROVE  Refusing(Cleaned(s))
<1>1. PICK k \in 0..Len(s) : /\ LeadingBlanks(s, k)
                             /\ Len(s) - k >= Len(RefusalPrefix)
                             /\ Agrees(s, k, Len(RefusalPrefix))
  BY DEF Refusing
<1> DEFINE n == Len(RefusalPrefix)
           p == k + n
           text == Cleaned(s)
<1>2. n \in Nat \ {0} /\ k \in Nat /\ Len(s) \in Nat /\ p \in 0..Len(s)
      /\ DOMAIN RefusalPrefix = 1..n
  BY <1>1, GateAssumption
<1>3. ASSUME NEW j \in 1..p PROVE s[j] # Opening
  <2>1. CASE j \in 1..k
    <3>1. s[j] \in Blanks
      BY <2>1, <1>1 DEF LeadingBlanks
    <3> QED BY <3>1, GateAssumption
  <2>2. CASE j \notin 1..k
    <3>1. j - k \in 1..n /\ k + (j - k) = j
      BY <2>2, <1>2
    <3>2. Fold[s[j]] = Fold[RefusalPrefix[j - k]]
      BY <3>1, <1>1 DEF Agrees
    <3> QED BY <3>1, <3>2, <1>2, GateAssumption
  <2> QED BY <2>1, <2>2
<1>4. text \in Seq(Chars) /\ p <= Len(text) /\ \A j \in 1..p : text[j] = s[j]
  <2> HIDE DEF p
  <2> QED BY <1>2, <1>3, CleanedText DEF CleanedOf
<1> HIDE DEF n, text
<1>5. LeadingBlanks(text, k)
  <2>1. \A i \in 1..k : i \in 1..p
    BY <1>2
  <2>2. k + 1 \in 1..p /\ k < Len(s)
    BY <1>2
  <2> HIDE DEF p
  <2> QED BY <2>1, <2>2, <1>4, <1>1 DEF LeadingBlanks
<1>6. Agrees(text, k, n)
  <2>1. \A i \in 1..n : k + i \in 1..p
    BY <1>2
  <2> HIDE DEF p
  <2> QED BY <2>1, <1>4, <1>1 DEF Agrees, n
<1>7. k \in 0..Len(text) /\ Len(text) - k >= n
  BY <1>2, <1>4
<1> QED BY <1>5, <1>6, <1>7 DEF Refusing, text, n

\* The sentence of a refusal holds no marker, and is not changed by the clean-up.
LEMMA RefusalUnchanged ==
  /\ RefusalPrefix \in Seq(Chars)
  /\ Markers(RefusalPrefix) = {} /\ Seen(RefusalPrefix) = {}
  /\ Cleaned(RefusalPrefix) = RefusalPrefix
<1>1. RefusalPrefix \in Seq(Chars) /\ \A i \in 1..Len(RefusalPrefix) : RefusalPrefix[i] # Opening
  BY GateAssumption
<1>2. Markers(RefusalPrefix) = {}
  BY <1>1, MarkerTyped
<1>3. Seen(RefusalPrefix) = {}
  BY <1>2 DEF Seen
<1>4. Cleaned(RefusalPrefix) = RefusalPrefix
  BY <1>1, <1>3, CleanedText DEF CleanedOf
<1> QED BY <1>1, <1>2, <1>3, <1>4

\* The gate does not change what is stored: a refusal that it cut to the fixed sentence is
\* stored as the whole refusal would be.
LEMMA GateKeepsResult ==
  ASSUME NEW s \in Seq(Chars)
  PROVE  FinalAnswer(Whole(s)) = FinalAnswer(s) /\ FinalCitations(Whole(s)) = FinalCitations(s)
<1>1. CASE Whole(s) = s
  BY <1>1
<1>2. CASE Whole(s) # s
  <2>1. Refusing(s) /\ Whole(s) = RefusalPrefix
    BY <1>2 DEF Whole
  <2>2. Refusing(Cleaned(s))
    BY <2>1, RefusalStays
  <2> QED BY <2>1, <2>2, RefusalUnchanged DEF FinalAnswer, FinalCitations
<1> QED BY <1>1, <1>2

\* Citations and markers of a stored answer belong together.
LEMMA CitationsOfAnswer ==
  ASSUME NEW s \in Seq(Chars)
  PROVE  /\ FinalAnswer(s) \in Seq(Chars)
         /\ FinalCitations(s) \subseteq Sources
         /\ FinalCitations(s) \subseteq Seen(FinalAnswer(s))
         /\ ~Nested(s) =>
              \A m \in Markers(FinalAnswer(s)) :
                Plain(WordOf(FinalAnswer(s), m))
                  => Number(WordOf(FinalAnswer(s), m)) \in FinalCitations(s)
<1>1. CASE Refusing(Cleaned(s))
  <2>1. FinalAnswer(s) = RefusalPrefix /\ FinalCitations(s) = {}
    BY <1>1 DEF FinalAnswer, FinalCitations
  <2> QED BY <2>1, RefusalUnchanged
<1>2. CASE ~Refusing(Cleaned(s))
  <2> DEFINE text == Cleaned(s)
             listed == InOrder(Seen(s) \ Sources)
  <2>1. FinalAnswer(s) = text /\ FinalCitations(s) = Seen(s) \cap Sources
    BY <1>2 DEF FinalAnswer, FinalCitations
  <2>2. /\ \A x \in Seen(s) \ Sources : \E i \in 1..Len(listed) : listed[i] = x
        /\ CleanedOf(s, listed, Len(listed), text)
    BY CleanedText
  <2> HIDE DEF text, listed
  <2>3. text \in Seq(Chars) /\ Seen(s) \cap Sources \subseteq Seen(text)
    BY <2>2 DEF CleanedOf
  <2>4. ASSUME ~Nested(s), NEW m \in Markers(text), Plain(WordOf(text, m))
        PROVE  Number(WordOf(text, m)) \in Seen(s) \cap Sources
    <3>1. /\ Number(WordOf(text, m)) \in Seen(s)
          /\ \A i \in 1..Len(listed) : Number(WordOf(text, m)) # listed[i]
      BY <2>2, <2>4 DEF CleanedOf
    <3> QED BY <3>1, <2>2
  <2> QED BY <2>1, <2>3, <2>4
<1> QED BY <1>1, <1>2

-----------------------------------------------------------------------------
(* The invariant *)

\* While the stream is open, the gate's mode is what the tests say of all that was fed.
GateInv ==
  /\ output \in Seq(Chars)
  /\ fed \in Seq(Chars) /\ mode \in {"pending", "normal", "refusal"} /\ done \in BOOLEAN
  /\ mode # "pending" => buffer = <<>>
  /\ ~done /\ mode = "pending" => Undecided(fed) /\ buffer = fed /\ shown = <<>>
  /\ ~done /\ mode = "normal" => ~Undecided(fed) /\ ~Refusing(fed) /\ shown = fed
  /\ ~done /\ mode = "refusal" => ~Undecided(fed) /\ Refusing(fed) /\ shown = RefusalPrefix

\* What is stored is the finished text of what the client was shown.
ResultInv ==
  /\ ~done => answer = <<>> /\ cited = {}
  /\ done => /\ fed = output
             /\ answer = FinalAnswer(shown) /\ cited = FinalCitations(shown)
             /\ shown \in Seq(Chars) /\ mode # "pending"

IInv == GateInv /\ SplitIndependent /\ ResultInv

LEMMA InitInv == Init => IInv
<1> SUFFICES ASSUME Init PROVE IInv
  OBVIOUS
<1>1. <<>> \in Seq(Chars) /\ Len(<<>>) = 0 /\ output \in Seq(Chars)
  BY GateAssumption DEF Init
<1>2. Undecided(<<>>)
  <2> DEFINE e == <<>>
  <2>1. e \in Seq(Chars) /\ \A i \in 1..Len(e) : e[i] \in Blanks
    BY <1>1
  <2> HIDE DEF e
  <2>2. Undecided(e)
    BY <2>1, BlankIsUndecided
  <2> QED
    BY <2>2 DEF e
<1> QED
  BY <1>1, <1>2 DEF Init, IInv, GateInv, SplitIndependent, ResultInv

LEMMA OpenStream ==
  ASSUME GateInv, ~done
  PROVE  SplitIndependent
  BY DEF GateInv, SplitIndependent, Whole

LEMMA FeedInv ==
  ASSUME IInv, NEW delta \in Seq(Chars), Feed(delta)
  PROVE  IInv'
<1>1. /\ fed \in Seq(Chars) /\ fed' = fed \o delta /\ fed' \in Seq(Chars)
      /\ ~done /\ done' = done /\ output' = output /\ output \in Seq(Chars)
  BY Grown DEF IInv, GateInv, Feed, result
<1>2. ASSUME mode = "refusal" PROVE (GateInv /\ SplitIndependent)'
  <2>1. UNCHANGED <<mode, buffer, shown>>
    BY <1>2 DEF Feed, gate
  <2>2. ~Undecided(fed') /\ Refusing(fed')
    BY <1>1, <1>2, UndecidedShrinks, RefusalDecided DEF IInv, GateInv
  <2> QED
    BY <1>1, <1>2, <2>1, <2>2 DEF IInv, GateInv, SplitIndependent, Whole
<1>3. ASSUME mode = "normal" PROVE (GateInv /\ SplitIndependent)'
  <2>1. UNCHANGED <<mode, buffer>> /\ shown' = fed'
    BY <1>1, <1>3 DEF Feed, gate, IInv, GateInv
  <2>2. ~Undecided(fed') /\ ~Refusing(fed')
    BY <1>1, <1>3, UndecidedShrinks, RefusalDecided DEF IInv, GateInv
  <2> QED
    BY <1>1, <1>3, <2>1, <2>2 DEF IInv, GateInv, SplitIndependent, Whole
<1>4. ASSUME mode = "pending" PROVE (GateInv /\ SplitIndependent)'
  <2>1. Buffered(delta) = fed' /\ shown = <<>>
    BY <1>1, <1>4 DEF Buffered, IInv, GateInv
  <2>2. <<>> \o RefusalPrefix = RefusalPrefix /\ <<>> \o fed' = fed'
    BY <1>1, GateAssumption
  <2>3. CASE Pending(fed')
    BY <1>1, <1>4, <2>1, <2>3 DEF Pending, IInv, GateInv, SplitIndependent, Whole
  <2>4. CASE Refuse(fed')
    BY <1>1, <2>1, <2>2, <2>4 DEF Refuse, IInv, GateInv, SplitIndependent, Whole
  <2>5. CASE Release(fed')
    BY <1>1, <2>1, <2>2, <2>5 DEF Release, IInv, GateInv, SplitIndependent, Whole
  <2> QED
    BY <1>4, <2>1, <2>3, <2>4, <2>5 DEF Feed
<1>5. ResultInv'
  BY <1>1 DEF Feed, result, IInv, ResultInv
<1> QED
  BY <1>2, <1>3, <1>4, <1>5 DEF IInv, GateInv

LEMMA FinishInv ==
  ASSUME IInv, Finish
  PROVE  IInv'
<1>1. /\ fed \in Seq(Chars) /\ fed' = fed /\ ~done /\ done'
      /\ output \in Seq(Chars) /\ output' = output /\ fed = output
  BY DEF IInv, GateInv, Finish
<1>2. mode' \in {"pending", "normal", "refusal"}
  BY DEF IInv, GateInv, Finish
<1>3. shown' = Whole(fed)
  <2>1. CASE mode = "pending"
    BY <1>1, <2>1 DEF Finish, HeldBack, Whole, IInv, GateInv
  <2>2. CASE mode = "normal"
    BY <1>1, <2>2 DEF Finish, HeldBack, Whole, IInv, GateInv
  <2>3. CASE mode = "refusal"
    BY <1>1, <2>3, GateAssumption DEF Finish, HeldBack, Whole, IInv, GateInv
  <2> QED
    BY <2>1, <2>2, <2>3 DEF IInv, GateInv
<1>4. (GateInv /\ SplitIndependent)'
  BY <1>1, <1>2, <1>3 DEF Finish, GateInv, SplitIndependent, Whole, Undecided, Refusing
<1>5. shown' \in Seq(Chars)
  BY <1>1, <1>3, GateAssumption DEF Whole
<1>6. answer' = FinalAnswer(shown)' /\ cited' = FinalCitations(shown)'
  <2>1. shown' = shown \o HeldBack /\ answer' = FinalAnswer(shown \o HeldBack)
        /\ cited' = FinalCitations(shown \o HeldBack)
    BY DEF Finish
  <2>2. FinalAnswer(shown)' = FinalAnswer(shown') /\ FinalCitations(shown)' = FinalCitations(shown')
    OBVIOUS
  <2> QED
    BY <2>1, <2>2
<1>7. ResultInv'
  BY <1>1, <1>5, <1>6 DEF ResultInv, Finish
<1> QED
  BY <1>4, <1>7 DEF IInv

\* Every step keeps the invariant.
LEMMA Inductive == IInv /\ [Next]_vars => IInv'
<1> SUFFICES ASSUME IInv, [Next]_vars PROVE IInv'
  OBVIOUS
<1>1. ASSUME NEW last \in (Len(fed) + 1)..Len(output),
             Feed(SubSeq(output, Len(fed) + 1, last))
      PROVE  IInv'
  <2>1. output \in Seq(Chars) /\ fed \in Seq(Chars)
    BY DEF IInv, GateInv
  <2>2. SubSeq(output, Len(fed) + 1, last) \in Seq(Chars)
    BY <2>1
  <2> QED
    BY <1>1, <2>2, FeedInv
<1>2. CASE Finish
  BY <1>2, FinishInv
<1>3. CASE UNCHANGED vars
  <2>1. UNCHANGED <<output, fed, mode, buffer, shown, done, answer, cited>>
    BY <1>3 DEF vars, gate, result
  <2>2. (GateInv /\ SplitIndependent)'
    BY <2>1 DEF IInv, GateInv, SplitIndependent, Whole, Undecided, Refusing
  <2>3. FinalAnswer(shown)' = FinalAnswer(shown) /\ FinalCitations(shown)' = FinalCitations(shown)
    BY <2>1
  <2> QED
    BY <2>1, <2>2, <2>3 DEF IInv, ResultInv
<1> QED
  BY <1>1, <1>2, <1>3 DEF Next

\* The gate's mode is what all that was fed says, and the stored answer what was shown.
THEOREM GateInductive == Spec => []IInv
<1>1. Init => IInv
  BY InitInv
<1> QED
  BY <1>1, Inductive, PTL DEF Spec

\* Every reachable state of the gate and of the stored answer is well typed.
THEOREM GateTypeCorrect == Spec => []TypeOK
<1>1. IInv => TypeOK
  <2> SUFFICES ASSUME IInv PROVE TypeOK
    OBVIOUS
  <2>1. <<>> \in Seq(Chars) /\ RefusalPrefix \in Seq(Chars)
    BY GateAssumption
  <2>2. /\ output \in Seq(Chars) /\ fed \in Seq(Chars)
        /\ mode \in {"pending", "normal", "refusal"} /\ done \in BOOLEAN
    BY DEF IInv, GateInv
  <2>3. shown \in Seq(Chars)
    BY <2>1, <2>2 DEF IInv, GateInv, ResultInv
  <2>4. buffer \in Seq(Chars)
    BY <2>1, <2>2 DEF IInv, GateInv, ResultInv
  <2>5. answer \in Seq(Chars) /\ cited \subseteq Sources
    <3>1. CASE ~done
      BY <2>1, <3>1 DEF IInv, ResultInv
    <3>2. CASE done
      BY <2>3, <3>2, CitationsOfAnswer DEF IInv, ResultInv
    <3> QED
      BY <3>1, <3>2
  <2> QED
    BY <2>2, <2>3, <2>4, <2>5 DEF TypeOK
<1> QED
  BY <1>1, GateInductive, PTL

\* Feeding an answer in any pieces shows the same text as feeding it at once: nothing
\* while it may become a refusal (RefusalStreamGate.feed), then the fixed sentence or all.
THEOREM GateIgnoresSplits == Spec => []SplitIndependent
<1>1. IInv => SplitIndependent
  BY DEF IInv
<1> QED
  BY <1>1, GateInductive, PTL

\* The answer and the citations that a stream stores are those that POST /chat stores for the
\* same text of the model, although finalize_answer only sees what passed the gate.
THEOREM StreamStoresAsPost == Spec => []StoredAsUnstreamed
<1>1. IInv => StoredAsUnstreamed
  <2> SUFFICES ASSUME IInv, done
               PROVE  answer = FinalAnswer(fed) /\ cited = FinalCitations(fed)
    BY DEF StoredAsUnstreamed
  <2>1. fed \in Seq(Chars) /\ shown = Whole(fed)
    BY DEF IInv, GateInv, SplitIndependent
  <2> QED
    BY <2>1, GateKeepsResult DEF IInv, ResultInv
<1> QED
  BY <1>1, GateInductive, PTL

\* Every stored citation keeps its marker in the stored answer, which strip_invalid_markers
\* damages nowhere; and unless the model nested brackets, every plain marker of the stored
\* answer has its citation, whatever was removed between the others.
THEOREM CitationsHaveMarkers == Spec => []MarkersResolve
<1>1. IInv => MarkersResolve
  <2> SUFFICES ASSUME IInv, done
               PROVE  /\ cited \subseteq Seen(answer)
                      /\ ~Nested(output) =>
                           \A m \in Markers(answer) :
                             Plain(WordOf(answer, m)) => Number(WordOf(answer, m)) \in cited
    BY DEF MarkersResolve
  <2>1. fed \in Seq(Chars) /\ fed = output /\ shown = Whole(fed)
    BY DEF IInv, GateInv, ResultInv, SplitIndependent
  <2>2. answer = FinalAnswer(fed) /\ cited = FinalCitations(fed)
    BY <2>1, GateKeepsResult DEF IInv, ResultInv
  <2> QED
    BY <2>1, <2>2, CitationsOfAnswer
<1> QED
  BY <1>1, GateInductive, PTL
=============================================================================
