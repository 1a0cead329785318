------------------------------ MODULE TextProofs ------------------------------
(***************************************************************************)
(* What the operators of Sentences and Chunking do to the words of a text, *)
(* for any text and any limits: splitting at sentence ends, at separators  *)
(* and at hard limits, merging sentences and distributing the lines of a   *)
(* table over parts lose no word, repeat none and keep their order, and    *)
(* the pieces fit.  Each is shown for one more character, part, sentence   *)
(* or line, of a recursive function that is first shown to exist.          *)
(***************************************************************************)
EXTENDS Chunking, DataInduction, SequenceTheorems

-----------------------------------------------------------------------------
(* Concatenated sequences *)

\* What FlattenSeq adds up, member by member.
Flattening(ss, h, S) ==
  /\ h \in [0..Len(ss) -> Seq(S)]
  /\ h[0] = <<>>
  /\ \A k \in 1..Len(ss) : h[k] = h[k - 1] \o ss[k]

\* For any list of sequences there is such a sum.
LEMMA FlattenExists ==
  ASSUME NEW S, NEW ss \in Seq(Seq(S))
  PROVE  \E h : Flattening(ss, h, S)
<1> DEFINE N == Len(ss)
           step == [x \in Seq(S) \X (1..N) |-> x[1] \o ss[x[2]]]
<1>1. N \in Nat /\ \A k \in 1..N : ss[k] \in Seq(S)
  BY LenProperties, ElementOfSeq
<1>2. step \in Steps(Seq(S), N)
  BY <1>1, ConcatProperties DEF Steps
<1>3. <<>> \in Seq(S)
  OBVIOUS
<1>4. PICK h : Iterates(h, N, Seq(S), <<>>, step)
  <2> HIDE DEF N, step
  <2> QED BY <1>1, <1>2, <1>3, Recursion
<1>5. h \in [0..N -> Seq(S)] /\ h[0] = <<>> /\ \A k \in 1..N : h[k] = step[<<h[k - 1], k>>]
  BY <1>4 DEF Iterates
<1>6. ASSUME NEW k \in 1..N PROVE h[k] = h[k - 1] \o ss[k]
  <2>1. k - 1 \in 0..N
    BY <1>1
  <2>2. h[k - 1] \in Seq(S)
    BY <1>5, <2>1
  <2> QED BY <1>5, <2>2
<1> QED BY <1>5, <1>6 DEF Flattening

\* FlattenSeq is the last value of the sum.
LEMMA FlattenIs ==
  ASSUME NEW S, NEW ss \in Seq(Seq(S)), NEW h, Flattening(ss, h, S)
  PROVE  FlattenSeq(ss) = h[Len(ss)]
<1> DEFINE N == Len(ss)
           flatten == CHOOSE f : f = [i \in 1..N |-> IF i = 1 THEN ss[i] ELSE f[i - 1] \o ss[i]]
           g == [i \in 1..N |-> h[i]]
<1>1. N \in Nat /\ \A k \in 1..N : ss[k] \in Seq(S)
  BY LenProperties, ElementOfSeq
<1>2. h[0] = <<>> /\ \A k \in 1..N : h[k] = h[k - 1] \o ss[k]
  BY DEF Flattening
<1>3. CASE N = 0
  <2>1. ss = <<>>
    BY <1>3, EmptySeq
  <2> QED BY <2>1, <1>2, <1>3 DEF FlattenSeq
<1>4. CASE N # 0
  <2>1. g = [i \in 1..N |-> IF i = 1 THEN ss[i] ELSE g[i - 1] \o ss[i]]
    <3>1. ASSUME NEW i \in 1..N
          PROVE  h[i] = IF i = 1 THEN ss[i] ELSE g[i - 1] \o ss[i]
      <4>1. CASE i = 1
        <5>1. h[i] = <<>> \o ss[i]
          <6>1. h[i] = h[i - 1] \o ss[i]
            BY <1>2
          <6>3. i - 1 = 0
            BY <4>1
          <6>2. h[i - 1] = <<>>
            BY <6>3, <1>2
          <6> QED BY <6>1, <6>2
        <5>2. ss[i] \in Seq(S)
          BY <1>1
        <5> HIDE DEF g
        <5> QED BY <4>1, <5>1, <5>2, ConcatEmptySeq
      <4>2. CASE i # 1
        <5>1. i - 1 \in 1..N
          BY <4>2, <1>1
        <5>2. g[i - 1] = h[i - 1]
          BY <5>1
        <5> HIDE DEF g
        <5> QED BY <4>2, <5>2, <1>2
      <4> QED BY <4>1, <4>2
    <3> QED BY <3>1
  <2>2. flatten = [i \in 1..N |-> IF i = 1 THEN ss[i] ELSE flatten[i - 1] \o ss[i]]
    <3> HIDE DEF g
    <3> QED BY <2>1
  <2> DEFINE Same == {m \in 0..N : m > 0 => flatten[m] = h[m]}
  <2>3. 0..N \subseteq Same
    <3>1. 0 \in Same
      BY <1>1
    <3>2. ASSUME NEW m \in 1..N, m - 1 \in Same PROVE m \in Same
      <4> HIDE DEF flatten
      <4>1. flatten[m] = IF m = 1 THEN ss[m] ELSE flatten[m - 1] \o ss[m]
        BY <2>2
      <4>2. CASE m = 1
        <5>1. flatten[m] = h[m]
          <6>1. h[m] = <<>> \o ss[m]
            <7>1. h[m] = h[m - 1] \o ss[m]
              BY <1>2
            <7>3. m - 1 = 0
              BY <4>2
            <7>2. h[m - 1] = <<>>
              BY <7>3, <1>2
            <7> QED BY <7>1, <7>2
          <6>2. ss[m] \in Seq(S)
            BY <1>1
          <6> HIDE DEF flatten
          <6> QED BY <4>1, <4>2, <6>1, <6>2, ConcatEmptySeq
        <5>2. m \in 0..N
          BY <1>1
        <5> QED BY <5>1, <5>2
      <4>3. CASE m # 1
        <5>1. flatten[m - 1] = h[m - 1]
          BY <3>2, <4>3
        <5>2. flatten[m] = h[m]
          BY <5>1, <4>1, <4>3, <1>2
        <5>3. m \in 0..N
          BY <1>1
        <5> QED BY <5>2, <5>3
      <4>4. m > 0 /\ m \in 0..N
        BY <1>1
      <4> QED BY <4>2, <4>3, <4>4
    <3> HIDE DEF Same
    <3> QED BY <3>1, <3>2, <1>1, InductionUpTo
  <2>4. flatten[N] = h[N]
    <3> HIDE DEF flatten
    <3>1. N \in 0..N /\ N > 0
      BY <1>1, <1>4
    <3>2. N \in Same
      BY <2>3, <3>1
    <3> QED BY <3>1, <3>2
  <2>5. FlattenSeq(ss) = flatten[N]
    BY <1>4 DEF FlattenSeq
  <2> QED BY <2>4, <2>5
<1> QED BY <1>3, <1>4

\* Concatenating sequences over S gives one; nothing gives nothing; the last one comes last.
LEMMA FlattenProperties ==
  ASSUME NEW S, NEW ss \in Seq(Seq(S)), NEW s \in Seq(S)
  PROVE  /\ FlattenSeq(ss) \in Seq(S)
         /\ FlattenSeq(Append(ss, s)) = FlattenSeq(ss) \o s
         /\ Append(ss, s) \in Seq(Seq(S))
<1> DEFINE N == Len(ss)
           tt == Append(ss, s)
<1>1. N \in Nat
  BY LenProperties
<1>2. PICK h : Flattening(tt, h, S)
  BY FlattenExists, AppendProperties
<1>3. /\ tt \in Seq(Seq(S)) /\ Len(tt) = N + 1
      /\ \A i \in 1..N : tt[i] = ss[i]
      /\ tt[N + 1] = s
  BY AppendProperties
<1>4. /\ h \in [0..(N + 1) -> Seq(S)] /\ h[0] = <<>>
      /\ \A k \in 1..(N + 1) : h[k] = h[k - 1] \o tt[k]
  BY <1>2, <1>3 DEF Flattening
<1> DEFINE g == [k \in 0..N |-> h[k]]
<1>5. Flattening(ss, g, S)
  <2>1. g \in [0..N -> Seq(S)] /\ g[0] = <<>>
    BY <1>4, <1>1
  <2>2. ASSUME NEW k \in 1..N PROVE g[k] = g[k - 1] \o ss[k]
    <3>1. k - 1 \in 0..N /\ k \in 0..N /\ k \in 1..(N + 1)
      BY <1>1
    <3>2. g[k] = h[k] /\ g[k - 1] = h[k - 1]
      BY <3>1
    <3> QED BY <3>1, <3>2, <1>3, <1>4
  <2> HIDE DEF g
  <2> QED BY <2>1, <2>2 DEF Flattening
<1>6. FlattenSeq(ss) = h[N]
  <2>1. FlattenSeq(ss) = g[N]
    <3> HIDE DEF g
    <3> QED BY <1>5, FlattenIs
  <2> QED BY <2>1, <1>1
<1>7. FlattenSeq(tt) = h[N + 1]
  BY <1>2, <1>3, FlattenIs
<1>8. h[N + 1] = h[N] \o s
  <2>1. N + 1 \in 1..(N + 1) /\ (N + 1) - 1 = N
    BY <1>1
  <2> QED BY <2>1, <1>3, <1>4
<1>9. h[N] \in Seq(S)
  BY <1>1, <1>4
<1> QED BY <1>3, <1>6, <1>7, <1>8, <1>9

\* Of no sequences nothing is made.
LEMMA FlattenNothing == FlattenSeq(<<>>) = <<>>
  BY DEF FlattenSeq

\* One sequence is what it was.
LEMMA FlattenOne ==
  ASSUME NEW S, NEW s \in Seq(S)
  PROVE  FlattenSeq(<<s>>) = s
<1>1. <<s>> = Append(<<>>, s)
  OBVIOUS
<1>2. <<>> \in Seq(Seq(S))
  OBVIOUS
<1>3. FlattenSeq(<<s>>) = <<>> \o s
  BY <1>1, <1>2, FlattenProperties, FlattenNothing
<1> QED BY <1>3, ConcatEmptySeq

\* The sequences that end a sequence: induction over a sequence from its front.
LEMMA PrefixStep ==
  ASSUME NEW S, NEW s \in Seq(S), NEW n \in 1..Len(s)
  PROVE  /\ SubSeq(s, 1, n) = Append(SubSeq(s, 1, n - 1), s[n])
         /\ SubSeq(s, 1, n - 1) \in Seq(S) /\ SubSeq(s, 1, n) \in Seq(S)
         /\ s[n] \in S
         /\ Len(SubSeq(s, 1, n - 1)) = n - 1
<1>1. Len(s) \in Nat /\ n \in Int /\ n - 1 \in Int /\ \A i \in 1..Len(s) : s[i] \in S
  BY LenProperties, ElementOfSeq
<1>2. /\ SubSeq(s, 1, n) \in Seq(S) /\ Len(SubSeq(s, 1, n)) = n
      /\ \A i \in 1..n : SubSeq(s, 1, n)[i] = s[i]
  <2>1. \A i \in 1..n : s[i] \in S
    BY <1>1
  <2>2. \A i \in 1..(n - 1 + 1) : 1 + i - 1 = i
    BY <1>1
  <2>3. n - 1 + 1 = n /\ 1 <= n
    BY <1>1
  <2> QED BY <2>1, <2>2, <2>3, <1>1, SubSeqProperties
<1>3. /\ SubSeq(s, 1, n - 1) \in Seq(S) /\ Len(SubSeq(s, 1, n - 1)) = n - 1
      /\ \A i \in 1..(n - 1) : SubSeq(s, 1, n - 1)[i] = s[i]
  <2>1. \A i \in 1..(n - 1) : s[i] \in S
    BY <1>1
  <2>2. \A i \in 1..(n - 1 - 1 + 1) : 1 + i - 1 = i
    BY <1>1
  <2>3. n - 1 - 1 + 1 = n - 1 /\ (~(1 <= n - 1) => n - 1 = 0)
    BY <1>1
  <2> QED BY <2>1, <2>2, <2>3, <1>1, SubSeqProperties
<1>4. s[n] \in S
  BY <1>1
<1> DEFINE t == SubSeq(s, 1, n - 1)
           u == SubSeq(s, 1, n)
<1>5. /\ Append(t, s[n]) \in Seq(S) /\ Len(Append(t, s[n])) = n
      /\ \A i \in 1..(n - 1) : Append(t, s[n])[i] = t[i]
      /\ Append(t, s[n])[n] = s[n]
  <2> HIDE DEF t
  <2>1. t \in Seq(S) /\ Len(t) = n - 1 /\ (n - 1) + 1 = n
    BY <1>1, <1>3 DEF t
  <2> QED BY <2>1, <1>4, AppendProperties
<1>6. \A i \in 1..n : u[i] = Append(t, s[n])[i]
  <2> SUFFICES ASSUME NEW i \in 1..n PROVE u[i] = Append(t, s[n])[i]
    OBVIOUS
  <2>1. i = n \/ i \in 1..(n - 1)
    BY <1>1
  <2> QED BY <2>1, <1>2, <1>3, <1>5
<1>7. u = Append(t, s[n])
  <2>1. u \in Seq(S) /\ Len(u) = n
    BY <1>2
  <2> HIDE DEF u, t
  <2> QED BY <2>1, <1>5, <1>6, SeqEqual
<1> QED BY <1>2, <1>3, <1>4, <1>7

\* An element appended to the second of two sequences is appended to both.
LEMMA ConcatAppend ==
  ASSUME NEW S, NEW s \in Seq(S), NEW t \in Seq(S), NEW e \in S
  PROVE  s \o Append(t, e) = Append(s \o t, e)
<1>1. Append(t, e) = t \o <<e>> /\ <<e>> \in Seq(S)
  BY AppendIsConcat
<1>2. s \o t \in Seq(S)
  BY ConcatProperties
<1>3. Append(s \o t, e) = (s \o t) \o <<e>>
  BY <1>2, AppendIsConcat
<1> QED BY <1>1, <1>3, ConcatAssociative

\* Concatenation is associative, for the sequences of a set.
Associative(R) == \A x, y, z \in R : (x \o y) \o z = x \o (y \o z)
\* Concatenation is associative.
LEMMA ConcatIsAssociative == \A S : Associative(Seq(S))
<1> SUFFICES ASSUME NEW S, NEW x \in Seq(S), NEW y \in Seq(S), NEW z \in Seq(S)
             PROVE  (x \o y) \o z = x \o (y \o z)
  BY DEF Associative
<1> QED BY ConcatAssociative

\* Two lists of sequences one after the other make what the first makes, then the second.
LEMMA FlattenConcat ==
  ASSUME NEW S, NEW ss \in Seq(Seq(S)), NEW tt \in Seq(Seq(S))
  PROVE  FlattenSeq(ss \o tt) = FlattenSeq(ss) \o FlattenSeq(tt)
<1> DEFINE N == Len(tt)
           pre(n) == SubSeq(tt, 1, n)
           Good == {n \in 0..N : FlattenSeq(ss \o pre(n)) = FlattenSeq(ss) \o FlattenSeq(pre(n))}
<1>1. N \in Nat
  BY LenProperties
<1>2. 0 \in Good
  <2>1. pre(0) = <<>>
    BY SubSeqEmpty
  <2>2. ss \o pre(0) = ss
    BY <2>1, ConcatEmptySeq
  <2>3. FlattenSeq(ss) \o <<>> = FlattenSeq(ss)
    BY FlattenProperties, ConcatEmptySeq, EmptySeq
  <2>4. FlattenSeq(pre(0)) = <<>>
    BY <2>1, FlattenNothing
  <2>5. 0 \in 0..N
    BY <1>1
  <2> HIDE DEF pre, N
  <2>6. FlattenSeq(ss \o pre(0)) = FlattenSeq(ss) \o FlattenSeq(pre(0))
    BY <2>2, <2>3, <2>4
  <2> QED BY <2>5, <2>6
<1>3. ASSUME NEW n \in 1..N, n - 1 \in Good PROVE n \in Good
  <2>1. /\ pre(n) = Append(pre(n - 1), tt[n]) /\ pre(n - 1) \in Seq(Seq(S)) /\ tt[n] \in Seq(S)
    BY PrefixStep
  <2> HIDE DEF pre
  <2>2. ss \o pre(n) = Append(ss \o pre(n - 1), tt[n]) /\ ss \o pre(n - 1) \in Seq(Seq(S))
    <3> DEFINE p == pre(n - 1)
               t == tt[n]
               R == Seq(S)
    <3>1. p \in Seq(R) /\ t \in R /\ ss \in Seq(R)
      BY <2>1
    <3> HIDE DEF p, t, R
    <3>2. ss \o Append(p, t) = Append(ss \o p, t)
      BY <3>1, ConcatAppend
    <3>3. ss \o p \in Seq(R)
      BY ONLY <3>1, ConcatProperties
    <3> QED BY <2>1, <3>2, <3>3 DEF p, t, R
  <2>3. FlattenSeq(ss \o pre(n)) = FlattenSeq(ss \o pre(n - 1)) \o tt[n]
    BY <2>1, <2>2, FlattenProperties
  <2>4. FlattenSeq(pre(n)) = FlattenSeq(pre(n - 1)) \o tt[n]
    BY <2>1, FlattenProperties
  <2>5. FlattenSeq(ss \o pre(n - 1)) = FlattenSeq(ss) \o FlattenSeq(pre(n - 1))
    BY <1>3
  <2>6. FlattenSeq(ss) \in Seq(S) /\ FlattenSeq(pre(n - 1)) \in Seq(S)
    BY <2>1, FlattenProperties
  <2>7. (FlattenSeq(ss) \o FlattenSeq(pre(n - 1))) \o tt[n]
          = FlattenSeq(ss) \o (FlattenSeq(pre(n - 1)) \o tt[n])
    <3> DEFINE R == Seq(S)
    <3>1. Associative(R)
      BY ConcatIsAssociative
    <3>2. FlattenSeq(ss) \in R /\ FlattenSeq(pre(n - 1)) \in R /\ tt[n] \in R
      BY <2>1, <2>6
    <3> HIDE DEF R
    <3> QED BY <3>1, <3>2, Zenon DEF Associative
  <2>9. FlattenSeq(ss \o pre(n)) = FlattenSeq(ss) \o FlattenSeq(pre(n))
    BY <2>3, <2>4, <2>5, <2>7
  <2>8. n \in 0..N
    BY <1>1
  <2> QED BY <2>8, <2>9
<1>4. N \in Good
  <2>1. 0..N \subseteq Good
    <3> HIDE DEF Good, N
    <3> QED BY <1>1, <1>2, <1>3, InductionUpTo
  <2> QED BY <2>1, <1>1
<1>5. pre(N) = tt
  BY SubSeqFull
<1> QED BY <1>4, <1>5

\* A sequence member by member, whose last member is made of the last.
LEMMA LastOfEach ==
  ASSUME NEW A, NEW B, NEW s \in Seq(A), NEW e \in A, NEW f \in [A -> B]
  PROVE  /\ [k \in DOMAIN s |-> f[s[k]]] \in Seq(B)
         /\ [k \in DOMAIN Append(s, e) |-> f[Append(s, e)[k]]]
              = Append([k \in DOMAIN s |-> f[s[k]]], f[e])
<1> DEFINE N == Len(s)
           t == Append(s, e)
           fs == [k \in DOMAIN s |-> f[s[k]]]
           ft == [k \in DOMAIN t |-> f[t[k]]]
<1>1. N \in Nat /\ DOMAIN s = 1..N /\ \A k \in 1..N : s[k] \in A
  BY LenProperties, ElementOfSeq
<1>2. /\ t \in Seq(A) /\ Len(t) = N + 1 /\ t[N + 1] = e
      /\ \A k \in 1..N : t[k] = s[k]
  BY AppendProperties
<1>3. DOMAIN t = 1..(N + 1) /\ \A k \in 1..(N + 1) : t[k] \in A
  BY <1>2, LenProperties, ElementOfSeq
<1> HIDE DEF N, t
<1>4. fs \in Seq(B) /\ Len(fs) = N
  BY <1>1
<1>5. ft \in Seq(B) /\ Len(ft) = N + 1
  BY <1>1, <1>3
<1>6. /\ Append(fs, f[e]) \in Seq(B) /\ Len(Append(fs, f[e])) = N + 1
      /\ \A k \in 1..N : Append(fs, f[e])[k] = fs[k]
      /\ Append(fs, f[e])[N + 1] = f[e]
  BY <1>4, AppendProperties
<1>7. \A k \in 1..(N + 1) : ft[k] = Append(fs, f[e])[k]
  <2> SUFFICES ASSUME NEW k \in 1..(N + 1) PROVE ft[k] = Append(fs, f[e])[k]
    OBVIOUS
  <2>1. k \in 1..N \/ k = N + 1
    BY <1>1
  <2>2. ft[k] = f[t[k]]
    BY <1>3
  <2>3. CASE k \in 1..N
    <3>1. fs[k] = f[s[k]]
      BY <1>1, <2>3
    <3> HIDE DEF fs, ft
    <3> QED BY <2>2, <2>3, <3>1, <1>2, <1>6
  <2>4. CASE k = N + 1
    <3> HIDE DEF fs, ft
    <3> QED BY <2>2, <2>4, <1>2, <1>6
  <2> QED BY <2>1, <2>3, <2>4
<1>8. ft = Append(fs, f[e])
  <2> HIDE DEF fs, ft
  <2> QED BY <1>5, <1>6, <1>7, SeqEqual
<1> QED BY <1>4, <1>8 DEF t

-----------------------------------------------------------------------------
(* Words *)

\* Characters of files and papers, and texts of them.
AnyRole == Roles \cup {"bad", "nul", "bullet", "caption", "formula", "bar", "column"}
Characters == [at : Seq(Nat), role : AnyRole]
Texts == Seq(Characters)

\* The words of several texts one after the other.
WordsIn(texts) == FlattenSeq([k \in DOMAIN texts |-> WordsOf(texts[k])])

\* A character when it is a word.
OneWord(c) == IF IsWord(c) THEN <<c>> ELSE <<>>

\* Texts one after the other are a text; the empty one changes nothing.
LEMMA TextsConcat ==
  /\ <<>> \in Texts
  /\ \A x, y \in Texts : x \o y \in Texts
  /\ \A x \in Texts : x \o <<>> = x /\ <<>> \o x = x
  /\ \A x, y, z \in Texts : (x \o y) \o z = x \o (y \o z)
<1>1. <<>> \in Texts
  BY DEF Texts
<1>2. \A x, y \in Texts : x \o y \in Texts
  BY ConcatProperties DEF Texts
<1>3. \A x \in Texts : x \o <<>> = x /\ <<>> \o x = x
  BY ConcatEmptySeq DEF Texts
<1>4. ASSUME NEW x \in Texts, NEW y \in Texts, NEW z \in Texts
      PROVE  (x \o y) \o z = x \o (y \o z)
  <2>1. x \in Seq(Characters) /\ y \in Seq(Characters) /\ z \in Seq(Characters)
    BY DEF Texts
  <2> HIDE DEF Texts
  <2> QED BY <2>1, ConcatAssociative
<1> QED BY <1>1, <1>2, <1>3, <1>4

\* The words of a text are a text, and a character adds itself when it is a word.
LEMMA WordsOfText ==
  /\ WordsOf(<<>>) = <<>>
  /\ \A t \in Texts : WordsOf(t) \in Texts
  /\ \A t \in Texts, c \in Characters : WordsOf(Append(t, c)) = WordsOf(t) \o OneWord(c)
<1> DEFINE f == [c \in Characters |-> OneWord(c)]
<1>1. f \in [Characters -> Texts]
  BY DEF OneWord, Texts
<1>2. ASSUME NEW t \in Texts
      PROVE  WordsOf(t) = FlattenSeq([k \in DOMAIN t |-> f[t[k]]])
  <2>1. \A k \in DOMAIN t : f[t[k]] = IF IsWord(t[k]) THEN <<t[k]>> ELSE <<>>
    BY DEF Texts, OneWord
  <2> HIDE DEF f
  <2>2. [k \in DOMAIN t |-> f[t[k]]] = [k \in DOMAIN t |-> IF IsWord(t[k]) THEN <<t[k]>> ELSE <<>>]
    BY <2>1
  <2> QED BY <2>2 DEF WordsOf, Those
<1>3. WordsOf(<<>>) = <<>>
  <2>1. <<>> \in Texts
    BY DEF Texts
  <2>2. [k \in DOMAIN <<>> |-> f[<<>>[k]]] = <<>>
    OBVIOUS
  <2> HIDE DEF f
  <2> QED BY <2>1, <2>2, <1>2, FlattenNothing
<1>4. ASSUME NEW t \in Texts, NEW c \in Characters
      PROVE  WordsOf(t) \in Texts /\ WordsOf(Append(t, c)) = WordsOf(t) \o OneWord(c)
  <2> DEFINE ft == [k \in DOMAIN t |-> f[t[k]]]
  <2>1. /\ ft \in Seq(Texts)
        /\ [k \in DOMAIN Append(t, c) |-> f[Append(t, c)[k]]] = Append(ft, f[c])
    <3>1. t \in Seq(Characters)
      BY DEF Texts
    <3> HIDE DEF f
    <3> QED BY <1>1, <3>1, LastOfEach
  <2>2. Append(t, c) \in Texts
    BY AppendProperties DEF Texts
  <2>3. f[c] \in Seq(Characters)
    BY <1>1 DEF Texts
  <2>4. FlattenSeq(ft) \in Texts /\ FlattenSeq(Append(ft, f[c])) = FlattenSeq(ft) \o f[c]
    <3> HIDE DEF f, ft
    <3> QED BY <2>1, <2>3, FlattenProperties DEF Texts
  <2>5. f[c] = OneWord(c)
    OBVIOUS
  <2> HIDE DEF f
  <2> QED BY <1>2, <2>1, <2>2, <2>4, <2>5
<1>5. \E c : c \in Characters
  <2>1. Char(<<>>, "newline") \in Characters
    BY DEF Char, Characters, AnyRole, Roles
  <2> QED BY <2>1
<1> QED BY <1>3, <1>4, <1>5

\* The words of two texts one after the other are those of the first, then of the second.
LEMMA WordsConcat ==
  ASSUME NEW s \in Texts, NEW t \in Texts
  PROVE  WordsOf(s \o t) = WordsOf(s) \o WordsOf(t)
<1> DEFINE N == Len(t)
           pre(n) == SubSeq(t, 1, n)
           Good == {n \in 0..N : WordsOf(s \o pre(n)) = WordsOf(s) \o WordsOf(pre(n))}
<1>1. N \in Nat
  BY LenProperties DEF Texts
<1>2. 0 \in Good
  <2>1. pre(0) = <<>>
    BY SubSeqEmpty
  <2>2. s \o <<>> = s
    BY ConcatEmptySeq DEF Texts
  <2>3. WordsOf(s) \o <<>> = WordsOf(s)
    BY WordsOfText, ConcatEmptySeq DEF Texts
  <2>4. WordsOf(<<>>) = <<>>
    BY WordsOfText
  <2>5. 0 \in 0..N
    BY <1>1
  <2> HIDE DEF pre, N
  <2>6. WordsOf(s \o pre(0)) = WordsOf(s) \o WordsOf(pre(0))
    BY <2>1, <2>2, <2>3, <2>4
  <2> QED BY <2>5, <2>6
<1>3. ASSUME NEW n \in 1..N, n - 1 \in Good PROVE n \in Good
  <2>1. /\ pre(n) = Append(pre(n - 1), t[n]) /\ pre(n - 1) \in Texts /\ t[n] \in Characters
    BY PrefixStep DEF Texts
  <2> HIDE DEF pre
  <2>2. s \o pre(n) = Append(s \o pre(n - 1), t[n]) /\ s \o pre(n - 1) \in Texts
    BY <2>1, ConcatAppend, ConcatProperties DEF Texts
  <2>3. WordsOf(s \o pre(n)) = WordsOf(s \o pre(n - 1)) \o OneWord(t[n])
    BY <2>1, <2>2, WordsOfText
  <2>4. WordsOf(pre(n)) = WordsOf(pre(n - 1)) \o OneWord(t[n])
    BY <2>1, WordsOfText
  <2>5. WordsOf(s \o pre(n - 1)) = WordsOf(s) \o WordsOf(pre(n - 1))
    BY <1>3
  <2>6. WordsOf(s) \in Texts /\ WordsOf(pre(n - 1)) \in Texts /\ OneWord(t[n]) \in Texts
    <3>1. OneWord(t[n]) \in Texts
      BY <2>1 DEF OneWord, Texts
    <3> QED BY <2>1, <3>1, WordsOfText
  <2>7. (WordsOf(s) \o WordsOf(pre(n - 1))) \o OneWord(t[n])
          = WordsOf(s) \o (WordsOf(pre(n - 1)) \o OneWord(t[n]))
    <3> DEFINE x == WordsOf(s)
               y == WordsOf(pre(n - 1))
               z == OneWord(t[n])
    <3>1. x \in Texts /\ y \in Texts /\ z \in Texts
      BY <2>6
    <3> HIDE DEF x, y, z
    <3>2. (x \o y) \o z = x \o (y \o z)
      BY <3>1, TextsConcat
    <3> QED BY <3>2 DEF x, y, z
  <2>9. WordsOf(s \o pre(n)) = WordsOf(s) \o WordsOf(pre(n))
    BY <2>3, <2>4, <2>5, <2>7
  <2>8. n \in 0..N
    BY <1>1
  <2> QED BY <2>8, <2>9
<1>4. N \in Good
  <2>1. 0..N \subseteq Good
    <3> HIDE DEF Good, N
    <3> QED BY <1>1, <1>2, <1>3, InductionUpTo
  <2> QED BY <2>1, <1>1
<1>5. pre(N) = t
  BY SubSeqFull DEF Texts
<1> QED BY <1>4, <1>5

\* Characters that are no words may be exchanged.
LEMMA SameWords ==
  ASSUME NEW s \in Texts, NEW t \in Texts, Len(s) = Len(t),
         \A k \in 1..Len(s) : s[k] = t[k] \/ (~IsWord(s[k]) /\ ~IsWord(t[k]))
  PROVE  WordsOf(s) = WordsOf(t)
<1>1. DOMAIN s = 1..Len(s) /\ DOMAIN t = 1..Len(s)
  BY LenProperties DEF Texts
<1>2. \A k \in 1..Len(s) : (IF IsWord(s[k]) THEN <<s[k]>> ELSE <<>>)
                             = (IF IsWord(t[k]) THEN <<t[k]>> ELSE <<>>)
  OBVIOUS
<1>3. [k \in DOMAIN s |-> IF IsWord(s[k]) THEN <<s[k]>> ELSE <<>>]
        = [k \in DOMAIN t |-> IF IsWord(t[k]) THEN <<t[k]>> ELSE <<>>]
  BY <1>1, <1>2
<1> QED BY <1>3 DEF WordsOf, Those

\* The words of several texts are those of all they make, and another text adds its own.
LEMMA WordsInTexts ==
  /\ WordsIn(<<>>) = <<>>
  /\ \A s \in Seq(Texts) : WordsIn(s) \in Texts /\ WordsOf(FlattenSeq(s)) = WordsIn(s)
  /\ \A s \in Seq(Texts), t \in Texts :
       WordsIn(Append(s, t)) = WordsIn(s) \o WordsOf(t) /\ Append(s, t) \in Seq(Texts)
<1> DEFINE f == [t \in Texts |-> WordsOf(t)]
           each(s) == [k \in DOMAIN s |-> f[s[k]]]
<1>1. f \in [Texts -> Texts]
  BY WordsOfText
<1>2. ASSUME NEW s \in Seq(Texts) PROVE WordsIn(s) = FlattenSeq(each(s))
  <2>1. \A k \in DOMAIN s : f[s[k]] = WordsOf(s[k])
    BY LenProperties, ElementOfSeq
  <2>2. each(s) = [k \in DOMAIN s |-> WordsOf(s[k])]
    <3> HIDE DEF f
    <3> QED BY <2>1
  <2> HIDE DEF each
  <2> QED BY <2>2 DEF WordsIn
<1>3. WordsIn(<<>>) = <<>>
  <2>1. <<>> \in Seq(Texts)
    OBVIOUS
  <2>2. each(<<>>) = <<>>
    OBVIOUS
  <2> HIDE DEF each
  <2> QED BY <2>1, <2>2, <1>2, FlattenNothing
<1>4. ASSUME NEW s \in Seq(Texts), NEW t \in Texts
      PROVE  /\ WordsIn(s) \in Texts
             /\ WordsIn(Append(s, t)) = WordsIn(s) \o WordsOf(t)
             /\ Append(s, t) \in Seq(Texts)
  <2>1. each(s) \in Seq(Texts) /\ each(Append(s, t)) = Append(each(s), f[t])
    <3> HIDE DEF f
    <3> QED BY <1>1, LastOfEach
  <2>2. Append(s, t) \in Seq(Texts)
    BY AppendProperties
  <2>3. f[t] \in Texts /\ f[t] = WordsOf(t)
    BY WordsOfText
  <2> HIDE DEF each, f
  <2>4. each(s) \in Seq(Seq(Characters)) /\ f[t] \in Seq(Characters)
    BY <2>1, <2>3 DEF Texts
  <2>5. /\ FlattenSeq(each(s)) \in Seq(Characters)
        /\ FlattenSeq(Append(each(s), f[t])) = FlattenSeq(each(s)) \o f[t]
    BY <2>4, FlattenProperties
  <2>6. WordsIn(s) \in Texts
    BY <2>5, <1>2 DEF Texts
  <2>7. WordsIn(Append(s, t)) = WordsIn(s) \o WordsOf(t)
    BY <2>1, <2>2, <2>3, <2>5, <1>2
  <2> QED BY <2>2, <2>6, <2>7
<1>5. ASSUME NEW s \in Seq(Texts) PROVE WordsOf(FlattenSeq(s)) = WordsIn(s)
  <2> DEFINE N == Len(s)
             pre(n) == SubSeq(s, 1, n)
             Good == {n \in 0..N : WordsOf(FlattenSeq(pre(n))) = WordsIn(pre(n))}
  <2>1. N \in Nat
    BY LenProperties
  <2>2. 0 \in Good
    <3>1. pre(0) = <<>>
      BY SubSeqEmpty
    <3>2. 0 \in 0..N
      BY <2>1
    <3> HIDE DEF pre, N
    <3>3. WordsOf(FlattenSeq(pre(0))) = WordsIn(pre(0))
      BY <3>1, <1>3, FlattenNothing, WordsOfText
    <3> QED BY <3>2, <3>3
  <2>3. ASSUME NEW n \in 1..N, n - 1 \in Good PROVE n \in Good
    <3>1. /\ pre(n) = Append(pre(n - 1), s[n]) /\ pre(n - 1) \in Seq(Texts) /\ s[n] \in Texts
      BY PrefixStep
    <3>2. n \in 0..N
      BY <2>1
    <3> HIDE DEF pre
    <3>3. WordsIn(pre(n)) = WordsIn(pre(n - 1)) \o WordsOf(s[n])
      BY <3>1, <1>4
    <3>4. FlattenSeq(pre(n)) = FlattenSeq(pre(n - 1)) \o s[n] /\ FlattenSeq(pre(n - 1)) \in Texts
      <4>1. pre(n - 1) \in Seq(Seq(Characters)) /\ s[n] \in Seq(Characters)
        BY <3>1 DEF Texts
      <4>2. FlattenSeq(Append(pre(n - 1), s[n])) = FlattenSeq(pre(n - 1)) \o s[n]
            /\ FlattenSeq(pre(n - 1)) \in Seq(Characters)
        BY <4>1, FlattenProperties
      <4> QED BY <4>2, <3>1 DEF Texts
    <3>5. WordsOf(FlattenSeq(pre(n))) = WordsOf(FlattenSeq(pre(n - 1))) \o WordsOf(s[n])
      BY <3>1, <3>4, WordsConcat
    <3>6. WordsOf(FlattenSeq(pre(n - 1))) = WordsIn(pre(n - 1))
      BY <2>3
    <3>7. WordsOf(FlattenSeq(pre(n))) = WordsIn(pre(n))
      BY <3>3, <3>5, <3>6
    <3> QED BY <3>2, <3>7
  <2>4. N \in Good
    <3>1. 0..N \subseteq Good
      <4> HIDE DEF Good, N
      <4> QED BY <2>1, <2>2, <2>3, InductionUpTo
    <3> QED BY <3>1, <2>1
  <2>5. pre(N) = s
    BY SubSeqFull
  <2> QED BY <2>4, <2>5
<1> QED BY <1>3, <1>4, <1>5, TextsConcat

\* Texts one after the other are a text.
LEMMA FlattenTexts ==
  ASSUME NEW s \in Seq(Texts)
  PROVE  FlattenSeq(s) \in Texts
<1>1. s \in Seq(Seq(Characters)) /\ <<>> \in Seq(Characters)
  BY DEF Texts
<1>2. FlattenSeq(s) \in Seq(Characters)
  BY <1>1, FlattenProperties
<1> QED BY <1>2 DEF Texts

\* The words of two lists of texts are those of the first, then of the second.
LEMMA WordsInConcat ==
  ASSUME NEW s \in Seq(Texts), NEW t \in Seq(Texts)
  PROVE  s \o t \in Seq(Texts) /\ WordsIn(s \o t) = WordsIn(s) \o WordsIn(t)
<1>1. s \in Seq(Seq(Characters)) /\ t \in Seq(Seq(Characters))
  BY DEF Texts
<1>2. FlattenSeq(s \o t) = FlattenSeq(s) \o FlattenSeq(t)
  BY <1>1, FlattenConcat
<1>3. s \o t \in Seq(Texts)
  BY ConcatProperties
<1>4. FlattenSeq(s) \in Texts /\ FlattenSeq(t) \in Texts
  BY FlattenTexts
<1>5. WordsOf(FlattenSeq(s \o t)) = WordsOf(FlattenSeq(s)) \o WordsOf(FlattenSeq(t))
  BY <1>2, <1>4, WordsConcat
<1>6. /\ WordsOf(FlattenSeq(s \o t)) = WordsIn(s \o t)
      /\ WordsOf(FlattenSeq(s)) = WordsIn(s) /\ WordsOf(FlattenSeq(t)) = WordsIn(t)
  BY <1>3, WordsInTexts
<1> QED BY <1>3, <1>5, <1>6

\* Texts that have the same words one by one have the same words.
LEMMA SameWordsIn ==
  ASSUME NEW s \in Seq(Texts), NEW t \in Seq(Texts), Len(s) = Len(t),
         \A k \in 1..Len(s) : WordsOf(s[k]) = WordsOf(t[k])
  PROVE  WordsIn(s) = WordsIn(t)
<1>1. DOMAIN s = 1..Len(s) /\ DOMAIN t = 1..Len(s)
  BY LenProperties
<1>2. [k \in DOMAIN s |-> WordsOf(s[k])] = [k \in DOMAIN t |-> WordsOf(t[k])]
  BY <1>1
<1> QED BY <1>2 DEF WordsIn

\* A text without a word has no words.
LEMMA NoWords ==
  ASSUME NEW t \in Texts, \A k \in 1..Len(t) : ~IsWord(t[k])
  PROVE  WordsOf(t) = <<>>
<1> DEFINE N == Len(t)
           pre(n) == SubSeq(t, 1, n)
           Good == {n \in 0..N : WordsOf(pre(n)) = <<>>}
<1>1. N \in Nat
  BY LenProperties DEF Texts
<1>2. 0 \in Good
  <2>1. pre(0) = <<>>
    BY SubSeqEmpty
  <2>2. 0 \in 0..N
    BY <1>1
  <2> HIDE DEF pre, N
  <2> QED BY <2>1, <2>2, WordsOfText
<1>3. ASSUME NEW n \in 1..N, n - 1 \in Good PROVE n \in Good
  <2>1. /\ pre(n) = Append(pre(n - 1), t[n]) /\ pre(n - 1) \in Texts /\ t[n] \in Characters
    BY PrefixStep DEF Texts
  <2>2. n \in 0..N
    BY <1>1
  <2> HIDE DEF pre
  <2>3. WordsOf(pre(n)) = WordsOf(pre(n - 1)) \o OneWord(t[n])
    BY <2>1, WordsOfText
  <2>4. OneWord(t[n]) = <<>>
    BY DEF OneWord
  <2>5. WordsOf(pre(n - 1)) = <<>>
    BY <1>3
  <2>6. WordsOf(pre(n)) = <<>>
    BY <2>3, <2>4, <2>5, TextsConcat
  <2> QED BY <2>2, <2>6
<1>4. N \in Good
  <2>1. 0..N \subseteq Good
    <3> HIDE DEF Good, N
    <3> QED BY <1>1, <1>2, <1>3, InductionUpTo
  <2> QED BY <2>1, <1>1
<1>5. pre(N) = t
  BY SubSeqFull DEF Texts
<1> QED BY <1>4, <1>5

-----------------------------------------------------------------------------
(* Parts of a text *)

\* A part of a text: a text, with its length and characters.
LEMMA SubText ==
  ASSUME NEW t \in Texts, NEW m \in Nat \ {0}, NEW n \in 0..Len(t)
  PROVE  /\ SubSeq(t, m, n) \in Texts
         /\ Len(SubSeq(t, m, n)) = IF m <= n THEN n - m + 1 ELSE 0
         /\ \A i \in 1..(n - m + 1) : SubSeq(t, m, n)[i] = t[m + i - 1]
<1>1. Len(t) \in Nat /\ \A i \in 1..Len(t) : t[i] \in Characters
  BY LenProperties, ElementOfSeq DEF Texts
<1>2. \A i \in m..n : t[i] \in Characters
  BY <1>1
<1>3. m \in Int /\ n \in Int
  BY <1>1
<1> QED BY <1>2, <1>3, SubSeqProperties DEF Texts

\* The words up to a place, then the words up to a later one.
LEMMA WordsUpTo ==
  ASSUME NEW t \in Texts, NEW m \in 0..Len(t), NEW n \in m..Len(t)
  PROVE  WordsOf(SubSeq(t, 1, n)) = WordsOf(SubSeq(t, 1, m)) \o WordsOf(SubSeq(t, m + 1, n))
<1>1. Len(t) \in Nat /\ t \in Seq(Characters)
  BY LenProperties DEF Texts
<1>2. 1 \in 1..(Len(t) + 1) /\ m \in (1 - 1)..Len(t)
  BY <1>1
<1>3. SubSeq(t, 1, m) \o SubSeq(t, m + 1, n) = SubSeq(t, 1, n)
  BY <1>1, <1>2, ConcatAdjacentSubSeq
<1>4. SubSeq(t, 1, m) \in Texts /\ SubSeq(t, m + 1, n) \in Texts
  <2>1. m + 1 \in Nat \ {0} /\ n \in 0..Len(t)
    BY <1>1
  <2> QED BY <2>1, SubText
<1> QED BY <1>3, <1>4, WordsConcat

\* A set of numbers below a bound has a smallest and a largest one.
LEMMA Extremes ==
  ASSUME NEW n \in Nat, NEW S, S \subseteq 0..n, S # {}
  PROVE  /\ Min(S) \in S /\ \A x \in S : Min(S) <= x
         /\ Max(S) \in S /\ \A x \in S : x <= Max(S)
<1>1. \E x \in S : \A y \in S : x <= y
  <2>1. S \subseteq Nat
    OBVIOUS
  <2> QED BY <2>1, LeastMember
<1>2. \E x \in S : \A y \in S : x >= y
  <2>1. \E x \in S : \A y \in S : y <= x
    BY GreatestMember
  <2> QED BY <2>1
<1>3. Min(S) \in S /\ \A x \in S : Min(S) <= x
  BY <1>1 DEF Min
<1>4. Max(S) \in S /\ \A x \in S : Max(S) >= x
  BY <1>2 DEF Max
<1> QED BY <1>3, <1>4

\* str.strip takes no word away.
LEMMA StripKeepsWords ==
  ASSUME NEW t \in Texts
  PROVE  Strip(t) \in Texts /\ WordsOf(Strip(t)) = WordsOf(t) /\ Len(Strip(t)) <= Len(t)
<1> DEFINE N == Len(t)
           P == {i \in DOMAIN t : ~IsBlank(t[i])}
<1>1. N \in Nat /\ DOMAIN t = 1..N /\ SubSeq(t, 1, N) = t
  BY LenProperties, SubSeqFull DEF Texts
<1>2. \A i \in 1..N : i \notin P => ~IsWord(t[i])
  BY <1>1 DEF IsBlank, IsWord
<1> HIDE DEF N
<1>3. CASE P = {}
  <2>1. WordsOf(t) = <<>>
    BY <1>1, <1>2, <1>3, NoWords DEF N
  <2>2. Strip(t) = <<>>
    BY <1>3 DEF Strip, Between
  <2>3. Len(Strip(t)) = 0
    BY <2>2
  <2> QED BY <2>1, <2>2, <2>3, <1>1, TextsConcat, WordsOfText DEF N
<1>4. CASE P # {}
  <2> DEFINE a == Min(P)
             b == Max(P)
  <2>1. P \subseteq 0..N
    BY <1>1
  <2>2. a \in P /\ b \in P /\ \A x \in P : a <= x /\ x <= b
    <3> HIDE DEF P
    <3> QED BY <1>1, <1>4, <2>1, Extremes
  <2>3. a \in 1..N /\ b \in 1..N /\ a <= b
    BY <2>2, <1>1
  <2>4. Strip(t) = SubSeq(t, a, b)
    BY <1>4 DEF Strip, Between
  <2> HIDE DEF a, b, P
  <2>5. SubSeq(t, a, b) \in Texts /\ Len(SubSeq(t, a, b)) = b - a + 1
    <3>1. a \in Nat \ {0} /\ b \in 0..N /\ a <= b
      BY <2>3, <1>1
    <3> QED BY <3>1, SubText DEF N
  <2>6. WordsOf(SubSeq(t, b + 1, N)) = <<>>
    <3>1. b + 1 \in Nat \ {0} /\ N \in 0..N
      BY <2>3, <1>1
    <3>2. /\ SubSeq(t, b + 1, N) \in Texts
          /\ Len(SubSeq(t, b + 1, N)) = IF b + 1 <= N THEN N - (b + 1) + 1 ELSE 0
          /\ \A i \in 1..(N - (b + 1) + 1) : SubSeq(t, b + 1, N)[i] = t[b + 1 + i - 1]
      BY <3>1, SubText DEF N
    <3>3. ASSUME NEW i \in 1..Len(SubSeq(t, b + 1, N)) PROVE ~IsWord(SubSeq(t, b + 1, N)[i])
      <4>1. i \in 1..(N - (b + 1) + 1)
        BY <3>2, <2>3, <1>1
      <4>2. b + 1 + i - 1 \in 1..N /\ b + 1 + i - 1 > b
        BY <4>1, <2>3, <1>1
      <4>3. b + 1 + i - 1 \notin P
        BY <4>2, <2>2, <2>3
      <4> QED BY <4>1, <4>2, <4>3, <3>2, <1>2
    <3> QED BY <3>2, <3>3, NoWords
  <2>7. WordsOf(SubSeq(t, 1, a - 1)) = <<>>
    <3>1. 1 \in Nat \ {0} /\ a - 1 \in 0..N
      BY <2>3, <1>1
    <3>2. /\ SubSeq(t, 1, a - 1) \in Texts
          /\ Len(SubSeq(t, 1, a - 1)) = IF 1 <= a - 1 THEN a - 1 - 1 + 1 ELSE 0
          /\ \A i \in 1..(a - 1 - 1 + 1) : SubSeq(t, 1, a - 1)[i] = t[1 + i - 1]
      BY <3>1, SubText DEF N
    <3>3. ASSUME NEW i \in 1..Len(SubSeq(t, 1, a - 1)) PROVE ~IsWord(SubSeq(t, 1, a - 1)[i])
      <4>1. i \in 1..(a - 1 - 1 + 1)
        BY <3>2, <2>3, <1>1
      <4>2. 1 + i - 1 \in 1..N /\ 1 + i - 1 < a
        BY <4>1, <2>3, <1>1
      <4>3. 1 + i - 1 \notin P
        BY <4>2, <2>2, <2>3
      <4> QED BY <4>1, <4>2, <4>3, <3>2, <1>2
    <3> QED BY <3>2, <3>3, NoWords
  <2>8. WordsOf(SubSeq(t, 1, N)) = WordsOf(SubSeq(t, 1, b)) \o WordsOf(SubSeq(t, b + 1, N))
    <3>1. b \in 0..N /\ N \in b..N
      BY <2>3, <1>1
    <3> QED BY <3>1, WordsUpTo DEF N
  <2>9. WordsOf(SubSeq(t, 1, b)) = WordsOf(SubSeq(t, 1, a - 1)) \o WordsOf(SubSeq(t, a, b))
    <3>1. a - 1 \in 0..N /\ b \in (a - 1)..N /\ (a - 1) + 1 = a
      BY <2>3, <1>1
    <3>2. WordsOf(SubSeq(t, 1, b))
            = WordsOf(SubSeq(t, 1, a - 1)) \o WordsOf(SubSeq(t, (a - 1) + 1, b))
      BY <3>1, WordsUpTo DEF N
    <3> QED BY <3>1, <3>2
  <2>10. WordsOf(SubSeq(t, a, b)) \in Texts
    BY <2>5, WordsOfText
  <2>11. WordsOf(t) = WordsOf(SubSeq(t, a, b))
    BY <1>1, <2>6, <2>7, <2>8, <2>9, <2>10, TextsConcat
  <2>12. b - a + 1 <= N
    BY <2>3, <1>1
  <2> QED BY <2>4, <2>5, <2>11, <2>12 DEF N
<1> QED BY <1>3, <1>4

\* Ascending lists a set of numbers in order, each once.
LEMMA AscendingLists ==
  ASSUME NEW N \in Nat, NEW S, S \subseteq 0..N
  PROVE  /\ Cardinality(S) \in Nat
         /\ Ascending(S) \in Seq(S) /\ Len(Ascending(S)) = Cardinality(S)
         /\ \A x \in S : \E i \in 1..Cardinality(S) : Ascending(S)[i] = x
         /\ \A i, j \in 1..Cardinality(S) : i < j <=> Ascending(S)[i] < Ascending(S)[j]
<1> DEFINE R == {p \in S \X S : p[1] < p[2]}
           C == Cardinality(S)
           list == Ascending(S)
<1>1. IsFiniteSet(S)
  <2>1. IsFiniteSet(0..N)
    BY FS_Interval
  <2> QED BY <2>1, FS_Subset
<1>2. C \in Nat
  BY <1>1, FS_CardinalityType
<1>3. \A x \in S : x \in Nat
  OBVIOUS
<1>4. StrictOrder(R, S)
  BY <1>3 DEF StrictOrder
<1>5. ASSUME NEW x \in S PROVE Below(R, S, x) = {m \in S : m < x}
  BY DEF Below
<1>6. \A i \in 1..C : \E x \in S : Cardinality(Below(R, S, x)) = i - 1
  <2> HIDE DEF R
  <2> QED BY <1>1, <1>4, EveryRankTaken
<1>7. ASSUME NEW k \in 1..C
      PROVE  list[k] \in S /\ Cardinality(Below(R, S, list[k])) = k - 1
  <2>1. list[k] = CHOOSE n \in S : Cardinality({m \in S : m < n}) = k - 1
    BY DEF Ascending
  <2>2. \E n \in S : Cardinality({m \in S : m < n}) = k - 1
    <3> HIDE DEF R, C
    <3> QED BY <1>5, <1>6
  <2>3. list[k] \in S /\ Cardinality({m \in S : m < list[k]}) = k - 1
    <3> HIDE DEF list
    <3> QED BY <2>1, <2>2
  <2> HIDE DEF list, R
  <2> QED BY <2>3, <1>5
<1>8. list \in [1..C -> S]
  <2>1. \A k \in 1..C : list[k] \in S
    <3> HIDE DEF list, C
    <3> QED BY <1>7
  <2>2. DOMAIN list = 1..C /\ list = [k \in 1..C |-> list[k]]
    BY DEF Ascending
  <2> HIDE DEF list, C
  <2> QED BY <2>1, <2>2
<1>9. IsListing(list, S, R)
  <2>1. \A k \in 1..C : Cardinality(Below(R, S, list[k])) = k - 1
    <3> HIDE DEF list, C, R
    <3> QED BY <1>7
  <2> HIDE DEF list, R
  <2> QED BY <1>1, <1>4, <1>8, <2>1, ListedByRank
<1>10. list \in Seq(S) /\ Len(list) = C
  <2> HIDE DEF list, C
  <2> QED BY <1>2, <1>8
<1>11. \A i, j \in 1..C : list[i] \in S /\ list[j] \in S
  <2> HIDE DEF list, C
  <2> QED BY <1>8
<1>12. /\ \A x \in S : \E i \in 1..C : list[i] = x
       /\ \A i, j \in 1..C : i < j <=> <<list[i], list[j]>> \in R
  <2> HIDE DEF list, C, R
  <2> QED BY <1>9 DEF IsListing, C
<1>13. \A i, j \in 1..C : i < j <=> list[i] < list[j]
  <2> HIDE DEF list, C
  <2> QED BY <1>11, <1>12
<1> QED BY <1>2, <1>10, <1>12, <1>13

\* Places in a text where it is cut: they ascend, and the last one is the end.
CutsOf(t, e) ==
  /\ e \in Seq(0..Len(t)) /\ Len(e) > 0
  /\ \A i, j \in 1..Len(e) : i < j => e[i] < e[j]
  /\ e[Len(e)] = Len(t)

\* Where the piece that ends at a cut begins.
CutFrom(e, k) == IF k = 1 THEN 1 ELSE e[k - 1] + 1

\* The pieces between cuts have the words of the text when each has those of its place.
LEMMA CutKeepsWords ==
  ASSUME NEW t \in Texts, NEW e, CutsOf(t, e), NEW p \in Seq(Texts), Len(p) = Len(e),
         \A k \in 1..Len(e) : WordsOf(p[k]) = WordsOf(SubSeq(t, CutFrom(e, k), e[k]))
  PROVE  WordsIn(p) = WordsOf(t)
<1> DEFINE N == Len(e)
           T == Len(t)
           pre(n) == SubSeq(p, 1, n)
           Good == {n \in 0..N : n > 0 => WordsIn(pre(n)) = WordsOf(SubSeq(t, 1, e[n]))}
<1>1. T \in Nat
  BY LenProperties DEF Texts
<1>2. /\ N \in Nat /\ N > 0
      /\ \A k \in 1..N : e[k] \in 0..T
      /\ \A i, j \in 1..N : i < j => e[i] < e[j]
      /\ e[N] = T
  <2>1. e \in Seq(0..T)
    BY DEF CutsOf
  <2> HIDE DEF T
  <2> QED BY <2>1, LenProperties, ElementOfSeq DEF CutsOf, T
<1>3. 0 \in Good
  BY <1>2
<1>4. ASSUME NEW n \in 1..N, n - 1 \in Good PROVE n \in Good
  <2>1. /\ pre(n) = Append(pre(n - 1), p[n]) /\ pre(n - 1) \in Seq(Texts) /\ p[n] \in Texts
    BY PrefixStep
  <2>2. n \in 0..N /\ e[n] \in 0..T
    BY <1>2
  <2>3. WordsIn(pre(n)) = WordsIn(pre(n - 1)) \o WordsOf(p[n])
    <3> HIDE DEF pre
    <3> QED BY <2>1, WordsInTexts
  <2>4. WordsOf(p[n]) = WordsOf(SubSeq(t, CutFrom(e, n), e[n]))
    OBVIOUS
  <2>5. CASE n = 1
    <3>1. pre(n - 1) = <<>>
      BY <2>5, SubSeqEmpty
    <3>2. CutFrom(e, n) = 1
      BY <2>5 DEF CutFrom
    <3>3. WordsOf(p[n]) \in Texts
      BY <2>1, WordsOfText
    <3> HIDE DEF pre
    <3>4. WordsIn(pre(n)) = WordsOf(SubSeq(t, 1, e[n]))
      <4>1. WordsIn(pre(n - 1)) = <<>>
        BY <3>1, WordsInTexts
      <4>2. <<>> \o WordsOf(p[n]) = WordsOf(p[n])
        BY <3>3, TextsConcat
      <4>3. WordsOf(p[n]) = WordsOf(SubSeq(t, 1, e[n]))
        BY <2>4, <3>2
      <4> QED BY <2>3, <4>1, <4>2, <4>3
    <3> QED BY <3>4, <2>2
  <2>6. CASE n # 1
    <3>1. n - 1 \in 1..N /\ n - 1 < n
      BY <1>2, <2>6
    <3>2. e[n - 1] \in 0..T /\ e[n - 1] < e[n]
      BY <1>2, <3>1
    <3>3. CutFrom(e, n) = e[n - 1] + 1
      BY <2>6 DEF CutFrom
    <3>4. WordsIn(pre(n - 1)) = WordsOf(SubSeq(t, 1, e[n - 1]))
      BY <1>4, <3>1
    <3>5. WordsOf(SubSeq(t, 1, e[n]))
            = WordsOf(SubSeq(t, 1, e[n - 1])) \o WordsOf(SubSeq(t, e[n - 1] + 1, e[n]))
      <4>1. e[n - 1] \in 0..Len(t) /\ e[n] \in e[n - 1]..Len(t)
        BY <3>2, <2>2
      <4> QED BY <4>1, WordsUpTo
    <3> HIDE DEF pre
    <3>6. WordsIn(pre(n)) = WordsOf(SubSeq(t, 1, e[n]))
      BY <2>3, <2>4, <3>3, <3>4, <3>5
    <3> QED BY <3>6, <2>2
  <2> QED BY <2>5, <2>6
<1>5. N \in Good
  <2>1. 0..N \subseteq Good
    <3> HIDE DEF Good, N
    <3> QED BY <1>2, <1>3, <1>4, InductionUpTo
  <2> QED BY <2>1, <1>2
<1>6. pre(N) = p
  BY SubSeqFull
<1>7. SubSeq(t, 1, e[N]) = t
  BY <1>2, SubSeqFull DEF Texts
<1>8. WordsIn(pre(N)) = WordsOf(SubSeq(t, 1, e[N]))
  <2> HIDE DEF pre, N
  <2> QED BY <1>2, <1>5
<1> QED BY <1>6, <1>7, <1>8

\* Ascending places of a text and its end are cuts of it.
LEMMA CutsAreAscending ==
  ASSUME NEW t \in Texts, NEW ends, ends \subseteq 1..Len(t)
  PROVE  CutsOf(t, Ascending(ends \cup {Len(t)}))
<1> DEFINE T == Len(t)
           S == ends \cup {T}
           e == Ascending(S)
           C == Cardinality(S)
<1>1. T \in Nat
  BY LenProperties DEF Texts
<1>2. S \subseteq 0..T /\ T \in S
  <2>1. ends \subseteq 1..T
    OBVIOUS
  <2> HIDE DEF T
  <2> QED BY <1>1, <2>1
<1>3. /\ C \in Nat /\ e \in Seq(S) /\ Len(e) = C
      /\ \A x \in S : \E i \in 1..C : e[i] = x
      /\ \A i, j \in 1..C : i < j <=> e[i] < e[j]
  <2> HIDE DEF S
  <2> QED BY <1>1, <1>2, AscendingLists
<1> HIDE DEF e, C, S
<1>4. e \in Seq(0..T)
  <2> HIDE DEF T
  <2> QED BY <1>2, <1>3, SeqMonotonic
<1>5. PICK i \in 1..C : e[i] = T
  BY <1>2, <1>3
<1>6. C > 0
  BY <1>3, <1>5
<1>7. e[C] = T
  <2>1. C \in 1..C
    BY <1>3, <1>6
  <2>2. e[C] \in 0..T
    <3> HIDE DEF T
    <3> QED BY <1>3, <1>4, <2>1, ElementOfSeq
  <2>3. CASE i = C
    BY <2>3, <1>5
  <2>4. CASE i < C
    BY <2>1, <2>2, <2>4, <1>1, <1>3, <1>5
  <2> QED BY <2>3, <2>4, <1>3
<1> QED BY <1>3, <1>4, <1>6, <1>7 DEF CutsOf, e, S

-----------------------------------------------------------------------------
(* Sentences *)

\* Leaving empty parts out takes no word away.
LEMMA FilledKeepsWords ==
  ASSUME NEW s \in Seq(Texts)
  PROVE  /\ Filled(s) \in Seq(Texts) /\ WordsIn(Filled(s)) = WordsIn(s)
         /\ \A k \in 1..Len(Filled(s)) : /\ Filled(s)[k] # <<>>
                                         /\ \E j \in 1..Len(s) : Filled(s)[k] = s[j]
<1> DEFINE one == [x \in Texts |-> IF x # <<>> THEN <<x>> ELSE <<>>]
           each(x) == [k \in DOMAIN x |-> one[x[k]]]
           N == Len(s)
           pre(n) == SubSeq(s, 1, n)
           Kept(x, n) == /\ x \in Seq(Texts) /\ WordsIn(x) = WordsIn(pre(n))
                         /\ \A k \in 1..Len(x) : /\ x[k] # <<>>
                                                 /\ \E j \in 1..N : x[k] = s[j]
           Good == {n \in 0..N : Kept(FlattenSeq(each(pre(n))), n)}
<1>1. one \in [Texts -> Seq(Texts)]
  OBVIOUS
<1>2. ASSUME NEW x \in Seq(Texts) PROVE Filled(x) = FlattenSeq(each(x))
  <2>1. \A k \in DOMAIN x : x[k] \in Texts
    BY LenProperties, ElementOfSeq
  <2>2. \A k \in DOMAIN x : one[x[k]] = IF IsFilled(x[k]) THEN <<x[k]>> ELSE <<>>
    BY <2>1 DEF IsFilled
  <2> HIDE DEF one
  <2>3. each(x) = [k \in DOMAIN x |-> IF IsFilled(x[k]) THEN <<x[k]>> ELSE <<>>]
    BY <2>2
  <2> QED BY <2>3 DEF Filled, Those
<1>3. N \in Nat
  BY LenProperties
<1>4. 0 \in Good
  <2>1. pre(0) = <<>>
    BY SubSeqEmpty
  <2>2. each(<<>>) = <<>>
    OBVIOUS
  <2>3. 0 \in 0..N
    BY <1>3
  <2>4. Kept(<<>>, 0)
    <3> HIDE DEF pre, N
    <3>1. WordsIn(<<>>) = WordsIn(pre(0))
      BY <2>1
    <3>2. <<>> \in Seq(Texts) /\ Len(<<>>) = 0
      OBVIOUS
    <3> QED BY <3>1, <3>2
  <2> HIDE DEF pre, each, Kept, N
  <2> QED BY <2>1, <2>2, <2>3, <2>4, FlattenNothing
<1>5. ASSUME NEW n \in 1..N, n - 1 \in Good PROVE n \in Good
  <2> DEFINE x == FlattenSeq(each(pre(n - 1)))
  <2>1. /\ pre(n) = Append(pre(n - 1), s[n]) /\ pre(n - 1) \in Seq(Texts) /\ s[n] \in Texts
    BY PrefixStep
  <2>2. /\ each(pre(n)) = Append(each(pre(n - 1)), one[s[n]])
        /\ each(pre(n - 1)) \in Seq(Seq(Texts))
    <3> HIDE DEF one, pre
    <3>1. ASSUME NEW y \in Seq(Texts), NEW e \in Texts
          PROVE  each(y) \in Seq(Seq(Texts)) /\ each(Append(y, e)) = Append(each(y), one[e])
      <4> DEFINE B == Seq(Texts)
      <4>1. one \in [Texts -> B]
        BY <1>1
      <4> HIDE DEF B
      <4>2. each(y) \in Seq(B)
        <5>1. Len(y) \in Nat /\ DOMAIN y = 1..Len(y) /\ \A k \in 1..Len(y) : y[k] \in Texts
          BY LenProperties, ElementOfSeq
        <5> QED BY <4>1, <5>1
      <4>3. each(Append(y, e)) = Append(each(y), one[e])
        BY <4>1, LastOfEach
      <4> HIDE DEF each
      <4> QED BY <4>2, <4>3 DEF B
    <3> HIDE DEF each
    <3> QED BY <2>1, <3>1
  <2>3. FlattenSeq(each(pre(n))) = x \o one[s[n]] /\ one[s[n]] \in Seq(Texts)
    <3>1. one[s[n]] \in Seq(Texts)
      BY <1>1, <2>1
    <3> HIDE DEF one, pre, each
    <3> QED BY <2>2, <3>1, FlattenProperties
  <2>4. one[s[n]] = IF s[n] # <<>> THEN <<s[n]>> ELSE <<>>
    BY <2>1
  <2>5. Kept(x, n - 1)
    BY <1>5
  <2>6. n \in 0..N
    BY <1>3
  <2>7. WordsIn(pre(n)) = WordsIn(pre(n - 1)) \o WordsOf(s[n]) /\ WordsIn(pre(n - 1)) \in Texts
    <3> HIDE DEF pre
    <3> QED BY <2>1, WordsInTexts
  <2>8. x \in Seq(Texts) /\ WordsIn(x) = WordsIn(pre(n - 1))
    BY <2>5
  <2>9. \A k \in 1..Len(x) : x[k] # <<>> /\ \E j \in 1..N : x[k] = s[j]
    BY <2>5
  <2> HIDE DEF x, pre, each, one, N
  <2>10. CASE s[n] = <<>>
    <3>1. x \o one[s[n]] = x
      BY <2>4, <2>8, <2>10, ConcatEmptySeq
    <3>2. WordsIn(pre(n)) = WordsIn(pre(n - 1))
      BY <2>7, <2>10, WordsOfText, TextsConcat
    <3>3. Kept(x, n)
      BY <2>8, <2>9, <3>2
    <3> QED BY <2>3, <2>6, <3>1, <3>3
  <2>11. CASE s[n] # <<>>
    <3>1. x \o one[s[n]] = Append(x, s[n])
      BY <2>1, <2>4, <2>8, <2>11, AppendIsConcat
    <3>2. WordsIn(Append(x, s[n])) = WordsIn(pre(n)) /\ Append(x, s[n]) \in Seq(Texts)
      BY <2>1, <2>7, <2>8, WordsInTexts
    <3>3. ASSUME NEW k \in 1..Len(Append(x, s[n]))
          PROVE  Append(x, s[n])[k] # <<>> /\ \E j \in 1..N : Append(x, s[n])[k] = s[j]
      <4>1. /\ Len(Append(x, s[n])) = Len(x) + 1 /\ Len(x) \in Nat
            /\ \A i \in 1..Len(x) : Append(x, s[n])[i] = x[i]
            /\ Append(x, s[n])[Len(x) + 1] = s[n]
        BY <2>1, <2>8, AppendProperties, LenProperties
      <4>2. k \in 1..Len(x) \/ k = Len(x) + 1
        BY <4>1
      <4> QED BY <4>1, <4>2, <2>9, <2>11
    <3>4. Kept(Append(x, s[n]), n)
      BY <3>2, <3>3
    <3> HIDE DEF Kept
    <3> QED BY <2>3, <2>6, <3>1, <3>4
  <2> QED BY <2>10, <2>11
<1>6. N \in Good
  <2> HIDE DEF Good, N
  <2>1. 0..N \subseteq Good
    BY <1>3, <1>4, <1>5, InductionUpTo
  <2> QED BY <2>1, <1>3
<1>7. pre(N) = s
  BY SubSeqFull
<1>8. Kept(Filled(s), N) /\ WordsIn(pre(N)) = WordsIn(s)
  <2>1. Filled(s) = FlattenSeq(each(pre(N)))
    <3> HIDE DEF each, pre
    <3> QED BY <1>2, <1>7
  <2>2. Kept(FlattenSeq(each(pre(N))), N)
    <3> HIDE DEF Kept, each, pre, N
    <3> QED BY <1>6
  <2>3. Kept(Filled(s), N)
    <3> HIDE DEF Kept, each, pre, N
    <3> QED BY <2>1, <2>2
  <2> HIDE DEF Kept, pre
  <2> QED BY <2>3, <1>7
<1> QED BY <1>8

\* The pieces between cuts, stripped, have the words of the text; no piece is longer than it.
LEMMA CutAfterKeepsWords ==
  ASSUME NEW t \in Texts, NEW ends, ends \subseteq 1..Len(t)
  PROVE  /\ CutAfter(t, ends) \in Seq(Texts)
         /\ WordsIn(CutAfter(t, ends)) = WordsOf(t)
         /\ \A k \in 1..Len(CutAfter(t, ends)) : CutAfter(t, ends)[k] # <<>>
<1> DEFINE e == Ascending(ends \cup {Len(t)})
           p == PiecesTo(t, e)
<1>1. CutsOf(t, e)
  BY CutsAreAscending
<1> HIDE DEF e
<1>2. /\ Len(e) \in Nat /\ DOMAIN e = 1..Len(e) /\ Len(t) \in Nat
      /\ \A k \in 1..Len(e) : e[k] \in 0..Len(t)
  BY <1>1, LenProperties, ElementOfSeq DEF CutsOf, Texts
<1>3. p = [k \in 1..Len(e) |-> Strip(SubSeq(t, CutFrom(e, k), e[k]))]
  BY <1>2 DEF PiecesTo, CutFrom
<1>4. ASSUME NEW k \in 1..Len(e)
      PROVE  /\ p[k] \in Texts
             /\ WordsOf(p[k]) = WordsOf(SubSeq(t, CutFrom(e, k), e[k]))
  <2>1. CutFrom(e, k) \in Nat \ {0}
    <3>1. CASE k = 1
      BY <3>1 DEF CutFrom
    <3>2. CASE k # 1
      <4>1. k - 1 \in 1..Len(e)
        BY <3>2, <1>2
      <4>2. e[k - 1] \in 0..Len(t)
        BY <4>1, <1>2
      <4> QED BY <4>2, <3>2, <1>2 DEF CutFrom
    <3> QED BY <3>1, <3>2
  <2>2. SubSeq(t, CutFrom(e, k), e[k]) \in Texts
    BY <2>1, <1>2, SubText
  <2>3. p[k] = Strip(SubSeq(t, CutFrom(e, k), e[k]))
    BY <1>3
  <2> HIDE DEF p
  <2> QED BY <2>2, <2>3, StripKeepsWords
<1>5. p \in Seq(Texts) /\ Len(p) = Len(e)
  <2>1. \A k \in 1..Len(e) : p[k] \in Texts
    <3> HIDE DEF p
    <3> QED BY <1>4
  <2>2. p = [k \in 1..Len(e) |-> p[k]]
    BY <1>3
  <2> HIDE DEF p
  <2>3. p \in [1..Len(e) -> Texts]
    BY <2>1, <2>2
  <2> QED BY <2>3, <1>2
<1> HIDE DEF p
<1>6. WordsIn(p) = WordsOf(t)
  BY <1>1, <1>4, <1>5, CutKeepsWords
<1>7. CutAfter(t, ends) = Filled(p)
  BY DEF CutAfter, p, e
<1> QED BY <1>5, <1>6, <1>7, FilledKeepsWords

\* Sentences, their texts and the words they say one after the other.
SentenceSet == [text : Texts, hard : BOOLEAN]
TextsIn(ss) == [k \in DOMAIN ss |-> ss[k].text]
Spoken(ss) == WordsIn(TextsIn(ss))
\* Sentences none of which is longer than a limit.
Fit(ss, limit) == \A k \in 1..Len(ss) : Len(ss[k].text) <= limit

\* The texts of sentences, what they say one after the other, and their lengths.
LEMMA TextsInSentences ==
  ASSUME NEW s \in Seq(SentenceSet), NEW t \in Seq(SentenceSet), NEW limit \in Nat
  PROVE  /\ TextsIn(s) \in Seq(Texts) /\ Len(TextsIn(s)) = Len(s)
         /\ Spoken(s) \in Texts
         /\ s \o t \in Seq(SentenceSet)
         /\ Spoken(s \o t) = Spoken(s) \o Spoken(t)
         /\ Fit(s, limit) /\ Fit(t, limit) => Fit(s \o t, limit)
<1>1. /\ Len(s) \in Nat /\ DOMAIN s = 1..Len(s) /\ \A k \in 1..Len(s) : s[k] \in SentenceSet
      /\ Len(t) \in Nat /\ DOMAIN t = 1..Len(t) /\ \A k \in 1..Len(t) : t[k] \in SentenceSet
  BY LenProperties, ElementOfSeq
<1>2. /\ s \o t \in Seq(SentenceSet) /\ Len(s \o t) = Len(s) + Len(t)
      /\ \A i \in 1..(Len(s) + Len(t)) :
           (s \o t)[i] = IF i <= Len(s) THEN s[i] ELSE t[i - Len(s)]
  BY ConcatProperties
<1>3. /\ TextsIn(s) \in Seq(Texts) /\ Len(TextsIn(s)) = Len(s)
      /\ TextsIn(t) \in Seq(Texts) /\ Len(TextsIn(t)) = Len(t)
  BY <1>1 DEF TextsIn, SentenceSet
<1>4. /\ DOMAIN (s \o t) = 1..(Len(s) + Len(t))
      /\ \A k \in 1..(Len(s) + Len(t)) : (s \o t)[k] \in SentenceSet
  BY <1>2, LenProperties, ElementOfSeq
<1>5. TextsIn(s \o t) \in Seq(Texts) /\ Len(TextsIn(s \o t)) = Len(s) + Len(t)
  BY <1>1, <1>4 DEF TextsIn, SentenceSet
<1>6. TextsIn(s \o t) = TextsIn(s) \o TextsIn(t)
  <2> DEFINE x == TextsIn(s)
             y == TextsIn(t)
  <2>1. /\ x \o y \in Seq(Texts)
        /\ Len(x \o y) = Len(s) + Len(t)
        /\ \A i \in 1..(Len(s) + Len(t)) :
             (x \o y)[i] = IF i <= Len(s) THEN x[i] ELSE y[i - Len(s)]
    <3>1. x \in Seq(Texts) /\ Len(x) = Len(s) /\ y \in Seq(Texts) /\ Len(y) = Len(t)
      BY <1>3
    <3> HIDE DEF x, y
    <3>2. /\ x \o y \in Seq(Texts)
          /\ Len(x \o y) = Len(x) + Len(y)
          /\ \A i \in 1..(Len(x) + Len(y)) :
               (x \o y)[i] = IF i <= Len(x) THEN x[i] ELSE y[i - Len(x)]
      <4>1. x \in Seq(Texts) /\ y \in Seq(Texts)
        BY <3>1
      <4> QED BY ONLY <4>1, ConcatProperties
    <3> QED BY <3>1, <3>2
  <2>2. ASSUME NEW i \in 1..(Len(s) + Len(t))
        PROVE  TextsIn(s \o t)[i] = (TextsIn(s) \o TextsIn(t))[i]
    <3>1. TextsIn(s \o t)[i] = (s \o t)[i].text
      BY <1>4 DEF TextsIn
    <3>2. CASE i <= Len(s)
      <4>1. i \in 1..Len(s)
        BY <1>1, <3>2
      <4>2. TextsIn(s)[i] = s[i].text
        BY <1>1, <4>1 DEF TextsIn
      <4> QED BY <1>2, <2>1, <3>1, <3>2, <4>2
    <3>3. CASE ~(i <= Len(s))
      <4>1. i - Len(s) \in 1..Len(t)
        BY <1>1, <3>3
      <4>2. TextsIn(t)[i - Len(s)] = t[i - Len(s)].text
        BY <1>1, <4>1 DEF TextsIn
      <4> QED BY <1>2, <2>1, <3>1, <3>3, <4>2
    <3> QED BY <3>2, <3>3
  <2> QED BY <1>5, <2>1, <2>2, SeqEqual
<1>7. Spoken(s) \in Texts /\ Spoken(s \o t) = Spoken(s) \o Spoken(t)
  BY <1>3, <1>6, WordsInTexts, WordsInConcat DEF Spoken
<1>8. ASSUME Fit(s, limit), Fit(t, limit) PROVE Fit(s \o t, limit)
  <2> SUFFICES ASSUME NEW i \in 1..(Len(s) + Len(t)) PROVE Len((s \o t)[i].text) <= limit
    BY <1>2 DEF Fit
  <2>1. CASE i <= Len(s)
    <3>1. i \in 1..Len(s)
      BY <1>1, <2>1
    <3> QED BY <1>2, <1>8, <2>1, <3>1 DEF Fit
  <2>2. CASE ~(i <= Len(s))
    <3>1. i - Len(s) \in 1..Len(t)
      BY <1>1, <2>2
    <3> QED BY <1>2, <1>8, <2>2, <3>1 DEF Fit
  <2> QED BY <2>1, <2>2
<1> QED BY <1>2, <1>3, <1>7, <1>8

\* A sentence more says its text after the others.
LEMMA OneSentence ==
  ASSUME NEW x \in Texts, NEW hard \in BOOLEAN, NEW s \in Seq(SentenceSet), NEW limit \in Nat
  PROVE  /\ Append(s, Sentence(x, hard)) \in Seq(SentenceSet)
         /\ Spoken(Append(s, Sentence(x, hard))) = Spoken(s) \o WordsOf(x)
         /\ Fit(s, limit) /\ Len(x) <= limit => Fit(Append(s, Sentence(x, hard)), limit)
         /\ <<Sentence(x, hard)>> \in Seq(SentenceSet) /\ Spoken(<<Sentence(x, hard)>>) = WordsOf(x)
         /\ Len(x) <= limit => Fit(<<Sentence(x, hard)>>, limit)
<1> DEFINE c == Sentence(x, hard)
           one == <<c>>
<1>1. c \in SentenceSet /\ c.text = x
  BY DEF Sentence, SentenceSet
<1> HIDE DEF c
<1>2. one \in Seq(SentenceSet) /\ Len(one) = 1 /\ one[1] = c /\ DOMAIN one = 1..1
  BY <1>1
<1>3. TextsIn(one) = <<x>>
  <2>1. TextsIn(one) = [k \in 1..1 |-> one[k].text]
    BY <1>2 DEF TextsIn
  <2>2. \A k \in 1..1 : one[k].text = x
    BY <1>1, <1>2
  <2>3. TextsIn(one) = [k \in 1..1 |-> x]
    <3> HIDE DEF one
    <3> QED BY <2>1, <2>2
  <2> QED BY <2>3
<1>4. Spoken(one) = WordsOf(x)
  <2>1. <<x>> = Append(<<>>, x) /\ <<>> \in Seq(Texts)
    OBVIOUS
  <2>2. WordsIn(<<x>>) = <<>> \o WordsOf(x)
    BY <2>1, WordsInTexts
  <2>3. WordsOf(x) \in Texts
    BY WordsOfText
  <2> QED BY <1>3, <2>2, <2>3, TextsConcat DEF Spoken
<1>5. Len(x) <= limit => Fit(one, limit)
  BY <1>1, <1>2 DEF Fit
<1>6. Append(s, c) = s \o one
  BY <1>1, AppendIsConcat
<1> HIDE DEF one
<1>7. /\ s \o one \in Seq(SentenceSet) /\ Spoken(s \o one) = Spoken(s) \o Spoken(one)
      /\ Fit(s, limit) /\ Fit(one, limit) => Fit(s \o one, limit)
  BY <1>2, TextsInSentences
<1> QED BY <1>2, <1>4, <1>5, <1>6, <1>7 DEF c, one

\* No sentence says nothing.
LEMMA NoSentence ==
  <<>> \in Seq(SentenceSet) /\ Spoken(<<>>) = <<>> /\ \A limit \in Nat : Fit(<<>>, limit)
<1>1. <<>> \in Seq(SentenceSet) /\ TextsIn(<<>>) = <<>> /\ Len(<<>>) = 0
  BY DEF TextsIn
<1> QED BY <1>1, WordsInTexts DEF Spoken, Fit

\* Multiples of a limit.
LEMMA TimesGrow ==
  ASSUME NEW M \in Nat \ {0}, NEW a \in Nat, NEW b \in Nat
  PROVE  /\ a * M \in Nat /\ b * M \in Nat
         /\ (a + 1) * M = a * M + M
         /\ a < b => a * M + M <= b * M
<1>1. a * M \in Nat /\ b * M \in Nat /\ (a + 1) * M = a * M + M
  OBVIOUS
<1>2. ASSUME a < b PROVE a * M + M <= b * M
  <2> DEFINE d == b - a - 1
  <2>1. d \in Nat /\ b = a + d + 1
    BY <1>2
  <2> HIDE DEF d
  <2>2. b * M = a * M + d * M + M
    BY <2>1
  <2>3. d * M \in Nat
    BY <2>1
  <2> QED BY <1>1, <2>2, <2>3
<1> QED BY <1>1, <1>2

\* Division rounded up: one piece less would not be enough.
LEMMA RoundedUp ==
  ASSUME NEW M \in Nat \ {0}, NEW n \in Nat \ {0}
  PROVE  LET q == (n + M - 1) \div M
         IN  q \in Nat \ {0} /\ (q - 1) * M < n /\ n <= q * M
<1> DEFINE q == (n + M - 1) \div M
<1>1. n + M - 1 \in Nat
  OBVIOUS
<1>2. q \in Int /\ M * q <= n + M - 1 /\ n + M - 1 < M * q + M
  BY <1>1
<1> HIDE DEF q
<1>3. q > 0
  <2>1. CASE q <= 0
    <3>1. M * q <= 0
      BY <1>2, <2>1
    <3> QED BY <1>2, <3>1
  <2> QED BY <1>2, <2>1
<1>4. (q - 1) * M = M * q - M /\ q * M = M * q /\ M * q \in Int
  BY <1>2
<1> QED BY <1>2, <1>3, <1>4 DEF q

\* _hard_cut: pieces of at most max_chunk_chars with the words of the text.
LEMMA HardCutKeepsWords ==
  ASSUME NEW t \in Texts, t # <<>>
  PROVE  /\ HardCut(t) \in Seq(SentenceSet)
         /\ Spoken(HardCut(t)) = WordsOf(t)
         /\ Fit(HardCut(t), MaxChars)
<1> DEFINE M == MaxChars
           T == Len(t)
           q == (T + M - 1) \div M
           e == [k \in 1..q |-> Min({k * M, T})]
           cut == HardCut(t)
           p == TextsIn(cut)
<1>1. M \in Nat \ {0} /\ T \in Nat \ {0}
  BY LimitsAssumption, EmptySeq DEF Texts
<1>2. cut = [k \in 1..q |-> Sentence(SubSeq(t, (k - 1) * M + 1, Min({k * M, T})), TRUE)]
  BY DEF HardCut
<1> HIDE DEF M, T
<1>3. q \in Nat \ {0} /\ (q - 1) * M < T /\ T <= q * M
  BY <1>1, RoundedUp
<1> HIDE DEF q
<1>4. ASSUME NEW k \in 1..q
      PROVE  /\ (k - 1) * M \in Nat /\ k * M \in Nat /\ k * M = (k - 1) * M + M
             /\ (k - 1) * M < T
             /\ k < q => k * M < T
             /\ Min({k * M, T}) = IF k < q THEN k * M ELSE T
  <2>1. k \in Nat /\ q \in Nat /\ k - 1 \in Nat /\ q - 1 \in Nat /\ (k - 1) + 1 = k /\ k <= q
    BY <1>3
  <2>2. (k - 1) * M \in Nat /\ k * M \in Nat /\ k * M = (k - 1) * M + M /\ (q - 1) * M \in Nat
    BY <1>1, <2>1, TimesGrow
  <2>3. (k - 1) * M <= (q - 1) * M
    <3>1. CASE k - 1 = q - 1
      BY <3>1, <2>2
    <3>2. CASE k - 1 < q - 1
      <4>1. (k - 1) * M + M <= (q - 1) * M
        BY <1>1, <2>1, <3>2, TimesGrow
      <4> QED BY <1>1, <2>2, <4>1
    <3> QED BY <3>1, <3>2, <2>1
  <2>4. ASSUME k < q PROVE k * M < T
    <3>1. k - 1 < q - 1
      BY <2>1, <2>4
    <3>2. (k - 1) * M + M <= (q - 1) * M
      BY <1>1, <2>1, <3>1, TimesGrow
    <3> QED BY <1>1, <1>3, <2>2, <3>2
  <2>5. k = q => T <= k * M
    BY <1>3
  <2> DEFINE x == k * M
  <2>6. x \in Nat /\ T \in Nat /\ (k < q => x < T) /\ (~(k < q) => T <= x)
    BY <2>1, <2>2, <2>4, <2>5, <1>1
  <2>7. Min({x, T}) = IF k < q THEN x ELSE T
    <3> HIDE DEF x
    <3>1. {x, T} \subseteq Nat /\ {x, T} # {}
      BY <2>6
    <3>2. \E y \in {x, T} : \A z \in {x, T} : y <= z
      BY <3>1, LeastMember
    <3>3. Min({x, T}) \in {x, T} /\ \A z \in {x, T} : Min({x, T}) <= z
      BY <3>2 DEF Min
    <3> QED BY <2>6, <3>3
  <2>8. (k - 1) * M < T
    BY <1>1, <1>3, <2>2, <2>3
  <2> QED BY <2>2, <2>4, <2>7, <2>8
<1>5. \A k \in 1..q : e[k] = Min({k * M, T})
  OBVIOUS
<1> DEFINE piece(k) == SubSeq(t, CutFrom(e, k), e[k])
<1>6. ASSUME NEW k \in 1..q
      PROVE  /\ e[k] \in 0..T
             /\ CutFrom(e, k) = (k - 1) * M + 1
             /\ piece(k) \in Texts /\ Len(piece(k)) <= M
             /\ cut[k] = Sentence(piece(k), TRUE)
  <2>1. e[k] = IF k < q THEN k * M ELSE T
    BY <1>4, <1>5
  <2>2. e[k] \in 0..T
    BY <1>1, <1>4, <2>1
  <2>3. CutFrom(e, k) = (k - 1) * M + 1
    <3>1. CASE k = 1
      <4>1. (k - 1) * M = 0
        BY <3>1, <1>1
      <4> HIDE DEF e
      <4> QED BY <3>1, <4>1 DEF CutFrom
    <3>2. CASE k # 1
      <4>1. k - 1 \in 1..q /\ k - 1 < q
        BY <3>2, <1>3
      <4>2. e[k - 1] = (k - 1) * M
        BY <4>1, <1>4, <1>5
      <4> HIDE DEF e
      <4> QED BY <3>2, <4>2 DEF CutFrom
    <3> QED BY <3>1, <3>2
  <2> HIDE DEF e
  <2> DEFINE a == (k - 1) * M + 1
  <2>4. a \in Nat \ {0} /\ e[k] - a + 1 <= M /\ a <= e[k]
    BY <1>1, <1>4, <2>1, <1>3
  <2>5. SubSeq(t, a, e[k]) \in Texts /\ Len(SubSeq(t, a, e[k])) = e[k] - a + 1
    <3> HIDE DEF a
    <3>1. e[k] \in 0..Len(t)
      BY <2>2 DEF T
    <3> QED BY <2>4, <3>1, SubText
  <2>6. piece(k) = SubSeq(t, a, e[k])
    BY <2>3
  <2>7. cut[k] = Sentence(SubSeq(t, a, e[k]), TRUE)
    BY <1>2, <1>5
  <2> HIDE DEF a, piece, cut
  <2> QED BY <2>2, <2>3, <2>4, <2>5, <2>6, <2>7 DEF a
<1>7. cut \in Seq(SentenceSet) /\ Len(cut) = q
  <2>1. \A k \in 1..q : cut[k] \in SentenceSet
    <3> TAKE k \in 1..q
    <3>1. piece(k) \in Texts /\ cut[k] = Sentence(piece(k), TRUE)
      BY <1>6
    <3> DEFINE x == piece(k)
    <3> HIDE DEF cut, piece, x
    <3>2. x \in Texts /\ cut[k] = Sentence(x, TRUE)
      BY <3>1 DEF x
    <3> QED BY <3>2 DEF Sentence, SentenceSet
  <2>2. cut = [k \in 1..q |-> cut[k]]
    BY <1>2
  <2> HIDE DEF cut
  <2>3. cut \in [1..q -> SentenceSet]
    BY <2>1, <2>2
  <2> QED BY <2>3, <1>3
<1>8. \A k \in 1..q : cut[k].text = piece(k)
  <2> TAKE k \in 1..q
  <2>1. cut[k] = Sentence(piece(k), TRUE)
    BY <1>6
  <2> HIDE DEF cut, piece
  <2> QED BY <2>1 DEF Sentence
<1>9. Fit(cut, MaxChars)
  <2> HIDE DEF cut, piece
  <2> QED BY <1>6, <1>7, <1>8 DEF Fit, M
<1>10. CutsOf(t, e)
  <2>1. e \in Seq(0..T) /\ Len(e) = q
    <3>1. \A k \in 1..q : e[k] \in 0..T
      <4> HIDE DEF e, piece, cut
      <4> QED BY <1>6
    <3>2. e = [k \in 1..q |-> e[k]]
      OBVIOUS
    <3> DEFINE R == 0..T
    <3> HIDE DEF e
    <3>3. e \in [1..q -> R] /\ q \in Nat
      BY <3>1, <3>2, <1>3
    <3> HIDE DEF R
    <3>4. e \in Seq(R) /\ Len(e) = q
      BY ONLY <3>3
    <3> QED BY <3>4 DEF R
  <2>2. ASSUME NEW i \in 1..q, NEW j \in 1..q, i < j PROVE e[i] < e[j]
    <3>1. e[i] = i * M /\ e[i] < T
      BY <2>2, <1>3, <1>4, <1>5
    <3>2. e[j] = j * M \/ e[j] = T
      BY <1>4, <1>5
    <3>3. i * M < j * M
      <4>1. i * M + M <= j * M /\ i * M \in Nat /\ j * M \in Nat
        BY <1>1, <2>2, TimesGrow
      <4> QED BY <4>1, <1>1
    <3> QED BY <3>1, <3>2, <3>3
  <2>3. e[q] = T
    <3>1. q \in 1..q /\ ~(q < q)
      BY <1>3
    <3> QED BY <3>1, <1>4, <1>5
  <2> HIDE DEF e
  <2> QED BY <1>3, <2>1, <2>2, <2>3 DEF CutsOf, T
<1>11. Len(e) = q
  BY <1>3
<1>12. p \in Seq(Texts) /\ Len(p) = q
  <2> HIDE DEF cut
  <2>1. 0 \in Nat
    OBVIOUS
  <2> QED BY <1>7, <2>1, TextsInSentences
<1>13. \A k \in 1..q : p[k] = piece(k)
  <2>1. DOMAIN cut = 1..q
    <3> HIDE DEF cut
    <3> QED BY <1>7, LenProperties
  <2> HIDE DEF cut, piece
  <2> QED BY <1>8, <2>1 DEF TextsIn
<1>14. WordsIn(p) = WordsOf(t)
  <2>1. \A k \in 1..Len(e) : WordsOf(p[k]) = WordsOf(SubSeq(t, CutFrom(e, k), e[k]))
    <3> HIDE DEF p, e
    <3> QED BY <1>11, <1>13
  <2> HIDE DEF p, e, piece
  <2> QED BY <1>10, <1>11, <1>12, <2>1, CutKeepsWords
<1> HIDE DEF cut
<1> QED BY <1>7, <1>9, <1>14 DEF Spoken, cut

\* Lengths of texts are numbers and add up.
LEMMA TextLengths ==
  /\ Len(<<>>) = 0
  /\ \A x \in Texts : Len(x) \in Nat /\ (x # <<>> => Len(x) > 0)
  /\ \A x, y \in Texts : Len(x \o y) = Len(x) + Len(y)
<1>1. \A x \in Texts : Len(x) \in Nat /\ (x # <<>> => Len(x) > 0)
  BY LenProperties, EmptySeq DEF Texts
<1>2. ASSUME NEW x \in Texts, NEW y \in Texts PROVE Len(x \o y) = Len(x) + Len(y)
  <2>1. x \in Seq(Characters) /\ y \in Seq(Characters)
    BY DEF Texts
  <2> QED BY <2>1, ConcatProperties
<1>3. Len(<<>>) = 0
  OBVIOUS
<1> QED BY <1>1, <1>2, <1>3

\* A character that is put in is no word.
LEMMA PutInText ==
  ASSUME NEW role \in Roles
  PROVE  /\ PutIn(role) \in Texts /\ Len(PutIn(role)) = 1 /\ WordsOf(PutIn(role)) = <<>>
         /\ PutIn(role)[1] = Char(<<>>, role)
<1> DEFINE c == Char(<<>>, role)
<1>1. c \in Characters /\ ~IsWord(c)
  BY DEF Char, Characters, AnyRole, IsWord
<1> HIDE DEF c
<1>2. <<c>> \in Texts /\ Len(<<c>>) = 1 /\ <<c>>[1] = c
  BY <1>1 DEF Texts
<1>3. WordsOf(<<c>>) = <<>>
  BY <1>1, <1>2, NoWords
<1> QED BY <1>2, <1>3 DEF PutIn, c

\* Two texts joined with a character between them.
LEMMA JoinedText ==
  ASSUME NEW s \in Texts, NEW t \in Texts, NEW role \in Roles
  PROVE  /\ s \o PutIn(role) \o t \in Texts
         /\ WordsOf(s \o PutIn(role) \o t) = WordsOf(s) \o WordsOf(t)
         /\ Len(s \o PutIn(role) \o t) = Len(s) + Len(t) + 1
<1> DEFINE p == PutIn(role)
<1>1. p \in Texts /\ Len(p) = 1 /\ WordsOf(p) = <<>>
  BY PutInText
<1> HIDE DEF p
<1>2. s \o p \in Texts /\ WordsOf(s \o p) = WordsOf(s) \o WordsOf(p) /\ WordsOf(s) \in Texts
  BY <1>1, TextsConcat, WordsConcat, WordsOfText
<1>3. s \o p \o t \in Texts /\ WordsOf(s \o p \o t) = WordsOf(s \o p) \o WordsOf(t)
  BY <1>2, TextsConcat, WordsConcat
<1>4. WordsOf(s \o p) = WordsOf(s)
  BY <1>1, <1>2, TextsConcat
<1>5. Len(s \o p) = Len(s) + 1 /\ Len(s \o p \o t) = Len(s \o p) + Len(t)
  BY <1>1, <1>2, TextLengths
<1>6. Len(s) \in Nat /\ Len(t) \in Nat
  BY LenProperties DEF Texts
<1> QED BY <1>3, <1>4, <1>5, <1>6 DEF p

\* Parts that are merged into sentences: what is out, what is in the buffer.
CutStates == [out : Seq(SentenceSet), buf : Texts]

\* What the parts say, and that they fit.
CutWords(a) == Spoken(a.out) \o WordsOf(a.buf)
CutFits(a) == Fit(a.out, MaxChars) /\ Len(a.buf) <= MaxChars

\* What is left in the buffer becomes the last sentence.
LEMMA FlushPartKeepsWords ==
  ASSUME NEW a \in CutStates
  PROVE  /\ FlushPart(a) \in Seq(SentenceSet) /\ Spoken(FlushPart(a)) = CutWords(a)
         /\ CutFits(a) => Fit(FlushPart(a), MaxChars)
<1>1. a.out \in Seq(SentenceSet) /\ a.buf \in Texts
  BY DEF CutStates
<1>2. MaxChars \in Nat /\ FALSE \in BOOLEAN
  BY LimitsAssumption
<1>3. CASE a.buf = <<>>
  <2>1. Spoken(a.out) \in Texts
    BY <1>1, <1>2, TextsInSentences
  <2>2. CutWords(a) = Spoken(a.out)
    BY <1>3, <2>1, WordsOfText, TextsConcat DEF CutWords
  <2> QED BY <1>1, <1>3, <2>2 DEF FlushPart, CutFits
<1>4. CASE a.buf # <<>>
  <2>1. FlushPart(a) = Append(a.out, Sentence(a.buf, FALSE))
    BY <1>4 DEF FlushPart
  <2> DEFINE s == a.out
             x == a.buf
  <2> HIDE DEF s, x
  <2>2. s \in Seq(SentenceSet) /\ x \in Texts
    BY <1>1 DEF s, x
  <2>3. /\ Append(s, Sentence(x, FALSE)) \in Seq(SentenceSet)
        /\ Spoken(Append(s, Sentence(x, FALSE))) = Spoken(s) \o WordsOf(x)
        /\ Fit(s, MaxChars) /\ Len(x) <= MaxChars => Fit(Append(s, Sentence(x, FALSE)), MaxChars)
    BY <1>2, <2>2, OneSentence
  <2> QED BY <2>1, <2>3 DEF CutWords, CutFits, s, x
<1> QED BY <1>3, <1>4

\* A part that is added to the buffer, or starts a new one, is told after what was cut before.
LEMMA AddPartKeepsWords ==
  ASSUME NEW a \in CutStates, CutFits(a), NEW part \in Texts, NEW sep \in Roles
  PROVE  LET b == AddPart(a, part, sep)
         IN  b \in CutStates /\ CutFits(b) /\ CutWords(b) = CutWords(a) \o WordsOf(part)
<1> DEFINE b == AddPart(a, part, sep)
<1>1. a.out \in Seq(SentenceSet) /\ a.buf \in Texts /\ Fit(a.out, MaxChars)
  BY DEF CutStates, CutFits
<1>2. MaxChars \in Nat
  BY LimitsAssumption
<1>3. Len(a.buf) \in Nat /\ Len(part) \in Nat
  BY <1>1, LenProperties DEF Texts
<1>4. /\ WordsOf(a.buf) \in Texts /\ WordsOf(part) \in Texts /\ Spoken(a.out) \in Texts
      /\ CutWords(a) \in Texts
  BY <1>1, <1>2, WordsOfText, TextsInSentences, TextsConcat DEF CutWords
<1>5. CASE Len(a.buf) + Len(part) + (IF a.buf = <<>> THEN 0 ELSE 1) <= MaxChars
  <2> DEFINE buf == IF a.buf = <<>> THEN part ELSE a.buf \o PutIn(sep) \o part
  <2>1. b = [out |-> a.out, buf |-> buf]
    BY <1>5 DEF AddPart
  <2>2. buf \in Texts /\ Len(buf) <= MaxChars /\ WordsOf(buf) = WordsOf(a.buf) \o WordsOf(part)
    <3>1. CASE a.buf = <<>>
      <4>1. Len(a.buf) = 0 /\ WordsOf(a.buf) = <<>> /\ buf = part
        BY <3>1, WordsOfText, TextLengths
      <4>2. <<>> \o WordsOf(part) = WordsOf(part)
        BY <1>4, TextsConcat
      <4>3. Len(part) <= MaxChars
        BY <1>3, <1>5, <3>1, <4>1
      <4> HIDE DEF buf
      <4> QED BY <4>1, <4>2, <4>3
    <3>2. CASE a.buf # <<>>
      <4>1. buf = a.buf \o PutIn(sep) \o part
        BY <3>2
      <4> DEFINE x == a.buf
      <4> HIDE DEF buf, x
      <4>2. buf = x \o PutIn(sep) \o part /\ x \in Texts
        BY <1>1, <4>1 DEF x
      <4>3. buf \in Texts /\ WordsOf(buf) = WordsOf(x) \o WordsOf(part)
            /\ Len(buf) = Len(x) + Len(part) + 1
        BY <4>2, JoinedText
      <4>4. Len(x) + Len(part) + 1 <= MaxChars
        BY <1>5, <3>2 DEF x
      <4> QED BY <4>3, <4>4 DEF x
    <3> QED BY <3>1, <3>2
  <2> HIDE DEF buf, b
  <2>3. b.out = a.out /\ b.buf = buf
    BY <2>1
  <2>4. b \in CutStates /\ CutFits(b)
    BY <1>1, <2>1, <2>2, <2>3 DEF CutStates, CutFits
  <2>5. CutWords(b) = CutWords(a) \o WordsOf(part)
    <3> DEFINE x == Spoken(a.out)
               y == WordsOf(a.buf)
               z == WordsOf(part)
    <3>1. CutWords(b) = x \o (y \o z) /\ CutWords(a) = x \o y
      BY <2>2, <2>3 DEF CutWords
    <3>2. x \in Texts /\ y \in Texts /\ z \in Texts
      BY <1>4
    <3> HIDE DEF x, y, z
    <3>3. CutWords(b) = (x \o y) \o z
      BY <3>1, <3>2, TextsConcat
    <3> QED BY <3>1, <3>3 DEF z
  <2> QED BY <2>4, <2>5 DEF b
<1>6. CASE /\ ~(Len(a.buf) + Len(part) + (IF a.buf = <<>> THEN 0 ELSE 1) <= MaxChars)
           /\ Len(part) <= MaxChars
  <2>1. b = [out |-> FlushPart(a), buf |-> part]
    BY <1>6 DEF AddPart
  <2> HIDE DEF b
  <2>2. b.out = FlushPart(a) /\ b.buf = part
    BY <2>1
  <2>3. b \in CutStates /\ CutFits(b)
    BY <1>6, <2>1, <2>2, FlushPartKeepsWords DEF CutStates, CutFits
  <2>4. CutWords(b) = CutWords(a) \o WordsOf(part)
    BY <2>2, FlushPartKeepsWords DEF CutWords
  <2> QED BY <2>3, <2>4 DEF b
<1>7. CASE /\ ~(Len(a.buf) + Len(part) + (IF a.buf = <<>> THEN 0 ELSE 1) <= MaxChars)
           /\ ~(Len(part) <= MaxChars)
  <2> DEFINE f == FlushPart(a)
             h == HardCut(part)
  <2>1. b = [out |-> f \o h, buf |-> <<>>]
    BY <1>7 DEF AddPart
  <2>2. Len(<<>>) = 0
    OBVIOUS
  <2>3. part # <<>>
    BY <1>2, <1>3, <1>7, <2>2
  <2>4. h \in Seq(SentenceSet) /\ Spoken(h) = WordsOf(part) /\ Fit(h, MaxChars)
    BY <2>3, HardCutKeepsWords
  <2>5. f \in Seq(SentenceSet) /\ Spoken(f) = CutWords(a) /\ Fit(f, MaxChars)
    BY FlushPartKeepsWords
  <2> HIDE DEF b, f, h
  <2>6. f \o h \in Seq(SentenceSet) /\ Spoken(f \o h) = Spoken(f) \o Spoken(h)
        /\ Fit(f \o h, MaxChars)
    BY <1>2, <2>4, <2>5, TextsInSentences
  <2>7. b.out = f \o h /\ b.buf = <<>>
    BY <2>1
  <2>8. b \in CutStates /\ CutFits(b)
    BY <1>2, <2>1, <2>2, <2>6, <2>7, TextsConcat DEF CutStates, CutFits
  <2>9. CutWords(b) = CutWords(a) \o WordsOf(part)
    <3>1. CutWords(b) = Spoken(f \o h) \o <<>>
      BY <2>7, WordsOfText DEF CutWords
    <3>2. Spoken(f \o h) \in Texts
      BY <1>2, <2>6, TextsInSentences
    <3> QED BY <2>4, <2>5, <2>6, <3>1, <3>2, TextsConcat
  <2> QED BY <2>8, <2>9 DEF b
<1> QED BY <1>5, <1>6, <1>7

\* _merge_or_hard_cut: sentences of at most max_chunk_chars with the words of the parts.
LEMMA MergeOrHardCutKeepsWords ==
  ASSUME NEW parts \in Seq(Texts), NEW sep \in Roles
  PROVE  /\ MergeOrHardCut(parts, sep) \in Seq(SentenceSet)
         /\ Spoken(MergeOrHardCut(parts, sep)) = WordsIn(parts)
         /\ Fit(MergeOrHardCut(parts, sep), MaxChars)
<1> DEFINE N == Len(parts)
           A == {a \in CutStates : CutFits(a)}
           step == [x \in A \X (1..N) |-> AddPart(x[1], parts[x[2]], sep)]
           Solves(f) == f = [k \in 0..N |-> IF k = 0 THEN NothingCut
                                            ELSE AddPart(f[k - 1], parts[k], sep)]
<1>1. N \in Nat /\ \A k \in 1..N : parts[k] \in Texts
  BY LenProperties, ElementOfSeq
<1>2. \A a \in A, k \in 1..N :
        /\ AddPart(a, parts[k], sep) \in A
        /\ CutWords(AddPart(a, parts[k], sep)) = CutWords(a) \o WordsOf(parts[k])
  BY <1>1, AddPartKeepsWords
<1>3. NothingCut \in A /\ CutWords(NothingCut) = <<>>
  <2>1. NothingCut.out = <<>> /\ NothingCut.buf = <<>> /\ Len(<<>>) = 0 /\ MaxChars \in Nat
    BY LimitsAssumption DEF NothingCut
  <2>2. NothingCut \in CutStates
    BY NoSentence, TextsConcat DEF CutStates, NothingCut
  <2>3. CutFits(NothingCut)
    BY <2>1, NoSentence DEF CutFits
  <2>4. CutWords(NothingCut) = <<>>
    BY <2>1, NoSentence, WordsOfText, TextsConcat DEF CutWords
  <2> QED BY <2>2, <2>3, <2>4
<1> HIDE DEF A, N
<1>4. step \in Steps(A, N)
  BY <1>2 DEF Steps
<1>5. PICK f : Iterates(f, N, A, NothingCut, step)
  <2> HIDE DEF step
  <2> QED BY <1>1, <1>3, <1>4, Recursion
<1>6. Solves(f)
  <2>1. ASSUME NEW k \in 1..N PROVE f[k] = AddPart(f[k - 1], parts[k], sep)
    <3>1. k - 1 \in 0..N
      BY <1>1
    <3>2. <<f[k - 1], k>> \in A \X (1..N)
      BY <3>1, <1>5 DEF Iterates
    <3> QED BY <3>2, <1>5 DEF Iterates
  <2> QED BY <1>1, <1>5, <2>1 DEF Iterates
<1> DEFINE after == CHOOSE g : Solves(g)
<1>7. Solves(after)
  <2> HIDE DEF Solves
  <2> QED BY <1>6
<1>8. MergeOrHardCut(parts, sep) = FlushPart(after[N])
  BY DEF MergeOrHardCut, N
<1> HIDE DEF after
<1>9. after[0] = NothingCut /\ \A k \in 1..N : after[k] = AddPart(after[k - 1], parts[k], sep)
  BY <1>1, <1>7
<1> DEFINE S == {k \in 0..N : after[k] \in A /\ CutWords(after[k]) = WordsIn(SubSeq(parts, 1, k))}
<1>10. 0 \in S
  <2>1. SubSeq(parts, 1, 0) = <<>>
    OBVIOUS
  <2>2. CutWords(after[0]) = WordsIn(SubSeq(parts, 1, 0)) /\ after[0] \in A
    BY <1>3, <1>9, <2>1, WordsInTexts
  <2> QED BY <1>1, <2>2
<1>11. ASSUME NEW k \in 1..N, k - 1 \in S PROVE k \in S
  <2> DEFINE was == SubSeq(parts, 1, k - 1)
             is == SubSeq(parts, 1, k)
  <2>1. is = Append(was, parts[k]) /\ was \in Seq(Texts)
    BY PrefixStep DEF N
  <2>2. after[k - 1] \in A /\ CutWords(after[k - 1]) = WordsIn(was)
    BY <1>11
  <2>3. after[k] \in A /\ CutWords(after[k]) = CutWords(after[k - 1]) \o WordsOf(parts[k])
    BY <1>2, <1>9, <2>2
  <2> HIDE DEF was, is
  <2>4. WordsIn(is) = WordsIn(was) \o WordsOf(parts[k])
    BY <1>1, <2>1, WordsInTexts
  <2>5. k \in 0..N
    BY <1>1
  <2> QED BY <2>2, <2>3, <2>4, <2>5 DEF is
<1> HIDE DEF S
<1>12. N \in S
  <2>1. 0..N \subseteq S
    BY <1>1, <1>10, <1>11, InductionUpTo
  <2> QED BY <1>1, <2>1
<1>13. SubSeq(parts, 1, N) = parts
  BY SubSeqFull DEF N
<1>14. after[N] \in CutStates /\ CutFits(after[N]) /\ CutWords(after[N]) = WordsIn(parts)
  BY <1>12, <1>13 DEF S, A
<1> QED BY <1>8, <1>14, FlushPartKeepsWords

\* A separator that becomes a blank is no word.
LEMMA BlankedKeepsWords ==
  ASSUME NEW t \in Texts, NEW role \in {"semi", "comma", "blank"}
  PROVE  /\ Blanked(t, role) \in Texts /\ Len(Blanked(t, role)) = Len(t)
         /\ WordsOf(Blanked(t, role)) = WordsOf(t)
<1> DEFINE b == Blanked(t, role)
           c == Char(<<>>, "newline")
           N == Len(t)
<1>1. N \in Nat /\ DOMAIN t = 1..N /\ \A k \in 1..N : t[k] \in Characters
  BY LenProperties, ElementOfSeq DEF Texts
<1>2. c \in Characters /\ ~IsWord(c)
  BY DEF Char, Characters, AnyRole, Roles, IsWord
<1> HIDE DEF N, c
<1>3. b = [k \in 1..N |-> IF t[k].role = role THEN c ELSE t[k]]
  BY <1>1 DEF Blanked, c
<1>4. \A k \in 1..N : b[k] \in Characters /\ (b[k] = t[k] \/ (~IsWord(t[k]) /\ ~IsWord(b[k])))
  BY <1>1, <1>2, <1>3 DEF IsWord
<1>5. b \in Texts /\ Len(b) = N
  <2>1. b \in [1..N -> Characters]
    BY <1>3, <1>4
  <2> HIDE DEF b
  <2> QED BY <2>1, <1>1 DEF Texts
<1> HIDE DEF b
<1>6. WordsOf(b) = WordsOf(t)
  <2>1. Len(t) = Len(b) /\ \A k \in 1..Len(t) : t[k] = b[k] \/ (~IsWord(t[k]) /\ ~IsWord(b[k]))
    BY <1>4, <1>5 DEF N
  <2> QED BY <1>5, <2>1, SameWords
<1> QED BY <1>5, <1>6 DEF b, N

\* Splitting a text at a separator keeps its words.
LEMMA SplitOnKeepsWords ==
  ASSUME NEW t \in Texts, NEW role \in {"semi", "comma", "blank"}
  PROVE  SplitOn(t, role) \in Seq(Texts) /\ WordsIn(SplitOn(t, role)) = WordsOf(t)
<1> DEFINE b == Blanked(t, role)
           e == Places(t, role)
<1>1. b \in Texts /\ Len(b) = Len(t) /\ WordsOf(b) = WordsOf(t)
  BY BlankedKeepsWords
<1>2. e \subseteq 1..Len(b)
  <2>1. DOMAIN t = 1..Len(t)
    BY LenProperties DEF Texts
  <2> QED BY <1>1, <2>1 DEF Places
<1>3. SplitOn(t, role) = CutAfter(b, e)
  BY DEF SplitOn
<1> HIDE DEF b, e
<1> QED BY <1>1, <1>2, <1>3, CutAfterKeepsWords

\* _split_overlong_sentence keeps the words of a text and makes sentences that fit.
LEMMA SplitOverlongKeepsWords ==
  ASSUME NEW t \in Texts, t # <<>>
  PROVE  /\ SplitOverlong(t) \in Seq(SentenceSet)
         /\ Spoken(SplitOverlong(t)) = WordsOf(t) /\ Fit(SplitOverlong(t), MaxChars)
<1> DEFINE marks == <<"semi", "comma", "blank">>
           found == {r \in 1..3 : Places(t, marks[r]) # {}}
           role == marks[Min(found)]
<1>1. CASE found = {}
  BY <1>1, HardCutKeepsWords DEF SplitOverlong
<1>2. CASE found # {}
  <2>1. found \subseteq 0..3
    OBVIOUS
  <2>2. Min(found) \in 1..3
    <3>1. 3 \in Nat
      OBVIOUS
    <3>2. Min(found) \in found
      <4> HIDE DEF found
      <4> QED BY <1>2, <2>1, <3>1, Extremes
    <3> QED BY <3>2
  <2>3. SplitOverlong(t) = MergeOrHardCut(SplitOn(t, role), role)
    BY <1>2 DEF SplitOverlong
  <2> HIDE DEF found
  <2>4. role \in {"semi", "comma", "blank"}
    BY <2>2
  <2> HIDE DEF role
  <2>5. role \in Roles
    BY <2>4 DEF Roles
  <2>6. SplitOn(t, role) \in Seq(Texts) /\ WordsIn(SplitOn(t, role)) = WordsOf(t)
    BY <2>4, SplitOnKeepsWords
  <2> QED BY <2>3, <2>5, <2>6, MergeOrHardCutKeepsWords
<1> QED BY <1>1, <1>2

\* A sentence that fits is kept and a longer one is split: the words stay.
LEMMA FittingKeepsWords ==
  ASSUME NEW t \in Texts, t # <<>>
  PROVE  /\ Fitting(t) \in Seq(SentenceSet)
         /\ Spoken(Fitting(t)) = WordsOf(t) /\ Fit(Fitting(t), MaxChars)
<1>1. CASE Len(t) <= MaxChars
  <2>1. Fitting(t) = <<Sentence(t, FALSE)>>
    BY <1>1 DEF Fitting
  <2>2. MaxChars \in Nat /\ FALSE \in BOOLEAN
    BY LimitsAssumption
  <2> QED BY <1>1, <2>1, <2>2, OneSentence, NoSentence
<1>2. CASE ~(Len(t) <= MaxChars)
  BY <1>2, SplitOverlongKeepsWords DEF Fitting
<1> QED BY <1>1, <1>2

\* Sentences made of texts one by one.
LEMMA SpokenInTurn ==
  ASSUME NEW ss \in Seq(Seq(SentenceSet)), NEW texts \in Seq(Texts), Len(ss) = Len(texts),
         NEW limit \in Nat,
         \A k \in 1..Len(texts) : Spoken(ss[k]) = WordsOf(texts[k]) /\ Fit(ss[k], limit)
  PROVE  /\ FlattenSeq(ss) \in Seq(SentenceSet)
         /\ Spoken(FlattenSeq(ss)) = WordsIn(texts) /\ Fit(FlattenSeq(ss), limit)
<1> DEFINE N == Len(texts)
           first(k) == FlattenSeq(SubSeq(ss, 1, k))
           S == {k \in 0..N : /\ Spoken(first(k)) = WordsIn(SubSeq(texts, 1, k))
                              /\ Fit(first(k), limit)}
<1>1. N \in Nat /\ N = Len(ss)
  BY LenProperties
<1>2. 0 \in S
  <2>1. SubSeq(ss, 1, 0) = <<>> /\ SubSeq(texts, 1, 0) = <<>>
    OBVIOUS
  <2>2. first(0) = <<>> /\ WordsIn(SubSeq(texts, 1, 0)) = <<>>
    BY <2>1, FlattenNothing, WordsInTexts
  <2> HIDE DEF first
  <2>3. Spoken(first(0)) = WordsIn(SubSeq(texts, 1, 0)) /\ Fit(first(0), limit)
    BY <2>2, NoSentence
  <2> QED BY <1>1, <2>3
<1>3. ASSUME NEW k \in 1..N, k - 1 \in S PROVE k \in S
  <2>1. /\ SubSeq(ss, 1, k) = Append(SubSeq(ss, 1, k - 1), ss[k])
        /\ SubSeq(ss, 1, k - 1) \in Seq(Seq(SentenceSet)) /\ ss[k] \in Seq(SentenceSet)
    BY <1>1, PrefixStep
  <2>2. /\ SubSeq(texts, 1, k) = Append(SubSeq(texts, 1, k - 1), texts[k])
        /\ SubSeq(texts, 1, k - 1) \in Seq(Texts) /\ texts[k] \in Texts
    BY PrefixStep
  <2>3. first(k - 1) \in Seq(SentenceSet) /\ first(k) = first(k - 1) \o ss[k]
    BY <2>1, FlattenProperties
  <2>4. Spoken(first(k - 1)) = WordsIn(SubSeq(texts, 1, k - 1)) /\ Fit(first(k - 1), limit)
    BY <1>3
  <2>5. WordsIn(SubSeq(texts, 1, k)) = WordsIn(SubSeq(texts, 1, k - 1)) \o WordsOf(texts[k])
    BY <2>2, WordsInTexts
  <2> DEFINE a == first(k - 1)
             b == ss[k]
  <2>6. a \in Seq(SentenceSet) /\ b \in Seq(SentenceSet) /\ Fit(a, limit)
        /\ Spoken(b) = WordsOf(texts[k]) /\ Fit(b, limit)
    BY <2>1, <2>3, <2>4
  <2> HIDE DEF a, b
  <2>7. Spoken(a \o b) = Spoken(a) \o Spoken(b) /\ Fit(a \o b, limit)
    BY <2>6, TextsInSentences
  <2> USE DEF a, b
  <2> HIDE DEF first
  <2>8. Spoken(first(k)) = WordsIn(SubSeq(texts, 1, k)) /\ Fit(first(k), limit)
    BY <2>3, <2>4, <2>5, <2>6, <2>7
  <2>9. k \in 0..N
    BY <1>1
  <2> QED BY <2>8, <2>9
<1> HIDE DEF S
<1>4. N \in S
  <2>1. 0..N \subseteq S
    BY <1>1, <1>2, <1>3, InductionUpTo
  <2> QED BY <1>1, <2>1
<1>5. SubSeq(ss, 1, N) = ss /\ SubSeq(texts, 1, N) = texts
  BY <1>1, SubSeqFull
<1>6. Spoken(first(N)) = WordsIn(SubSeq(texts, 1, N)) /\ Fit(first(N), limit)
  BY <1>4 DEF S
<1>7. FlattenSeq(ss) \in Seq(SentenceSet)
  <2>1. <<>> \in Seq(SentenceSet)
    OBVIOUS
  <2> QED BY <2>1, FlattenProperties
<1> QED BY <1>5, <1>6, <1>7

\* split_sentences keeps the words of a text and makes sentences that fit.
LEMMA SplitSentencesKeepsWords ==
  ASSUME NEW t \in Texts
  PROVE  /\ SplitSentences(t) \in Seq(SentenceSet)
         /\ Spoken(SplitSentences(t)) = WordsOf(t) /\ Fit(SplitSentences(t), MaxChars)
<1> DEFINE cut == CutAfter(t, SentenceEnds(t))
           ss == Each(cut, Fitting)
<1>1. SentenceEnds(t) \subseteq 1..Len(t)
  <2>1. DOMAIN t = 1..Len(t)
    BY LenProperties DEF Texts
  <2> QED BY <2>1 DEF SentenceEnds
<1>2. cut \in Seq(Texts) /\ WordsIn(cut) = WordsOf(t) /\ \A k \in 1..Len(cut) : cut[k] # <<>>
  BY <1>1, CutAfterKeepsWords
<1>3. SplitSentences(t) = FlattenSeq(ss)
  BY DEF SplitSentences
<1> HIDE DEF cut
<1>4. /\ Len(cut) \in Nat /\ DOMAIN cut = 1..Len(cut)
      /\ \A k \in 1..Len(cut) : cut[k] \in Texts /\ cut[k] # <<>>
  BY <1>2, LenProperties, ElementOfSeq
<1>5. ss = [k \in 1..Len(cut) |-> Fitting(cut[k])]
  BY <1>4 DEF Each
<1> HIDE DEF ss
<1>6. \A k \in 1..Len(cut) :
        ss[k] \in Seq(SentenceSet) /\ Spoken(ss[k]) = WordsOf(cut[k]) /\ Fit(ss[k], MaxChars)
  BY <1>4, <1>5, FittingKeepsWords
<1>7. ss \in Seq(Seq(SentenceSet)) /\ Len(ss) = Len(cut)
  <2>1. ss \in [1..Len(cut) -> Seq(SentenceSet)]
    BY <1>5, <1>6
  <2> QED BY <1>4, <2>1
<1>8. MaxChars \in Nat
  BY LimitsAssumption
<1> QED BY <1>2, <1>3, <1>6, <1>7, <1>8, SpokenInTurn

\* Sentences that are merged into pieces.
MergeStates == [out : Seq(SentenceSet), buf : Texts, n : Nat, hard : BOOLEAN]

\* What the pieces say, and that they fit.
MergeWords(a) == Spoken(a.out) \o WordsOf(a.buf)
MergeFits(a) == Fit(a.out, MaxChars + 1) /\ Len(a.buf) <= MaxChars + 1

\* The sentences in the buffer become the last piece.
LEMMA FlushMergedKeepsWords ==
  ASSUME NEW a \in MergeStates
  PROVE  /\ FlushMerged(a) \in Seq(SentenceSet) /\ Spoken(FlushMerged(a)) = MergeWords(a)
         /\ MergeFits(a) => Fit(FlushMerged(a), MaxChars + 1)
<1>1. a.out \in Seq(SentenceSet) /\ a.buf \in Texts /\ a.hard \in BOOLEAN
  BY DEF MergeStates
<1>2. MaxChars + 1 \in Nat
  BY LimitsAssumption
<1>3. CASE a.buf = <<>>
  <2>1. Spoken(a.out) \in Texts
    BY <1>1, <1>2, TextsInSentences
  <2>2. MergeWords(a) = Spoken(a.out)
    BY <1>3, <2>1, WordsOfText, TextsConcat DEF MergeWords
  <2> QED BY <1>1, <1>3, <2>2 DEF FlushMerged, MergeFits
<1>4. CASE a.buf # <<>>
  <2>1. FlushMerged(a) = Append(a.out, Sentence(a.buf, a.hard))
    BY <1>4 DEF FlushMerged
  <2> DEFINE s == a.out
             x == a.buf
             h == a.hard
             m == MaxChars + 1
  <2> HIDE DEF s, x, h, m
  <2>2. s \in Seq(SentenceSet) /\ x \in Texts /\ h \in BOOLEAN /\ m \in Nat
    BY <1>1, <1>2 DEF s, x, h, m
  <2>3. /\ Append(s, Sentence(x, h)) \in Seq(SentenceSet)
        /\ Spoken(Append(s, Sentence(x, h))) = Spoken(s) \o WordsOf(x)
        /\ Fit(s, m) /\ Len(x) <= m => Fit(Append(s, Sentence(x, h)), m)
    BY <2>2, OneSentence
  <2> QED BY <2>1, <2>3 DEF MergeWords, MergeFits, s, x, h, m
<1> QED BY <1>3, <1>4

\* A sentence that is merged, or starts a new piece, is told after what was merged before; a piece
\* exceeds the limit by the blank that joins two sentences at most.
LEMMA AddSentenceKeepsWords ==
  ASSUME NEW a \in MergeStates, MergeFits(a), NEW s \in SentenceSet, Len(s.text) <= MaxChars
  PROVE  LET b == AddSentence(a, s)
         IN  b \in MergeStates /\ MergeFits(b) /\ MergeWords(b) = MergeWords(a) \o WordsOf(s.text)
<1> DEFINE b == AddSentence(a, s)
           part == s.text
<1>1. /\ a.out \in Seq(SentenceSet) /\ a.buf \in Texts /\ Fit(a.out, MaxChars + 1)
      /\ a.n \in Nat /\ a.hard \in BOOLEAN /\ part \in Texts /\ s.hard \in BOOLEAN
      /\ Len(part) <= MaxChars
  BY DEF MergeStates, MergeFits, SentenceSet
<1>2. MaxChars \in Nat
  BY LimitsAssumption
<1>3. Len(a.buf) \in Nat /\ Len(part) \in Nat
  BY <1>1, TextLengths
<1>4. WordsOf(a.buf) \in Texts /\ WordsOf(part) \in Texts /\ Spoken(a.out) \in Texts
  BY <1>1, <1>2, WordsOfText, TextsInSentences
<1>5. CASE a.n >= MergeMax \/ Len(a.buf) + Len(part) > MaxChars
  <2>1. b = [out |-> FlushMerged(a), buf |-> part, n |-> 1, hard |-> s.hard]
    BY <1>5 DEF AddSentence
  <2> HIDE DEF b, part
  <2>2. b.out = FlushMerged(a) /\ b.buf = part
    BY <2>1
  <2>3. b \in MergeStates
    BY <1>1, <2>1, FlushMergedKeepsWords DEF MergeStates
  <2>4. MergeFits(b)
    BY <1>1, <1>2, <1>3, <2>2, FlushMergedKeepsWords DEF MergeFits
  <2>5. MergeWords(b) = MergeWords(a) \o WordsOf(part)
    BY <2>2, FlushMergedKeepsWords DEF MergeWords
  <2> QED BY <2>3, <2>4, <2>5 DEF b, part
<1>6. CASE ~(a.n >= MergeMax \/ Len(a.buf) + Len(part) > MaxChars)
  <2> DEFINE buf == IF a.buf = <<>> THEN part ELSE a.buf \o PutIn("blank") \o part
  <2>1. b = [out |-> a.out, buf |-> buf, n |-> a.n + 1, hard |-> a.hard \/ s.hard]
    BY <1>6 DEF AddSentence
  <2> HIDE DEF part
  <2>2. buf \in Texts /\ Len(buf) <= MaxChars + 1 /\ WordsOf(buf) = WordsOf(a.buf) \o WordsOf(part)
    <3>1. CASE a.buf = <<>>
      <4>1. WordsOf(a.buf) = <<>> /\ buf = part
        BY <3>1, WordsOfText
      <4>2. <<>> \o WordsOf(part) = WordsOf(part)
        BY <1>4, TextsConcat
      <4>3. Len(part) <= MaxChars + 1
        BY <1>1, <1>2, <1>3
      <4> HIDE DEF buf
      <4> QED BY <1>1, <4>1, <4>2, <4>3
    <3>2. CASE a.buf # <<>>
      <4>1. buf = a.buf \o PutIn("blank") \o part
        BY <3>2
      <4> DEFINE x == a.buf
      <4> HIDE DEF buf, x
      <4>2. buf = x \o PutIn("blank") \o part /\ x \in Texts /\ "blank" \in Roles
        BY <1>1, <4>1 DEF x, Roles
      <4>3. buf \in Texts /\ WordsOf(buf) = WordsOf(x) \o WordsOf(part)
            /\ Len(buf) = Len(x) + Len(part) + 1
        BY <1>1, <4>2, JoinedText
      <4>4. Len(x) + Len(part) <= MaxChars
        BY <1>2, <1>3, <1>6 DEF x
      <4>5. Len(x) \in Nat
        BY <1>3 DEF x
      <4> QED BY <1>2, <1>3, <4>3, <4>4, <4>5 DEF x
    <3> QED BY <3>1, <3>2
  <2> HIDE DEF buf, b
  <2>3. b.out = a.out /\ b.buf = buf
    BY <2>1
  <2>4. b \in MergeStates
    <3>1. a.n + 1 \in Nat /\ (a.hard \/ s.hard) \in BOOLEAN
      BY <1>1
    <3> QED BY <1>1, <2>1, <2>2, <3>1 DEF MergeStates
  <2>5. MergeFits(b)
    BY <1>1, <2>2, <2>3 DEF MergeFits
  <2>6. MergeWords(b) = MergeWords(a) \o WordsOf(part)
    <3> DEFINE x == Spoken(a.out)
               y == WordsOf(a.buf)
               z == WordsOf(part)
    <3>1. MergeWords(b) = x \o (y \o z) /\ MergeWords(a) = x \o y
      BY <2>2, <2>3 DEF MergeWords
    <3>2. x \in Texts /\ y \in Texts /\ z \in Texts
      BY <1>4
    <3> HIDE DEF x, y, z
    <3>3. MergeWords(b) = (x \o y) \o z
      BY <3>1, <3>2, TextsConcat
    <3> QED BY <3>1, <3>3 DEF z
  <2> QED BY <2>4, <2>5, <2>6 DEF b, part
<1> QED BY <1>5, <1>6

\* _merge_sentences keeps the words and makes pieces that exceed the limit by one at most.
LEMMA MergeSentencesKeepsWords ==
  ASSUME NEW ss \in Seq(SentenceSet), Fit(ss, MaxChars)
  PROVE  /\ MergeSentences(ss) \in Seq(SentenceSet)
         /\ Spoken(MergeSentences(ss)) = Spoken(ss)
         /\ Fit(MergeSentences(ss), MaxChars + 1)
<1> DEFINE N == Len(ss)
           parts == TextsIn(ss)
           A == {a \in MergeStates : MergeFits(a)}
           step == [x \in A \X (1..N) |-> AddSentence(x[1], ss[x[2]])]
           Solves(f) == f = [k \in 0..N |-> IF k = 0 THEN NothingMerged
                                            ELSE AddSentence(f[k - 1], ss[k])]
<1>1. N \in Nat /\ \A k \in 1..N : ss[k] \in SentenceSet /\ Len(ss[k].text) <= MaxChars
  BY LenProperties, ElementOfSeq DEF Fit
<1>2. parts \in Seq(Texts) /\ Len(parts) = N /\ \A k \in 1..N : parts[k] = ss[k].text
  <2>1. 0 \in Nat /\ DOMAIN ss = 1..N
    BY LenProperties
  <2> QED BY <2>1, TextsInSentences DEF TextsIn
<1>3. \A a \in A, k \in 1..N :
        /\ AddSentence(a, ss[k]) \in A
        /\ MergeWords(AddSentence(a, ss[k])) = MergeWords(a) \o WordsOf(parts[k])
  <2> HIDE DEF parts
  <2> QED BY <1>1, <1>2, AddSentenceKeepsWords
<1>4. NothingMerged \in A /\ MergeWords(NothingMerged) = <<>>
  <2>1. /\ NothingMerged.out = <<>>
        /\ NothingMerged.buf = <<>>
        /\ Len(<<>>) = 0
        /\ MaxChars + 1 \in Nat
    BY LimitsAssumption DEF NothingMerged
  <2>2. NothingMerged \in MergeStates
    BY NoSentence, TextsConcat DEF MergeStates, NothingMerged
  <2>3. MergeFits(NothingMerged)
    BY <2>1, NoSentence DEF MergeFits
  <2>4. MergeWords(NothingMerged) = <<>>
    BY <2>1, NoSentence, WordsOfText, TextsConcat DEF MergeWords
  <2> QED BY <2>2, <2>3, <2>4
<1> HIDE DEF A, N, parts
<1>5. step \in Steps(A, N)
  BY <1>3 DEF Steps
<1>6. PICK f : Iterates(f, N, A, NothingMerged, step)
  <2> HIDE DEF step
  <2> QED BY <1>1, <1>4, <1>5, Recursion
<1>7. Solves(f)
  <2>1. ASSUME NEW k \in 1..N PROVE f[k] = AddSentence(f[k - 1], ss[k])
    <3>1. k - 1 \in 0..N
      BY <1>1
    <3>2. <<f[k - 1], k>> \in A \X (1..N)
      BY <3>1, <1>6 DEF Iterates
    <3> QED BY <3>2, <1>6 DEF Iterates
  <2> QED BY <1>1, <1>6, <2>1 DEF Iterates
<1> DEFINE after == CHOOSE g : Solves(g)
<1>8. Solves(after)
  <2> HIDE DEF Solves
  <2> QED BY <1>7
<1>9. MergeSentences(ss) = FlushMerged(after[N])
  BY DEF MergeSentences, N
<1> HIDE DEF after
<1>10. after[0] = NothingMerged /\ \A k \in 1..N : after[k] = AddSentence(after[k - 1], ss[k])
  BY <1>1, <1>8
<1> DEFINE S == {k \in 0..N : after[k] \in A /\ MergeWords(after[k]) = WordsIn(SubSeq(parts, 1, k))}
<1>11. 0 \in S
  <2>1. SubSeq(parts, 1, 0) = <<>>
    OBVIOUS
  <2>2. MergeWords(after[0]) = WordsIn(SubSeq(parts, 1, 0)) /\ after[0] \in A
    BY <1>4, <1>10, <2>1, WordsInTexts
  <2> QED BY <1>1, <2>2
<1>12. ASSUME NEW k \in 1..N, k - 1 \in S PROVE k \in S
  <2> DEFINE was == SubSeq(parts, 1, k - 1)
             is == SubSeq(parts, 1, k)
  <2>1. is = Append(was, parts[k]) /\ was \in Seq(Texts) /\ parts[k] \in Texts
    BY <1>2, PrefixStep
  <2>2. after[k - 1] \in A /\ MergeWords(after[k - 1]) = WordsIn(was)
    BY <1>12
  <2>3. after[k] \in A /\ MergeWords(after[k]) = MergeWords(after[k - 1]) \o WordsOf(parts[k])
    BY <1>3, <1>10, <2>2
  <2> HIDE DEF was, is
  <2>4. WordsIn(is) = WordsIn(was) \o WordsOf(parts[k])
    BY <2>1, WordsInTexts
  <2>5. k \in 0..N
    BY <1>1
  <2> QED BY <2>2, <2>3, <2>4, <2>5 DEF is
<1> HIDE DEF S
<1>13. N \in S
  <2>1. 0..N \subseteq S
    BY <1>1, <1>11, <1>12, InductionUpTo
  <2> QED BY <1>1, <2>1
<1>14. SubSeq(parts, 1, N) = parts
  BY <1>2, SubSeqFull
<1>15. after[N] \in MergeStates /\ MergeFits(after[N]) /\ MergeWords(after[N]) = WordsIn(parts)
  BY <1>13, <1>14 DEF S, A
<1> QED BY <1>9, <1>15, FlushMergedKeepsWords DEF Spoken, parts

\* The pieces a text is cut into have its words, are not empty and exceed the limit by one
\* character at most.
LEMMA TextPiecesKeepWords ==
  ASSUME NEW t \in Texts
  PROVE  /\ TextPieces(t) \in Seq(Texts) /\ WordsIn(TextPieces(t)) = WordsOf(t)
         /\ \A k \in 1..Len(TextPieces(t)) :
              TextPieces(t)[k] # <<>> /\ Len(TextPieces(t)[k]) <= MaxChars + 1
<1> DEFINE m == MergeSentences(SplitSentences(t))
           p == Each(m, StrippedText)
           q == TextsIn(m)
<1>1. m \in Seq(SentenceSet) /\ Spoken(m) = WordsOf(t) /\ Fit(m, MaxChars + 1)
  BY SplitSentencesKeepsWords, MergeSentencesKeepsWords
<1>2. TextPieces(t) = Filled(p)
  BY DEF TextPieces
<1> HIDE DEF m
<1>3. /\ Len(m) \in Nat /\ DOMAIN m = 1..Len(m)
      /\ \A k \in 1..Len(m) : m[k].text \in Texts /\ Len(m[k].text) <= MaxChars + 1
  <2>1. Len(m) \in Nat /\ DOMAIN m = 1..Len(m) /\ \A k \in 1..Len(m) : m[k] \in SentenceSet
    BY <1>1, LenProperties, ElementOfSeq
  <2>2. \A k \in 1..Len(m) : m[k].text \in Texts
    BY <2>1 DEF SentenceSet
  <2>3. \A k \in 1..Len(m) : Len(m[k].text) <= MaxChars + 1
    BY <1>1 DEF Fit
  <2> QED BY <2>1, <2>2, <2>3
<1>4. p = [k \in 1..Len(m) |-> Strip(m[k].text)]
  BY <1>3 DEF Each, StrippedText
<1>5. q \in Seq(Texts) /\ Len(q) = Len(m) /\ \A k \in 1..Len(m) : q[k] = m[k].text
  <2>1. 0 \in Nat
    OBVIOUS
  <2> QED BY <1>1, <1>3, <2>1, TextsInSentences DEF TextsIn
<1> HIDE DEF p, q
<1>6. \A k \in 1..Len(m) : /\ p[k] \in Texts /\ WordsOf(p[k]) = WordsOf(q[k])
                           /\ Len(p[k]) <= MaxChars + 1
  <2> TAKE k \in 1..Len(m)
  <2> DEFINE x == m[k].text
  <2>1. x \in Texts /\ Len(x) <= MaxChars + 1 /\ p[k] = Strip(x) /\ q[k] = x
    BY <1>3, <1>4, <1>5
  <2> HIDE DEF x
  <2>2. Strip(x) \in Texts /\ WordsOf(Strip(x)) = WordsOf(x) /\ Len(Strip(x)) <= Len(x)
    BY <2>1, StripKeepsWords
  <2>3. Len(x) \in Nat /\ Len(Strip(x)) \in Nat /\ MaxChars \in Nat
    BY <2>1, <2>2, TextLengths, LimitsAssumption
  <2> QED BY <2>1, <2>2, <2>3
<1>7. p \in Seq(Texts) /\ Len(p) = Len(m)
  <2>1. p \in [1..Len(m) -> Texts]
    BY <1>4, <1>6
  <2> QED BY <1>3, <2>1
<1>8. WordsIn(p) = WordsIn(q)
  BY <1>5, <1>6, <1>7, SameWordsIn
<1>9. WordsIn(q) = WordsOf(t)
  BY <1>1 DEF Spoken, q
<1>10. /\ Filled(p) \in Seq(Texts) /\ WordsIn(Filled(p)) = WordsIn(p)
       /\ \A k \in 1..Len(Filled(p)) : /\ Filled(p)[k] # <<>>
                                       /\ \E j \in 1..Len(p) : Filled(p)[k] = p[j]
  BY <1>7, FilledKeepsWords
<1>11. \A k \in 1..Len(Filled(p)) : Len(Filled(p)[k]) <= MaxChars + 1
  BY <1>6, <1>7, <1>10
<1> QED BY <1>2, <1>8, <1>9, <1>10, <1>11

-----------------------------------------------------------------------------
(* Members of sequences *)

\* No member twice.
Distinct(s) == \A i, j \in DOMAIN s : i # j => s[i] # s[j]

\* Members of two sequences one after the other; they are distinct when both have other members.
LEMMA ConcatMembers ==
  ASSUME NEW S, NEW s \in Seq(S), NEW t \in Seq(S)
  PROVE  /\ ToSet(s \o t) = ToSet(s) \cup ToSet(t)
         /\ Distinct(s) /\ Distinct(t) /\ ToSet(s) \cap ToSet(t) = {} => Distinct(s \o t)
<1> DEFINE u == s \o t
           m == Len(s)
           n == Len(t)
<1>1. /\ m \in Nat /\ n \in Nat /\ DOMAIN s = 1..m /\ DOMAIN t = 1..n
      /\ u \in Seq(S) /\ Len(u) = m + n
      /\ \A i \in 1..(m + n) : u[i] = IF i <= m THEN s[i] ELSE t[i - m]
  BY LenProperties, ConcatProperties
<1>2. DOMAIN u = 1..(m + n)
  <2> HIDE DEF u
  <2> QED BY <1>1, LenProperties
<1> HIDE DEF u, m, n
<1>3. \A i \in 1..m : i \in 1..(m + n) /\ u[i] = s[i]
  BY <1>1
<1>4. \A i \in 1..n : m + i \in 1..(m + n) /\ u[m + i] = t[i]
  <2> TAKE i \in 1..n
  <2>1. m + i \in 1..(m + n) /\ ~(m + i <= m) /\ (m + i) - m = i
    BY <1>1
  <2> QED BY <1>1, <2>1
<1>5. \A i \in 1..(m + n) : \/ i \in 1..m /\ u[i] = s[i]
                            \/ i - m \in 1..n /\ u[i] = t[i - m] /\ m + (i - m) = i
  BY <1>1
<1>6. ToSet(u) = ToSet(s) \cup ToSet(t)
  <2>1. ToSet(u) \subseteq ToSet(s) \cup ToSet(t)
    <3> SUFFICES ASSUME NEW i \in 1..(m + n) PROVE u[i] \in ToSet(s) \cup ToSet(t)
      BY <1>2 DEF ToSet
    <3>1. \A x \in 1..m : s[x] \in ToSet(s)
      BY <1>1 DEF ToSet
    <3>2. \A y \in 1..n : t[y] \in ToSet(t)
      BY <1>1 DEF ToSet
    <3> QED BY <1>5, <3>1, <3>2
  <2>2. ToSet(s) \subseteq ToSet(u)
    BY <1>1, <1>2, <1>3 DEF ToSet
  <2>3. ToSet(t) \subseteq ToSet(u)
    <3> SUFFICES ASSUME NEW i \in 1..n PROVE t[i] \in ToSet(u)
      BY <1>1 DEF ToSet
    <3>1. \A x \in 1..(m + n) : u[x] \in ToSet(u)
      BY <1>2 DEF ToSet
    <3> QED BY <1>4, <3>1
  <2> QED BY <2>1, <2>2, <2>3
<1>7. ASSUME Distinct(s), Distinct(t), ToSet(s) \cap ToSet(t) = {} PROVE Distinct(u)
  <2> SUFFICES ASSUME NEW i \in 1..(m + n), NEW j \in 1..(m + n), i # j PROVE u[i] # u[j]
    BY <1>2 DEF Distinct
  <2>1. \A x \in 1..m, y \in 1..n : s[x] # t[y]
    BY <1>1, <1>7 DEF ToSet
  <2>2. \A x, y \in 1..m : x # y => s[x] # s[y]
    BY <1>1, <1>7 DEF Distinct
  <2>3. \A x, y \in 1..n : x # y => t[x] # t[y]
    BY <1>1, <1>7 DEF Distinct
  <2>4. i - m = j - m => i = j
    BY <1>1
  <2> QED BY <1>5, <2>1, <2>2, <2>3, <2>4
<1> QED BY <1>6, <1>7 DEF u

\* Members of nothing and of one element.
LEMMA FewMembers ==
  ASSUME NEW c
  PROVE  /\ ToSet(<<>>) = {} /\ Distinct(<<>>)
         /\ ToSet(<<c>>) = {c} /\ Distinct(<<c>>)
<1>1. DOMAIN <<>> = {} /\ DOMAIN <<c>> = {1} /\ <<c>>[1] = c
  OBVIOUS
<1> QED BY <1>1 DEF ToSet, Distinct

\* Members of several sequences one after the other.
LEMMA FlattenMembers ==
  ASSUME NEW S, NEW ss \in Seq(Seq(S))
  PROVE  /\ ToSet(FlattenSeq(ss)) = UNION {ToSet(ss[k]) : k \in 1..Len(ss)}
         /\ (/\ \A k \in 1..Len(ss) : Distinct(ss[k])
             /\ \A j, k \in 1..Len(ss) : j < k => ToSet(ss[j]) \cap ToSet(ss[k]) = {})
            => Distinct(FlattenSeq(ss))
<1> DEFINE N == Len(ss)
           first(k) == FlattenSeq(SubSeq(ss, 1, k))
           Apart == /\ \A k \in 1..N : Distinct(ss[k])
                    /\ \A j, k \in 1..N : j < k => ToSet(ss[j]) \cap ToSet(ss[k]) = {}
           Good(k) == /\ ToSet(first(k)) = UNION {ToSet(ss[j]) : j \in 1..k}
                      /\ Apart => Distinct(first(k))
           T == {k \in 0..N : Good(k)}
<1>1. N \in Nat
  BY LenProperties
<1>2. 0 \in T
  <2>1. SubSeq(ss, 1, 0) = <<>>
    OBVIOUS
  <2>2. first(0) = <<>>
    BY <2>1, FlattenNothing
  <2>3. {ToSet(ss[j]) : j \in 1..0} = {}
    OBVIOUS
  <2> HIDE DEF first
  <2>4. Good(0)
    <3>1. ToSet(first(0)) = {} /\ Distinct(first(0))
      BY <2>2, FewMembers
    <3> QED BY <2>3, <3>1
  <2> HIDE DEF Good
  <2> QED BY <1>1, <2>4
<1>3. ASSUME NEW k \in 1..N, k - 1 \in T PROVE k \in T
  <2> DEFINE a == first(k - 1)
             b == ss[k]
  <2>1. /\ SubSeq(ss, 1, k) = Append(SubSeq(ss, 1, k - 1), ss[k])
        /\ SubSeq(ss, 1, k - 1) \in Seq(Seq(S)) /\ b \in Seq(S)
    BY PrefixStep
  <2>2. a \in Seq(S) /\ first(k) = a \o b
    BY <2>1, FlattenProperties
  <2>3. Good(k - 1)
    BY <1>3
  <2> HIDE DEF first, a, b
  <2>4. /\ ToSet(a \o b) = ToSet(a) \cup ToSet(b)
        /\ Distinct(a) /\ Distinct(b) /\ ToSet(a) \cap ToSet(b) = {} => Distinct(a \o b)
    BY <2>1, <2>2, ConcatMembers
  <2>5. /\ ToSet(a) = UNION {ToSet(ss[j]) : j \in 1..(k - 1)}
        /\ Apart => Distinct(a)
    BY <2>3 DEF a
  <2>6. 1..k = 1..(k - 1) \cup {k} /\ \A j \in 1..(k - 1) : j \in 1..N /\ j < k
    BY <1>1
  <2>7. ToSet(first(k)) = UNION {ToSet(ss[j]) : j \in 1..k}
    <3>1. UNION {ToSet(ss[j]) : j \in 1..k}
            = (UNION {ToSet(ss[j]) : j \in 1..(k - 1)}) \cup ToSet(ss[k])
      BY <2>6
    <3> QED BY <2>2, <2>4, <2>5, <3>1 DEF b
  <2>8. ASSUME Apart PROVE Distinct(first(k))
    <3>1. Distinct(b)
      BY <2>8 DEF b
    <3>2. \A j \in 1..(k - 1) : ToSet(ss[j]) \cap ToSet(ss[k]) = {}
      BY <2>6, <2>8
    <3>3. ToSet(a) \cap ToSet(b) = {}
      BY <2>5, <3>2 DEF b
    <3> QED BY <2>2, <2>4, <2>5, <2>8, <3>1, <3>3
  <2>9. k \in 0..N
    BY <1>1
  <2> QED BY <2>7, <2>8, <2>9
<1> HIDE DEF T
<1>4. N \in T
  <2>1. 0..N \subseteq T
    BY <1>1, <1>2, <1>3, InductionUpTo
  <2> QED BY <1>1, <2>1
<1>5. SubSeq(ss, 1, N) = ss
  BY SubSeqFull
<1>6. Good(N)
  BY <1>4 DEF T
<1> QED BY <1>5, <1>6

\* The members of a sequence that pass a test: they are members of it, and distinct ones stay
\* distinct.
LEMMA FirstUsesAppend ==
  ASSUME NEW t \in Texts, NEW c \in Characters
  PROVE  FirstUses(Append(t, c)) = IF c \in ToSet(t) THEN FirstUses(t) ELSE Append(FirstUses(t), c)
<1> DEFINE u == Append(t, c)
           N == Len(t)
           New(s, i) == IF \A j \in 1..(i - 1) : s[j] # s[i] THEN <<s[i]>> ELSE <<>>
           a == [i \in 1..N |-> New(t, i)]
           b == [i \in 1..(N + 1) |-> New(u, i)]
           last == New(u, N + 1)
<1>1. /\ N \in Nat /\ DOMAIN t = 1..N /\ \A i \in 1..N : t[i] \in Characters
      /\ u \in Seq(Characters) /\ Len(u) = N + 1 /\ u[N + 1] = c /\ \A i \in 1..N : u[i] = t[i]
  BY LenProperties, ElementOfSeq, AppendProperties DEF Texts
<1> HIDE DEF u, N
<1>2. DOMAIN u = 1..(N + 1) /\ \A i \in 1..(N + 1) : u[i] \in Characters
  BY <1>1, LenProperties, ElementOfSeq
<1>3. FirstUses(t) = FlattenSeq(a) /\ FirstUses(u) = FlattenSeq(b)
  BY <1>1, <1>2 DEF FirstUses
<1>4. \A i \in 1..N : New(t, i) = New(u, i) /\ New(t, i) \in Seq(Characters)
  <2> TAKE i \in 1..N
  <2>1. \A j \in 1..(i - 1) : u[j] = t[j]
    BY <1>1
  <2> QED BY <1>1, <2>1
<1>5. last \in Seq(Characters)
  <2>1. N + 1 \in 1..(N + 1)
    BY <1>1
  <2> QED BY <1>2, <2>1
<1>6. a \in Seq(Seq(Characters)) /\ Len(a) = N
  <2>1. a \in [1..N -> Seq(Characters)]
    <3> HIDE DEF New
    <3> QED BY <1>4
  <2> HIDE DEF a
  <2> QED BY <1>1, <2>1
<1>7. b = Append(a, last)
  <2> DEFINE d == Append(a, last)
  <2>1. \A i \in 1..(N + 1) : b[i] \in Seq(Characters)
    <3> TAKE i \in 1..(N + 1)
    <3>1. i \in 1..N \/ i = N + 1
      BY <1>1
    <3>2. b[i] = New(u, i)
      OBVIOUS
    <3> HIDE DEF b, New
    <3> QED BY <1>4, <1>5, <3>1, <3>2
  <2>2. b \in Seq(Seq(Characters)) /\ Len(b) = N + 1
    <3>1. b = [i \in 1..(N + 1) |-> b[i]]
      OBVIOUS
    <3> HIDE DEF b
    <3>2. b \in [1..(N + 1) -> Seq(Characters)] /\ N + 1 \in Nat
      BY <1>1, <2>1, <3>1
    <3> QED BY <3>2
  <2>3. /\ d \in Seq(Seq(Characters)) /\ Len(d) = N + 1 /\ d[N + 1] = last
        /\ \A i \in 1..N : d[i] = a[i]
    <3> HIDE DEF a, last
    <3> QED BY <1>5, <1>6, AppendProperties
  <2>4. ASSUME NEW i \in 1..(N + 1) PROVE b[i] = d[i]
    <3>1. b[i] = New(u, i)
      OBVIOUS
    <3>2. CASE i = N + 1
      <4> HIDE DEF d, b, New
      <4> QED BY <2>3, <3>1, <3>2
    <3>3. CASE i # N + 1
      <4>1. i \in 1..N
        BY <1>1, <3>3
      <4>2. a[i] = New(t, i)
        BY <4>1
      <4> HIDE DEF d, b, a, New
      <4> QED BY <1>4, <2>3, <3>1, <4>1, <4>2
    <3> QED BY <3>2, <3>3
  <2> HIDE DEF b, d
  <2>5. b = d
    BY <2>2, <2>3, <2>4, SeqEqual
  <2> QED BY <2>5 DEF d
<1>8. FlattenSeq(b) = FlattenSeq(a) \o last /\ FlattenSeq(a) \in Seq(Characters)
  <2> HIDE DEF a, b, last
  <2> QED BY <1>5, <1>6, <1>7, FlattenProperties
<1>9. last = IF c \in ToSet(t) THEN <<>> ELSE <<c>>
  <2>1. (N + 1) - 1 = N
    BY <1>1
  <2>2. (\A j \in 1..N : u[j] # c) <=> c \notin ToSet(t)
    BY <1>1 DEF ToSet
  <2> QED BY <1>1, <2>1, <2>2
<1> HIDE DEF a, b, last
<1>10. CASE c \in ToSet(t)
  BY <1>3, <1>8, <1>9, <1>10, ConcatEmptySeq DEF u
<1>11. CASE c \notin ToSet(t)
  BY <1>3, <1>8, <1>9, <1>11, AppendIsConcat DEF u
<1> QED BY <1>10, <1>11

\* Of nothing nothing is used.
LEMMA FirstUsesNothing == FirstUses(<<>>) = <<>>
<1>1. FirstUses(<<>>) = FlattenSeq(<<>>)
  BY DEF FirstUses
<1> QED BY <1>1, FlattenNothing

\* Characters that were there already add nothing; new ones are all added.
LEMMA FirstUsesConcat ==
  ASSUME NEW t \in Texts, NEW s \in Texts
  PROVE  /\ ToSet(s) \subseteq ToSet(t) => FirstUses(t \o s) = FirstUses(t)
         /\ Distinct(s) /\ ToSet(s) \cap ToSet(t) = {} => FirstUses(t \o s) = FirstUses(t) \o s
         /\ FirstUses(t) \in Texts
<1> DEFINE N == Len(s)
           first(k) == SubSeq(s, 1, k)
           Seen == ToSet(s) \subseteq ToSet(t)
           New == Distinct(s) /\ ToSet(s) \cap ToSet(t) = {}
           Good(k) == /\ Seen => FirstUses(t \o first(k)) = FirstUses(t)
                      /\ New => FirstUses(t \o first(k)) = FirstUses(t) \o first(k)
           T == {k \in 0..N : Good(k)}
<1>1. N \in Nat /\ DOMAIN s = 1..N /\ \A i \in 1..N : s[i] \in Characters /\ s[i] \in ToSet(s)
  <2>1. N \in Nat /\ DOMAIN s = 1..N /\ \A i \in 1..N : s[i] \in Characters
    BY LenProperties, ElementOfSeq DEF Texts
  <2> QED BY <2>1 DEF ToSet
<1>2. FirstUses(t) \in Texts
  <2> DEFINE p == [i \in DOMAIN t |-> IF \A j \in 1..(i - 1) : t[j] # t[i] THEN <<t[i]>> ELSE <<>>]
  <2>1. Len(t) \in Nat /\ DOMAIN t = 1..Len(t) /\ \A i \in 1..Len(t) : t[i] \in Characters
    BY LenProperties, ElementOfSeq DEF Texts
  <2>2. p \in Seq(Seq(Characters))
    <3>1. \A i \in 1..Len(t) : p[i] \in Seq(Characters)
      BY <2>1
    <3>2. p = [i \in 1..Len(t) |-> p[i]]
      BY <2>1
    <3> HIDE DEF p
    <3>3. p \in [1..Len(t) -> Seq(Characters)]
      BY <3>1, <3>2
    <3> QED BY <2>1, <3>3
  <2>3. FirstUses(t) = FlattenSeq(p)
    BY DEF FirstUses
  <2> HIDE DEF p
  <2>4. <<>> \in Seq(Characters)
    OBVIOUS
  <2> QED BY <2>2, <2>3, <2>4, FlattenProperties DEF Texts
<1>3. 0 \in T
  <2>1. first(0) = <<>>
    OBVIOUS
  <2>2. t \o <<>> = t /\ FirstUses(t) \o <<>> = FirstUses(t)
    BY <1>2, TextsConcat
  <2> HIDE DEF first
  <2>3. Good(0)
    BY <2>1, <2>2
  <2> QED BY <1>1, <2>3
<1>4. ASSUME NEW k \in 1..N, k - 1 \in T PROVE k \in T
  <2> DEFINE a == first(k - 1)
             c == s[k]
             u == t \o a
  <2>1. first(k) = Append(a, c) /\ a \in Texts /\ c \in Characters /\ Len(a) = k - 1
    BY PrefixStep DEF Texts
  <2>2. \A i \in 1..(k - 1) : a[i] = s[i]
    BY <1>1 
  <2>3. ToSet(a) = {s[i] : i \in 1..(k - 1)}
    <3>1. DOMAIN a = 1..(k - 1)
      <4> HIDE DEF a
      <4> QED BY <2>1, LenProperties DEF Texts
    <3> HIDE DEF a
    <3> QED BY <2>2, <3>1 DEF ToSet
  <2>4. Good(k - 1)
    BY <1>4
  <2> HIDE DEF a, c, first
  <2>5. t \o first(k) = Append(u, c) /\ u \in Texts
    BY <2>1, ConcatAppend, TextsConcat DEF Texts
  <2>6. ToSet(u) = ToSet(t) \cup ToSet(a)
    BY <2>1, ConcatMembers DEF Texts
  <2>7. FirstUses(Append(u, c)) = IF c \in ToSet(u) THEN FirstUses(u) ELSE Append(FirstUses(u), c)
    BY <2>1, <2>5, FirstUsesAppend
  <2>8. ASSUME Seen PROVE FirstUses(t \o first(k)) = FirstUses(t)
    <3>1. c \in ToSet(u)
      BY <1>1, <2>6, <2>8 DEF c
    <3>2. FirstUses(u) = FirstUses(t)
      BY <2>4, <2>8 DEF a
    <3> QED BY <2>5, <2>7, <3>1, <3>2
  <2>9. ASSUME New PROVE FirstUses(t \o first(k)) = FirstUses(t) \o first(k)
    <3>1. c \notin ToSet(t)
      BY <1>1, <2>9 DEF c
    <3>2. c \notin ToSet(a)
      <4>1. \A i \in 1..(k - 1) : i \in DOMAIN s /\ i # k /\ k \in DOMAIN s
        BY <1>1
      <4>2. \A i \in 1..(k - 1) : s[i] # s[k]
        BY <2>9, <4>1 DEF Distinct
      <4> QED BY <2>3, <4>2 DEF c
    <3>3. FirstUses(u) = FirstUses(t) \o a
      BY <2>4, <2>9 DEF a
    <3>4. FirstUses(t \o first(k)) = Append(FirstUses(t) \o a, c)
      BY <2>5, <2>6, <2>7, <3>1, <3>2, <3>3
    <3> DEFINE f == FirstUses(t)
    <3> HIDE DEF f
    <3>5. Append(f \o a, c) = f \o Append(a, c)
      <4>1. f \in Seq(Characters) /\ a \in Seq(Characters) /\ c \in Characters
        BY <1>2, <2>1 DEF f, Texts
      <4>2. f \o Append(a, c) = Append(f \o a, c)
        BY <4>1, ConcatAppend
      <4> QED BY <4>2
    <3> QED BY <2>1, <3>4, <3>5 DEF f
  <2>10. k \in 0..N
    BY <1>1
  <2> QED BY <2>8, <2>9, <2>10
<1> HIDE DEF T
<1>5. N \in T
  <2>1. 0..N \subseteq T
    BY <1>1, <1>3, <1>4, InductionUpTo
  <2> QED BY <1>1, <2>1
<1>6. first(N) = s
  BY SubSeqFull DEF Texts
<1>7. Good(N)
  BY <1>5 DEF T
<1> QED BY <1>2, <1>6, <1>7

-----------------------------------------------------------------------------
(* Lines *)

\* A line break is a text without words.
LEMMA NewlineText ==
  /\ PutIn("newline") \in Texts /\ Len(PutIn("newline")) = 1
  /\ WordsOf(PutIn("newline")) = <<>> /\ PutIn("newline")[1].role = "newline"
  /\ PutIn("newline")[1] \in Characters /\ ~IsWord(PutIn("newline")[1])
<1>1. "newline" \in Roles
  BY DEF Roles
<1>2. /\ PutIn("newline") \in Texts /\ Len(PutIn("newline")) = 1
      /\ WordsOf(PutIn("newline")) = <<>> /\ PutIn("newline")[1] = Char(<<>>, "newline")
  BY <1>1, PutInText
<1>3. Char(<<>>, "newline").role = "newline" /\ ~IsWord(Char(<<>>, "newline"))
  BY DEF Char, IsWord
<1>4. Char(<<>>, "newline") \in Characters
  BY DEF Char, Characters, AnyRole, Roles
<1> QED BY <1>2, <1>3, <1>4

\* Texts with a separator between them.
LEMMA SeparatedTexts ==
  ASSUME NEW texts \in Seq(Texts), NEW sep \in Texts, WordsOf(sep) = <<>>
  PROVE  /\ Separated(texts, sep) \in Texts
         /\ WordsOf(Separated(texts, sep)) = WordsIn(texts)
<1> DEFINE N == Len(texts)
           p == [i \in DOMAIN texts |-> IF i = 1 THEN texts[i] ELSE sep \o texts[i]]
<1>1. N \in Nat /\ DOMAIN texts = 1..N /\ \A i \in 1..N : texts[i] \in Texts
  BY LenProperties, ElementOfSeq
<1>2. Separated(texts, sep) = FlattenSeq(p)
  BY DEF Separated
<1> HIDE DEF N
<1>3. p = [i \in 1..N |-> IF i = 1 THEN texts[i] ELSE sep \o texts[i]]
  BY <1>1
<1>4. \A i \in 1..N : sep \o texts[i] \in Texts /\ WordsOf(sep \o texts[i]) = WordsOf(texts[i])
  <2> TAKE i \in 1..N
  <2> DEFINE x == texts[i]
  <2>1. x \in Texts
    BY <1>1
  <2> HIDE DEF x
  <2>2. WordsOf(sep \o x) = <<>> \o WordsOf(x) /\ WordsOf(x) \in Texts
    BY <2>1, WordsConcat, WordsOfText
  <2> QED BY <2>1, <2>2, TextsConcat DEF x
<1>5. \A i \in 1..N : p[i] \in Texts /\ WordsOf(p[i]) = WordsOf(texts[i])
  BY <1>1, <1>3, <1>4
<1>6. p \in Seq(Texts) /\ Len(p) = N
  <2>1. p = [i \in 1..N |-> p[i]]
    BY <1>3
  <2> HIDE DEF p
  <2>2. p \in [1..N -> Texts]
    BY <1>5, <2>1
  <2> QED BY <1>1, <2>2
<1> HIDE DEF p
<1>7. WordsIn(p) = WordsIn(texts)
  BY <1>5, <1>6, SameWordsIn DEF N
<1> QED BY <1>2, <1>6, <1>7, FlattenTexts, WordsInTexts

\* A text more comes after the separator, but for the first.
LEMMA SeparatedAppend ==
  ASSUME NEW texts \in Seq(Texts), NEW t \in Texts, NEW sep \in Texts
  PROVE  /\ texts # <<>> => Separated(Append(texts, t), sep) = Separated(texts, sep) \o (sep \o t)
         /\ Separated(<<t>>, sep) = t
         /\ Separated(<<>>, sep) = <<>>
<1>1. Separated(<<>>, sep) = <<>>
  <2>1. Separated(<<>>, sep) = FlattenSeq(<<>>)
    BY DEF Separated
  <2> QED BY <2>1, FlattenNothing
<1>2. Separated(<<t>>, sep) = t
  <2>1. [i \in DOMAIN <<t>> |-> IF i = 1 THEN <<t>>[i] ELSE sep \o <<t>>[i]] = <<t>>
    OBVIOUS
  <2>2. Separated(<<t>>, sep) = FlattenSeq(<<t>>)
    BY <2>1 DEF Separated
  <2> QED BY <2>2, FlattenOne DEF Texts
<1>3. ASSUME texts # <<>>
      PROVE  Separated(Append(texts, t), sep) = Separated(texts, sep) \o (sep \o t)
  <2> DEFINE N == Len(texts)
             u == Append(texts, t)
             p == [i \in 1..N |-> IF i = 1 THEN texts[i] ELSE sep \o texts[i]]
             q == [i \in 1..(N + 1) |-> IF i = 1 THEN u[i] ELSE sep \o u[i]]
             last == sep \o t
  <2>1. /\ N \in Nat \ {0} /\ DOMAIN texts = 1..N /\ \A i \in 1..N : texts[i] \in Texts
        /\ u \in Seq(Texts) /\ Len(u) = N + 1 /\ u[N + 1] = t /\ \A i \in 1..N : u[i] = texts[i]
    BY <1>3, EmptySeq, LenProperties, ElementOfSeq, AppendProperties
  <2> HIDE DEF N, u
  <2>2. DOMAIN u = 1..(N + 1)
    BY <2>1, LenProperties
  <2>3. Separated(texts, sep) = FlattenSeq(p) /\ Separated(u, sep) = FlattenSeq(q)
    BY <2>1, <2>2 DEF Separated
  <2>4. \A i \in 1..N : p[i] \in Texts /\ sep \o texts[i] \in Texts
    BY <2>1, TextsConcat
  <2>5. p \in Seq(Texts) /\ Len(p) = N
    <3>1. p \in [1..N -> Texts]
      BY <2>1, <2>4
    <3> HIDE DEF p
    <3> QED BY <2>1, <3>1
  <2>6. last \in Texts
    BY TextsConcat
  <2>7. q = Append(p, last)
    <3> DEFINE d == Append(p, last)
    <3>1. /\ d \in Seq(Texts) /\ Len(d) = N + 1 /\ d[N + 1] = last /\ \A i \in 1..N : d[i] = p[i]
      <4> HIDE DEF p, last
      <4> QED BY <2>5, <2>6, AppendProperties
    <3>2. \A i \in 1..(N + 1) : i \in 1..N \/ (i = N + 1 /\ i # 1)
      BY <2>1
    <3>3. \A i \in 1..N : i \in 1..(N + 1) /\ q[i] = p[i]
      BY <2>1
    <3>4. N + 1 \in 1..(N + 1) /\ q[N + 1] = last
      <4>1. N + 1 \in 1..(N + 1) /\ N + 1 # 1
        BY <2>1
      <4>2. q[N + 1] = sep \o u[N + 1]
        BY <4>1
      <4> QED BY <2>1, <4>1, <4>2
    <3> HIDE DEF last
    <3>5. \A i \in 1..(N + 1) : q[i] = d[i]
      <4> HIDE DEF p, q, d
      <4> QED BY <3>1, <3>2, <3>3, <3>4
    <3>6. q \in Seq(Texts) /\ Len(q) = N + 1
      <4>1. q = [i \in 1..(N + 1) |-> q[i]]
        OBVIOUS
      <4> HIDE DEF p, q, d
      <4>2. \A i \in 1..(N + 1) : q[i] \in Texts
        BY <2>4, <2>6, <3>2, <3>3, <3>4
      <4>3. q \in [1..(N + 1) -> Texts] /\ N + 1 \in Nat
        BY <2>1, <4>1, <4>2
      <4> QED BY <4>3
    <3> HIDE DEF q, d
    <3>7. q = d
      BY <3>1, <3>5, <3>6, SeqEqual
    <3> QED BY <3>7 DEF d
  <2> HIDE DEF p, q, last
  <2>8. FlattenSeq(q) = FlattenSeq(p) \o last
    BY <2>5, <2>6, <2>7, FlattenProperties DEF Texts
  <2> QED BY <2>3, <2>8 DEF u, last
<1> QED BY <1>1, <1>2, <1>3

\* A text in one line.
NewlineFree(t) == \A i \in 1..Len(t) : t[i].role # "newline"

\* The lines of a text: at least one, none with a line break, with the words of the text.
LEMMA LinesOfText ==
  ASSUME NEW t \in Texts
  PROVE  /\ Lines(t) \in Seq(Texts) /\ Len(Lines(t)) \in Nat \ {0}
         /\ \A k \in 1..Len(Lines(t)) : NewlineFree(Lines(t)[k])
         /\ WordsIn(Lines(t)) = WordsOf(t)
<1> DEFINE N == Len(t)
           nl == PutIn("newline")
           u == t \o nl
           ends == Places(t, "newline")
           e == Ascending(ends \cup {N + 1})
           L == Len(e)
           p == [k \in DOMAIN e |-> SubSeq(t, IF k = 1 THEN 1 ELSE e[k - 1] + 1, e[k] - 1)]
<1>1. N \in Nat /\ DOMAIN t = 1..N /\ \A i \in 1..N : t[i] \in Characters
  BY LenProperties, ElementOfSeq DEF Texts
<1>2. /\ u \in Texts /\ Len(u) = N + 1 /\ u[N + 1] = nl[1]
      /\ \A i \in 1..N : u[i] = t[i]
  <2>1. nl \in Seq(Characters) /\ Len(nl) = 1
    BY NewlineText DEF Texts
  <2> HIDE DEF nl
  <2>2. /\ u \in Seq(Characters) /\ Len(u) = N + 1
        /\ \A i \in 1..(N + 1) : u[i] = IF i <= N THEN t[i] ELSE nl[i - N]
    BY <2>1, ConcatProperties DEF Texts
  <2> HIDE DEF u
  <2>3. N + 1 \in 1..(N + 1) /\ ~(N + 1 <= N) /\ (N + 1) - N = 1
    BY <1>1
  <2>4. \A i \in 1..N : i \in 1..(N + 1) /\ i <= N
    BY <1>1
  <2> QED BY <2>2, <2>3, <2>4 DEF Texts
<1>3. u[N + 1].role = "newline" /\ ~IsWord(u[N + 1])
  BY <1>2, NewlineText
<1>4. ends \subseteq 1..N
  BY <1>1 DEF Places
<1>5. Lines(t) = p
  BY DEF Lines
<1> HIDE DEF N, nl, u
<1>6. CutsOf(u, e)
  <2>1. ends \subseteq 1..Len(u)
    BY <1>1, <1>2, <1>4
  <2>2. Len(u) = N + 1
    BY <1>2
  <2> HIDE DEF ends
  <2>3. CutsOf(u, Ascending(ends \cup {Len(u)}))
    BY <1>2, <2>1, CutsAreAscending
  <2> QED BY <2>2, <2>3
<1>7. /\ N + 1 \in Nat /\ ends \cup {N + 1} \subseteq 0..(N + 1)
      /\ \A x \in ends \cup {N + 1} : \E i \in 1..L : e[i] = x
      /\ \A i \in 1..L : e[i] \in ends \cup {N + 1}
  <2>1. N + 1 \in Nat /\ ends \cup {N + 1} \subseteq 0..(N + 1)
    BY <1>1, <1>4
  <2> DEFINE E == ends \cup {N + 1}
             M == N + 1
  <2>4. E \subseteq 0..M /\ M \in Nat
    BY <2>1
  <2> HIDE DEF E, M
  <2>2. /\ Ascending(E) \in Seq(E) /\ Len(Ascending(E)) = Cardinality(E)
        /\ \A x \in E : \E i \in 1..Cardinality(E) : Ascending(E)[i] = x
    BY <2>4, AscendingLists
  <2>3. \A i \in 1..Len(Ascending(E)) : Ascending(E)[i] \in E
    BY <2>2, ElementOfSeq
  <2> QED BY <2>1, <2>2, <2>3 DEF E
<1>8. \A i \in 1..L : u[e[i]].role = "newline" /\ ~IsWord(u[e[i]])
  <2> TAKE i \in 1..L
  <2>1. e[i] \in ends \/ e[i] = N + 1
    BY <1>7
  <2>2. \A x \in ends : x \in 1..N /\ t[x].role = "newline" /\ ~IsWord(t[x])
    BY <1>4 DEF Places, IsWord
  <2> HIDE DEF e, ends
  <2> QED BY <1>2, <1>3, <2>1, <2>2
<1> HIDE DEF e, ends, L
<1>9. /\ e \in Seq(0..(N + 1)) /\ L \in Nat \ {0} /\ DOMAIN e = 1..L
      /\ \A i, j \in 1..L : i < j => e[i] < e[j]
      /\ e[L] = N + 1 /\ \A i \in 1..L : e[i] \in 0..(N + 1)
  <2>1. /\ e \in Seq(0..Len(u)) /\ L > 0 /\ e[L] = N + 1
        /\ \A i, j \in 1..L : i < j => e[i] < e[j]
    BY <1>2, <1>6 DEF CutsOf, L
  <2>2. L \in Nat /\ DOMAIN e = 1..L /\ \A i \in 1..L : e[i] \in 0..Len(u)
    BY <2>1, LenProperties, ElementOfSeq DEF L
  <2> QED BY <1>2, <2>1, <2>2
<1>10. \A k \in 1..L : e[k] \in 1..(N + 1)
  <2> TAKE k \in 1..L
  <2>1. e[k] \in ends \cup {N + 1}
    BY <1>7
  <2>2. CASE e[k] = N + 1
    BY <1>1, <2>2
  <2>3. CASE e[k] \in ends
    <3>1. e[k] \in 1..N
      BY <1>4, <2>3
    <3> QED BY <1>1, <3>1
  <2> QED BY <2>1, <2>2, <2>3
<1>11. p = [k \in 1..L |-> SubSeq(t, CutFrom(e, k), e[k] - 1)]
  BY <1>9 DEF CutFrom
<1> HIDE DEF p
<1>12. ASSUME NEW k \in 1..L
       PROVE  /\ CutFrom(e, k) \in 1..(N + 1) /\ CutFrom(e, k) <= e[k]
              /\ e[k] - 1 \in 0..N
              /\ \A x \in ends : ~(CutFrom(e, k) <= x /\ x < e[k])
  <2>1. k \in Nat \ {0} /\ e[k] \in 1..(N + 1) /\ e[k] - 1 \in 0..N
    BY <1>1, <1>9, <1>10
  <2>2. CASE k = 1
    <3>1. CutFrom(e, k) = 1
      BY <2>2 DEF CutFrom
    <3>2. ASSUME NEW x \in ends, x < e[k] PROVE FALSE
      <4>1. PICK i \in 1..L : e[i] = x
        BY <1>7
      <4>2. i = k \/ k < i
        BY <2>2, <1>9
      <4>3. e[i] \in Nat /\ e[k] \in Nat
        BY <1>9
      <4> QED BY <1>9, <3>2, <4>1, <4>2, <4>3
    <3> QED BY <1>1, <2>1, <3>1, <3>2
  <2>3. CASE k # 1
    <3>1. k - 1 \in 1..L /\ k - 1 < k
      BY <2>1, <2>3, <1>9
    <3>2. CutFrom(e, k) = e[k - 1] + 1 /\ e[k - 1] < e[k] /\ e[k - 1] \in 1..(N + 1)
      BY <1>9, <1>10, <2>3, <3>1 DEF CutFrom
    <3>3. ASSUME NEW x \in ends, e[k - 1] + 1 <= x, x < e[k] PROVE FALSE
      <4>1. PICK i \in 1..L : e[i] = x
        BY <1>7
      <4>2. i <= k - 1 \/ k <= i
        BY <2>1, <1>9
      <4>3. e[i] \in Nat /\ e[k] \in Nat /\ e[k - 1] \in Nat
        BY <1>9, <3>1
      <4>4. CASE i <= k - 1
        <5>1. i = k - 1 \/ i < k - 1
          BY <4>4, <2>1, <1>9
        <5>2. e[i] <= e[k - 1]
          BY <1>9, <3>1, <4>3, <5>1
        <5> QED BY <3>3, <4>1, <4>3, <5>2
      <4>5. CASE k <= i
        <5>1. i = k \/ k < i
          BY <4>5, <2>1, <1>9
        <5>2. e[k] <= e[i]
          BY <1>9, <4>3, <5>1
        <5> QED BY <3>3, <4>1, <4>3, <5>2
      <4> QED BY <4>2, <4>4, <4>5
    <3> QED BY <1>1, <2>1, <3>2, <3>3
  <2> QED BY <2>2, <2>3
<1>13. ASSUME NEW k \in 1..L
       PROVE  /\ p[k] \in Texts /\ NewlineFree(p[k])
              /\ WordsOf(p[k]) = WordsOf(SubSeq(u, CutFrom(e, k), e[k]))
  <2> DEFINE a == CutFrom(e, k)
             b == e[k]
  <2>1. /\ a \in Nat \ {0} /\ a <= b /\ b - 1 \in 0..N /\ b \in 1..(N + 1)
        /\ \A x \in ends : ~(a <= x /\ x < b)
    BY <1>1, <1>10, <1>12
  <2>2. p[k] = SubSeq(t, a, b - 1)
    BY <1>11
  <2>3. ~IsWord(u[b])
    BY <1>8
  <2> HIDE DEF a, b
  <2>4. /\ SubSeq(t, a, b - 1) \in Texts
        /\ Len(SubSeq(t, a, b - 1)) = IF a <= b - 1 THEN (b - 1) - a + 1 ELSE 0
        /\ \A i \in 1..((b - 1) - a + 1) : SubSeq(t, a, b - 1)[i] = t[a + i - 1]
    BY <2>1, SubText DEF N
  <2>5. /\ SubSeq(u, a, b) \in Texts
        /\ Len(SubSeq(u, a, b)) = b - a + 1
        /\ \A i \in 1..(b - a + 1) : SubSeq(u, a, b)[i] = u[a + i - 1]
    <3>1. b \in 0..Len(u)
      BY <1>1, <1>2, <2>1
    <3> QED BY <1>2, <2>1, <3>1, SubText
  <2>6. Len(SubSeq(t, a, b - 1)) = b - a
    BY <1>1, <2>1, <2>4
  <2> DEFINE x == SubSeq(t, a, b - 1)
             y == SubSeq(u, a, b)
             n == b - a
  <2>7. n \in Nat /\ (b - 1) - a + 1 = n /\ b - a + 1 = n + 1 /\ a + (n + 1) - 1 = b
    BY <1>1, <2>1
  <2>8. \A i \in 1..n : a + i - 1 \in 1..N /\ a <= a + i - 1 /\ a + i - 1 < b
    BY <1>1, <2>1
  <2>9. x \in Texts /\ Len(x) = n /\ \A i \in 1..n : x[i] = t[a + i - 1]
    BY <2>4, <2>6, <2>7
  <2>10. y \in Texts /\ Len(y) = n + 1 /\ y[n + 1] = u[b] /\ \A i \in 1..n : y[i] = u[a + i - 1]
    <3>1. n + 1 \in 1..(n + 1) /\ \A i \in 1..n : i \in 1..(n + 1)
      BY <2>7
    <3> HIDE DEF n
    <3> QED BY <2>5, <2>7, <3>1
  <2> HIDE DEF x, y, n
  <2>11. NewlineFree(x)
    <3> SUFFICES ASSUME NEW i \in 1..n PROVE x[i].role # "newline"
      BY <2>9 DEF NewlineFree
    <3>1. a + i - 1 \in 1..N /\ a + i - 1 \notin ends
      BY <2>1, <2>8
    <3>2. t[a + i - 1].role # "newline"
      BY <1>1, <3>1 DEF ends, Places
    <3> QED BY <2>9, <3>2
  <2>12. u[b] \in Characters
    BY <1>2, <2>1, ElementOfSeq DEF Texts
  <2>13. y = Append(x, u[b])
    <3> DEFINE d == Append(x, u[b])
    <3>1. /\ d \in Seq(Characters) /\ Len(d) = n + 1 /\ d[n + 1] = u[b]
          /\ \A i \in 1..n : d[i] = x[i]
      BY <2>9, <2>12, AppendProperties DEF Texts
    <3> HIDE DEF d
    <3>2. \A i \in 1..n : d[i] = y[i]
      BY <1>2, <2>8, <2>9, <2>10, <3>1
    <3>3. \A i \in 1..(n + 1) : i \in 1..n \/ i = n + 1
      BY <2>7
    <3>4. \A i \in 1..(n + 1) : y[i] = d[i]
      BY <2>10, <3>1, <3>2, <3>3
    <3>5. y = d
      BY <2>10, <3>1, <3>4, SeqEqual DEF Texts
    <3> QED BY <3>5 DEF d
  <2>14. WordsOf(y) = WordsOf(x)
    <3>1. WordsOf(y) = WordsOf(x) \o OneWord(u[b])
      BY <2>9, <2>12, <2>13, WordsOfText
    <3>2. OneWord(u[b]) = <<>>
      BY <2>3 DEF OneWord
    <3>3. WordsOf(x) \in Texts
      BY <2>9, WordsOfText
    <3> QED BY <3>1, <3>2, <3>3, TextsConcat
  <2> QED BY <2>2, <2>9, <2>11, <2>14 DEF a, b, x, y
<1>14. p \in Seq(Texts) /\ Len(p) = L
  <2>1. p = [k \in 1..L |-> p[k]]
    BY <1>11
  <2>2. p \in [1..L -> Texts]
    BY <1>13, <2>1
  <2> QED BY <1>9, <2>2
<1>15. WordsIn(p) = WordsOf(u)
  <2>1. /\ Len(p) = Len(e)
        /\ \A k \in 1..Len(e) : WordsOf(p[k]) = WordsOf(SubSeq(u, CutFrom(e, k), e[k]))
    BY <1>13, <1>14 DEF L
  <2> QED BY <1>2, <1>6, <1>14, <2>1, CutKeepsWords
<1>16. WordsOf(u) = WordsOf(t)
  <2>1. nl \in Texts /\ WordsOf(nl) = <<>> /\ WordsOf(t) \in Texts
    BY NewlineText, WordsOfText DEF nl
  <2>2. WordsOf(t \o nl) = WordsOf(t) \o WordsOf(nl)
    BY <2>1, WordsConcat
  <2>3. WordsOf(t) \o <<>> = WordsOf(t)
    BY <2>1, TextsConcat
  <2> QED BY <2>1, <2>2, <2>3 DEF u
<1> QED BY <1>5, <1>9, <1>13, <1>14, <1>15, <1>16

\* A text of three lines.
LEMMA ThreeLines ==
  ASSUME NEW x \in Texts, NEW y \in Texts, NEW z \in Texts,
         NewlineFree(x), NewlineFree(y), NewlineFree(z)
  PROVE  LET n == PutIn("newline") IN Len(Lines((x \o (n \o y)) \o (n \o z))) = 3
<1> DEFINE n == PutIn("newline")
           X == Len(x)
           Y == Len(y)
           Z == Len(z)
           a == n \o y
           b == x \o a
           c == n \o z
           t == b \o c
           T == X + Y + Z + 2
<1>1. n \in Seq(Characters) /\ Len(n) = 1 /\ n[1].role = "newline"
  BY NewlineText DEF Texts
<1>2. /\ X \in Nat /\ Y \in Nat /\ Z \in Nat
      /\ x \in Seq(Characters) /\ y \in Seq(Characters) /\ z \in Seq(Characters)
  BY LenProperties DEF Texts
<1> HIDE DEF n
<1>3. /\ a \in Seq(Characters) /\ Len(a) = Y + 1
      /\ \A i \in 1..(Y + 1) : a[i] = IF i <= 1 THEN n[i] ELSE y[i - 1]
  <2>1. /\ a \in Seq(Characters) /\ Len(a) = Len(n) + Len(y)
        /\ \A i \in 1..(Len(n) + Len(y)) : a[i] = IF i <= Len(n) THEN n[i] ELSE y[i - Len(n)]
    BY <1>1, <1>2, ConcatProperties
  <2>2. Len(n) + Len(y) = Y + 1
    BY <1>1, <1>2
  <2> HIDE DEF a
  <2> QED BY <1>1, <2>1, <2>2
<1>4. /\ c \in Seq(Characters) /\ Len(c) = Z + 1
      /\ \A i \in 1..(Z + 1) : c[i] = IF i <= 1 THEN n[i] ELSE z[i - 1]
  <2>1. /\ c \in Seq(Characters) /\ Len(c) = Len(n) + Len(z)
        /\ \A i \in 1..(Len(n) + Len(z)) : c[i] = IF i <= Len(n) THEN n[i] ELSE z[i - Len(n)]
    BY <1>1, <1>2, ConcatProperties
  <2>2. Len(n) + Len(z) = Z + 1
    BY <1>1, <1>2
  <2> HIDE DEF c
  <2> QED BY <1>1, <2>1, <2>2
<1> HIDE DEF a, c
<1>5. /\ b \in Seq(Characters) /\ Len(b) = X + Y + 1
      /\ \A i \in 1..(X + Y + 1) : b[i] = IF i <= X THEN x[i] ELSE a[i - X]
  <2>1. /\ b \in Seq(Characters) /\ Len(b) = X + Len(a)
        /\ \A i \in 1..(X + Len(a)) : b[i] = IF i <= X THEN x[i] ELSE a[i - X]
    BY <1>2, <1>3, ConcatProperties
  <2>2. X + (Y + 1) = X + Y + 1
    BY <1>2
  <2> QED BY <1>3, <2>1, <2>2
<1> HIDE DEF b
<1>6. /\ t \in Seq(Characters) /\ Len(t) = T
      /\ \A i \in 1..T : t[i] = IF i <= X + Y + 1 THEN b[i] ELSE c[i - (X + Y + 1)]
  <2>1. /\ t \in Seq(Characters) /\ Len(t) = Len(b) + Len(c)
        /\ \A i \in 1..(Len(b) + Len(c)) : t[i] = IF i <= Len(b) THEN b[i] ELSE c[i - Len(b)]
    BY <1>4, <1>5, ConcatProperties
  <2>2. Len(b) + Len(c) = T
    BY <1>2, <1>4, <1>5
  <2> HIDE DEF t, T
  <2> QED BY <1>5, <2>1, <2>2
<1> HIDE DEF t
<1>7. DOMAIN t = 1..T
  BY <1>6, LenProperties
<1> DEFINE p == X + 1
           q == X + Y + 2
           r == T + 1
<1>8. p \in Nat /\ q \in Nat /\ r \in Nat /\ p < q /\ q < r /\ p \in 1..T /\ q \in 1..T
  BY <1>2
<1>9. t[p].role = "newline" /\ t[q].role = "newline"
  <2>1. t[p] = n[1]
    <3>1. p <= X + Y + 1 /\ p \in 1..(X + Y + 1) /\ ~(p <= X) /\ p - X = 1 /\ 1 \in 1..(Y + 1)
      BY <1>2
    <3>2. t[p] = b[p]
      BY <1>6, <1>8, <3>1
    <3>3. b[p] = a[1]
      BY <1>5, <3>1
    <3> QED BY <1>3, <3>1, <3>2, <3>3
  <2>2. t[q] = n[1]
    <3>1. ~(q <= X + Y + 1) /\ q - (X + Y + 1) = 1 /\ 1 \in 1..(Z + 1)
      BY <1>2
    <3>2. t[q] = c[1]
      BY <1>6, <1>8, <3>1
    <3> QED BY <1>4, <3>1, <3>2
  <2> QED BY <1>1, <2>1, <2>2
<1>10. ASSUME NEW i \in 1..T, i # p, i # q PROVE t[i].role # "newline"
  <2>1. CASE i <= X
    <3>1. i \in 1..X /\ i <= X + Y + 1 /\ i \in 1..(X + Y + 1)
      BY <1>2, <2>1
    <3>2. t[i] = x[i]
      BY <1>5, <1>6, <2>1, <3>1
    <3> QED BY <3>1, <3>2 DEF NewlineFree
  <2>2. CASE ~(i <= X) /\ i <= X + Y + 1
    <3>1. /\ i \in 1..(X + Y + 1) /\ i - X \in 1..(Y + 1) /\ ~(i - X <= 1)
          /\ (i - X) - 1 \in 1..Y
      BY <1>2, <1>10, <2>2
    <3>2. t[i] = b[i]
      BY <1>6, <2>2
    <3>3. b[i] = a[i - X]
      BY <1>5, <2>2, <3>1
    <3>4. a[i - X] = y[(i - X) - 1]
      BY <1>3, <3>1
    <3> QED BY <3>1, <3>2, <3>3, <3>4 DEF NewlineFree
  <2>3. CASE ~(i <= X + Y + 1)
    <3> DEFINE j == i - (X + Y + 1)
    <3>1. j \in 1..(Z + 1) /\ ~(j <= 1) /\ j - 1 \in 1..Z
      <4>1. i \in Nat /\ i <= X + Y + Z + 2 /\ i # X + Y + 2 /\ ~(i <= X + Y + 1)
        BY <1>2, <1>10, <2>3
      <4>2. i >= X + Y + 3
        BY <1>2, <4>1
      <4> QED BY <1>2, <4>1, <4>2
    <3>2. t[i] = c[j]
      BY <1>6, <2>3
    <3> HIDE DEF j
    <3>3. c[j] = z[j - 1]
      BY <1>4, <3>1
    <3> QED BY <3>1, <3>2, <3>3 DEF NewlineFree
  <2> QED BY <2>1, <2>2, <2>3
<1>11. Places(t, "newline") = {p, q}
  <2> HIDE DEF p, q
  <2> QED BY <1>7, <1>8, <1>9, <1>10 DEF Places
<1>12. Cardinality({p, q} \cup {r}) = 3
  <2> HIDE DEF p, q, r
  <2>1. IsFiniteSet({p}) /\ Cardinality({p}) = 1
    BY FS_Singleton
  <2>2. q \notin {p} /\ r \notin {p} \cup {q}
    BY <1>8
  <2>3. IsFiniteSet({p} \cup {q}) /\ Cardinality({p} \cup {q}) = 2
    <3>1. 1 + 1 = 2
      OBVIOUS
    <3> QED BY <2>1, <2>2, <3>1, FS_AddElement
  <2>4. Cardinality(({p} \cup {q}) \cup {r}) = 3
    BY <2>2, <2>3, FS_AddElement
  <2>5. {p, q} = {p} \cup {q}
    OBVIOUS
  <2> QED BY <2>4, <2>5
<1>13. Len(Lines(t)) = 3
  <2> DEFINE E == {p, q} \cup {r}
             e == Ascending(E)
  <2>1. E \subseteq 0..r /\ r \in Nat
    BY <1>8
  <2>2. Cardinality(E) = 3
    BY <1>12
  <2>3. Places(t, "newline") \cup {Len(t) + 1} = E
    BY <1>6, <1>11
  <2> HIDE DEF E, p, q, r
  <2>4. e \in Seq(E) /\ Len(e) = 3
    BY <2>1, <2>2, AscendingLists
  <2>5. DOMAIN e = 1..3
    <3> HIDE DEF e
    <3> QED BY <2>4, LenProperties
  <2>6. Lines(t) = [k \in 1..3 |-> SubSeq(t, IF k = 1 THEN 1 ELSE e[k - 1] + 1, e[k] - 1)]
    BY <2>3, <2>5 DEF Lines
  <2> QED BY <2>6
<1> QED BY <1>13 DEF t, b, a, c, n

-----------------------------------------------------------------------------
(* Parts of a table *)

\* Words of texts that are listed in several lists.
LEMMA WordsInFlatten ==
  ASSUME NEW lists \in Seq(Seq(Texts))
  PROVE  /\ FlattenSeq(lists) \in Seq(Texts)
         /\ [k \in 1..Len(lists) |-> WordsIn(lists[k])] \in Seq(Texts)
         /\ WordsIn(FlattenSeq(lists)) = FlattenSeq([k \in 1..Len(lists) |-> WordsIn(lists[k])])
<1> DEFINE N == Len(lists)
           w == [k \in 1..N |-> WordsIn(lists[k])]
           first(k) == FlattenSeq(SubSeq(lists, 1, k))
           T == {k \in 0..N : first(k) \in Seq(Texts) /\ WordsIn(first(k)) = FlattenSeq(SubSeq(w, 1, k))}
<1>1. N \in Nat /\ \A k \in 1..N : lists[k] \in Seq(Texts)
  BY LenProperties, ElementOfSeq
<1>2. w \in Seq(Texts) /\ Len(w) = N /\ \A k \in 1..N : w[k] = WordsIn(lists[k])
  <2>1. \A k \in 1..N : WordsIn(lists[k]) \in Texts
    BY <1>1, WordsInTexts
  <2>2. w \in [1..N -> Texts]
    BY <2>1
  <2>3. \A k \in 1..N : w[k] = WordsIn(lists[k])
    OBVIOUS
  <2> HIDE DEF w
  <2> QED BY <1>1, <2>2, <2>3
<1> HIDE DEF w
<1>3. 0 \in T
  <2>1. SubSeq(lists, 1, 0) = <<>> /\ SubSeq(w, 1, 0) = <<>>
    OBVIOUS
  <2>2. first(0) = <<>> /\ FlattenSeq(SubSeq(w, 1, 0)) = <<>>
    BY <2>1, FlattenNothing
  <2>4. <<>> \in Seq(Texts)
    OBVIOUS
  <2> HIDE DEF first
  <2>3. first(0) \in Seq(Texts) /\ WordsIn(first(0)) = FlattenSeq(SubSeq(w, 1, 0))
    BY <2>2, <2>4, WordsInTexts
  <2> QED BY <1>1, <2>3
<1>4. ASSUME NEW k \in 1..N, k - 1 \in T PROVE k \in T
  <2>1. /\ SubSeq(lists, 1, k) = Append(SubSeq(lists, 1, k - 1), lists[k])
        /\ SubSeq(lists, 1, k - 1) \in Seq(Seq(Texts)) /\ lists[k] \in Seq(Texts)
    BY PrefixStep
  <2>2. /\ SubSeq(w, 1, k) = Append(SubSeq(w, 1, k - 1), w[k])
        /\ SubSeq(w, 1, k - 1) \in Seq(Texts) /\ w[k] \in Texts
    BY <1>2, PrefixStep
  <2>3. first(k - 1) \in Seq(Texts) /\ first(k) = first(k - 1) \o lists[k]
    BY <2>1, FlattenProperties
  <2>4. WordsIn(first(k - 1)) = FlattenSeq(SubSeq(w, 1, k - 1))
    BY <1>4
  <2>5. FlattenSeq(SubSeq(w, 1, k)) = FlattenSeq(SubSeq(w, 1, k - 1)) \o w[k]
    BY <2>2, FlattenProperties DEF Texts
  <2> DEFINE a == first(k - 1)
             b == lists[k]
  <2>6. a \in Seq(Texts) /\ b \in Seq(Texts)
    BY <2>1, <2>3
  <2> HIDE DEF a, b
  <2>7. a \o b \in Seq(Texts) /\ WordsIn(a \o b) = WordsIn(a) \o WordsIn(b)
    BY <2>6, WordsInConcat
  <2>8. WordsIn(b) = w[k]
    BY <1>2 DEF b
  <2> USE DEF a
  <2> HIDE DEF first
  <2>9. first(k) \in Seq(Texts) /\ WordsIn(first(k)) = FlattenSeq(SubSeq(w, 1, k))
    BY <2>3, <2>4, <2>5, <2>7, <2>8 DEF b
  <2>10. k \in 0..N
    BY <1>1
  <2> QED BY <2>9, <2>10
<1> HIDE DEF T
<1>5. N \in T
  <2>1. 0..N \subseteq T
    BY <1>1, <1>3, <1>4, InductionUpTo
  <2> QED BY <1>1, <2>1
<1>6. SubSeq(lists, 1, N) = lists /\ SubSeq(w, 1, N) = w
  BY <1>2, SubSeqFull
<1>7. FlattenSeq(lists) \in Seq(Texts) /\ WordsIn(FlattenSeq(lists)) = FlattenSeq(w)
  BY <1>5, <1>6 DEF T
<1> QED BY <1>2, <1>7 DEF w

\* The text of a part below the first two lines, and what makes a good part.
PartText(lines, part) == Separated(TopLines(lines) \o part, PutIn("newline"))
GoodParts(lines) ==
  {part \in Seq(Texts) : /\ part # <<>> /\ \A k \in 1..Len(part) : NewlineFree(part[k])
                         /\ Len(part) = 1 \/ Len(PartText(lines, part)) <= MaxChars}
TableLines == {lines \in Seq(Texts) : /\ Len(lines) >= 2
                                      /\ \A k \in 1..Len(lines) : NewlineFree(lines[k])}

\* The first two lines of a table, and a part below them.
LEMMA TopOfTable ==
  ASSUME NEW lines \in TableLines
  PROVE  /\ TopLines(lines) \in Seq(Texts) /\ Len(TopLines(lines)) = 2
         /\ TopLines(lines) = <<lines[1], lines[2]>>
         /\ lines[1] \in Texts /\ lines[2] \in Texts
         /\ Len(PartText(lines, <<>>)) + 1 = TopSize(lines)
         /\ \A part \in Seq(Texts), t \in Texts :
              /\ PartText(lines, Append(part, t))
                   = PartText(lines, part) \o (PutIn("newline") \o t)
              /\ PartText(lines, part) \in Texts
              /\ WordsOf(PartText(lines, part)) = WordsIn(TopLines(lines)) \o WordsIn(part)
              /\ Len(PartText(lines, Append(part, t))) = Len(PartText(lines, part)) + 1 + Len(t)
<1> DEFINE top == TopLines(lines)
           nl == PutIn("newline")
           x == lines[1]
           y == lines[2]
<1>1. lines \in Seq(Texts) /\ Len(lines) \in Nat /\ 1 \in 1..Len(lines) /\ 2 \in 1..Len(lines)
  BY LenProperties DEF TableLines
<1>2. x \in Texts /\ y \in Texts
  BY <1>1, ElementOfSeq
<1>3. /\ top \in Seq(Texts) /\ Len(top) = 2 /\ top = Append(<<x>>, y) /\ top = <<x, y>>
      /\ <<x>> \in Seq(Texts) /\ <<x>> # <<>>
  <2>2. /\ <<x, y>> = Append(<<x>>, y)
        /\ <<x, y>> \in Seq(Texts)
        /\ Len(<<x, y>>) = 2
        /\ <<x>> \in Seq(Texts)
    BY <1>2
  <2>1. SubSeq(lines, 1, 2) = <<x, y>>
    <3>1. 2 - 1 = 1 /\ 1 - 1 = 0 /\ SubSeq(lines, 1, 0) = <<>>
      OBVIOUS
    <3>2. SubSeq(lines, 1, 1) = Append(<<>>, x)
      <4>1. SubSeq(lines, 1, 1) = Append(SubSeq(lines, 1, 1 - 1), lines[1])
        BY <1>1, PrefixStep
      <4> QED BY <3>1, <4>1
    <3>3. SubSeq(lines, 1, 2) = Append(SubSeq(lines, 1, 1), y)
      BY <1>1, <3>1, PrefixStep
    <3>4. lines[1] \in Texts /\ lines[2] \in Texts
      BY <1>2
    <3>5. <<x>> = Append(<<>>, x)
      OBVIOUS
    <3> QED BY <2>2, <3>2, <3>3, <3>5
  <2>3. <<x>> # <<>>
    OBVIOUS
  <2> QED BY <2>1, <2>2, <2>3 DEF TopLines
<1>4. nl \in Texts /\ Len(nl) = 1 /\ WordsOf(nl) = <<>>
  BY NewlineText
<1>5. top = <<x, y>>
  BY <1>3
<1> HIDE DEF top, nl, x, y
<1>6. Len(PartText(lines, <<>>)) + 1 = TopSize(lines)
  <2>1. top \o <<>> = top
    BY <1>3, ConcatEmptySeq
  <2>2. Separated(top, nl) = x \o (nl \o y)
    <3>1. Separated(Append(<<x>>, y), nl) = Separated(<<x>>, nl) \o (nl \o y)
      BY <1>2, <1>3, <1>4, SeparatedAppend
    <3>2. Separated(<<x>>, nl) = x
      BY <1>2, <1>3, <1>4, SeparatedAppend
    <3> QED BY <1>3, <3>1, <3>2
  <2>3. /\ nl \o y \in Texts
        /\ Len(nl \o y) = 1 + Len(y)
        /\ Len(x \o (nl \o y)) = Len(x) + Len(nl \o y)
    BY <1>2, <1>4, TextsConcat, TextLengths
  <2>4. Len(x) \in Nat /\ Len(y) \in Nat
    BY <1>2, TextLengths
  <2>5. Len(PartText(lines, <<>>)) = Len(x) + (1 + Len(y))
    BY <2>1, <2>2, <2>3 DEF PartText, top, nl
  <2>6. TopSize(lines) = Len(x) + Len(y) + 2
    BY DEF TopSize, x, y
  <2> QED BY <2>4, <2>5, <2>6
<1>7. ASSUME NEW part \in Seq(Texts), NEW t \in Texts
      PROVE  /\ PartText(lines, Append(part, t)) = PartText(lines, part) \o (nl \o t)
             /\ PartText(lines, part) \in Texts
             /\ WordsOf(PartText(lines, part)) = WordsIn(top) \o WordsIn(part)
             /\ Len(PartText(lines, Append(part, t))) = Len(PartText(lines, part)) + 1 + Len(t)
  <2> DEFINE s == top \o part
  <2>1. s \in Seq(Texts) /\ Len(s) = 2 + Len(part) /\ Len(part) \in Nat
    BY <1>3, ConcatProperties, LenProperties
  <2>2. top \o Append(part, t) = Append(s, t)
    BY <1>3, ConcatAppend
  <2>3. WordsIn(s) = WordsIn(top) \o WordsIn(part)
    BY <1>3, WordsInConcat
  <2> HIDE DEF s
  <2>4. s # <<>>
    <3>1. Len(<<>>) = 0
      OBVIOUS
    <3> QED BY <2>1, <3>1
  <2>5. Separated(Append(s, t), nl) = Separated(s, nl) \o (nl \o t)
    BY <1>4, <2>1, <2>4, SeparatedAppend
  <2>6. Separated(s, nl) \in Texts /\ WordsOf(Separated(s, nl)) = WordsIn(s)
    BY <1>4, <2>1, SeparatedTexts
  <2>7. /\ PartText(lines, part) = Separated(s, nl)
        /\ PartText(lines, Append(part, t)) = Separated(Append(s, t), nl)
    BY <2>2 DEF PartText, s, top, nl
  <2> DEFINE a == Separated(s, nl)
  <2> HIDE DEF a
  <2>8. /\ nl \o t \in Texts
        /\ Len(nl \o t) = 1 + Len(t)
        /\ Len(a \o (nl \o t)) = Len(a) + Len(nl \o t)
    BY <1>4, <2>6, TextsConcat, TextLengths DEF a
  <2>9. Len(a) \in Nat /\ Len(t) \in Nat
    BY <2>6, TextLengths DEF a
  <2>10. Len(a \o (nl \o t)) = Len(a) + 1 + Len(t)
    BY <2>8, <2>9
  <2> QED BY <2>3, <2>5, <2>6, <2>7, <2>10 DEF a
<1> QED BY <1>2, <1>3, <1>5, <1>6, <1>7 DEF top, nl, x, y

\* A good part that is longer than the limit is one line below the first two.
LEMMA GoodPart ==
  ASSUME NEW lines \in TableLines, NEW part \in GoodParts(lines)
  PROVE  /\ PartText(lines, part) \in Texts
         /\ WordsOf(PartText(lines, part)) = WordsIn(TopLines(lines)) \o WordsIn(part)
         /\ Len(PartText(lines, part)) > MaxChars => Len(Lines(PartText(lines, part))) = 3
<1> DEFINE top == TopLines(lines)
           n == PutIn("newline")
           x == lines[1]
           y == lines[2]
           z == part[1]
<1>1. part \in Seq(Texts) /\ part # <<>> /\ \A k \in 1..Len(part) : NewlineFree(part[k])
  BY DEF GoodParts
<1>2. /\ Len(lines) \in Nat /\ Len(lines) >= 2 /\ \A k \in 1..Len(lines) : NewlineFree(lines[k])
      /\ lines \in Seq(Texts)
  BY LenProperties DEF TableLines
<1>3. <<>> \in Texts
  BY TextsConcat
<1>4. /\ PartText(lines, part) \in Texts
      /\ WordsOf(PartText(lines, part)) = WordsIn(TopLines(lines)) \o WordsIn(part)
  BY <1>1, <1>3, TopOfTable
<1>5. ASSUME Len(PartText(lines, part)) > MaxChars PROVE Len(Lines(PartText(lines, part))) = 3
  <2>1. Len(part) = 1
    <3>1. Len(PartText(lines, part)) \in Nat /\ MaxChars \in Nat
      BY <1>4, TextLengths, LimitsAssumption
    <3>2. ~(Len(PartText(lines, part)) <= MaxChars)
      BY <1>5, <3>1
    <3> QED BY <3>2 DEF GoodParts
  <2>2. z \in Texts /\ NewlineFree(z)
    <3>1. 1 \in 1..Len(part)
      BY <2>1
    <3> QED BY <1>1, <3>1, ElementOfSeq
  <2>3. x \in Texts /\ y \in Texts /\ NewlineFree(x) /\ NewlineFree(y)
    <3>1. 1 \in 1..Len(lines) /\ 2 \in 1..Len(lines)
      BY <1>2
    <3> QED BY <1>2, <3>1, ElementOfSeq
  <2>4. part = <<z>> /\ <<z>> = Append(<<>>, z) /\ <<>> \in Seq(Texts)
    BY <1>1, <2>1, <2>2
  <2>5. PartText(lines, part) = PartText(lines, <<>>) \o (n \o z)
    <3>1. PartText(lines, Append(<<>>, z)) = PartText(lines, <<>>) \o (n \o z)
      BY <2>2, <2>4, TopOfTable
    <3> HIDE DEF z
    <3> QED BY <2>4, <3>1
  <2>6. PartText(lines, <<>>) = x \o (n \o y)
    <3>1. top \in Seq(Texts) /\ top = <<x, y>>
      BY <1>3, TopOfTable
    <3>2. top \o <<>> = top
      BY <3>1, ConcatEmptySeq
    <3>3. n \in Texts
      BY NewlineText
    <3>4. /\ <<x, y>> = Append(<<x>>, y) /\ <<x, y>> \in Seq(Texts) /\ Len(<<x, y>>) = 2
          /\ <<x>> \in Seq(Texts)
      BY <2>3
    <3>5. <<x>> # <<>>
      OBVIOUS
    <3> HIDE DEF n, x, y, top
    <3>6. /\ Separated(Append(<<x>>, y), n) = Separated(<<x>>, n) \o (n \o y)
          /\ Separated(<<x>>, n) = x
      BY <2>3, <3>3, <3>4, <3>5, SeparatedAppend
    <3>7. PartText(lines, <<>>) = Separated(top \o <<>>, n)
      BY DEF PartText, top, n
    <3> QED BY <3>1, <3>2, <3>4, <3>6, <3>7
  <2>7. Len(Lines((x \o (n \o y)) \o (n \o z))) = 3
    <3> HIDE DEF x, y, z
    <3> QED BY <2>2, <2>3, ThreeLines
  <2> QED BY <2>5, <2>6, <2>7
<1> QED BY <1>4, <1>5

\* Lines that are distributed over parts.
PartStates(lines) ==
  {a \in [parts : Seq(GoodParts(lines)), part : Seq(Texts), size : Nat] :
     /\ a.part = <<>> \/ a.part \in GoodParts(lines)
     /\ a.size = Len(PartText(lines, a.part)) + 1}

\* The words of the lines distributed so far.
LineWords(a) == WordsIn(FlattenSeq(a.parts)) \o WordsIn(a.part)

\* Lines of the parts one after the other, and a part more.
LEMMA PartsFlatten ==
  ASSUME NEW lines, NEW parts \in Seq(GoodParts(lines)), NEW part \in Seq(Texts)
  PROVE  /\ parts \in Seq(Seq(Texts)) /\ FlattenSeq(parts) \in Seq(Texts)
         /\ WordsIn(FlattenSeq(Append(parts, part))) = WordsIn(FlattenSeq(parts)) \o WordsIn(part)
         /\ WordsIn(FlattenSeq(parts)) \in Texts /\ WordsIn(part) \in Texts
<1>1. GoodParts(lines) \subseteq Seq(Texts)
  BY DEF GoodParts
<1>2. parts \in Seq(Seq(Texts))
  BY <1>1, SeqMonotonic
<1>3. /\ FlattenSeq(parts) \in Seq(Texts)
      /\ FlattenSeq(Append(parts, part)) = FlattenSeq(parts) \o part
  BY <1>2, FlattenProperties
<1> DEFINE f == FlattenSeq(parts)
<1> HIDE DEF f
<1>4. WordsIn(f \o part) = WordsIn(f) \o WordsIn(part) /\ f \in Seq(Texts)
  BY <1>3, WordsInConcat DEF f
<1> QED BY <1>2, <1>3, <1>4, WordsInTexts DEF f

\* A line that is added to a part, or starts the next, is told after the lines before it.
LEMMA AddLineKeepsWords ==
  ASSUME NEW lines \in TableLines, NEW a \in PartStates(lines),
         NEW line \in Texts, NewlineFree(line)
  PROVE  LET b == AddLine(a, line, lines)
         IN  /\ b \in PartStates(lines)
             /\ b.part # <<>>
             /\ LineWords(b) = LineWords(a) \o WordsOf(line)
<1> DEFINE b == AddLine(a, line, lines)
           G == GoodParts(lines)
<1>1. /\ a.parts \in Seq(G) /\ a.part \in Seq(Texts) /\ a.size \in Nat
      /\ a.part = <<>> \/ a.part \in G
      /\ a.size = Len(PartText(lines, a.part)) + 1
  BY DEF PartStates
<1>2. MaxChars \in Nat
  BY LimitsAssumption
<1>3. Len(line) \in Nat /\ WordsOf(line) \in Texts
  BY TextLengths, WordsOfText
<1>4. /\ WordsIn(FlattenSeq(a.parts)) \in Texts /\ WordsIn(a.part) \in Texts
      /\ WordsIn(FlattenSeq(Append(a.parts, a.part)))
           = WordsIn(FlattenSeq(a.parts)) \o WordsIn(a.part)
  <2> DEFINE p == a.parts
             q == a.part
  <2>1. p \in Seq(GoodParts(lines)) /\ q \in Seq(Texts)
    BY <1>1
  <2> HIDE DEF p, q
  <2>2. /\ WordsIn(FlattenSeq(p)) \in Texts /\ WordsIn(q) \in Texts
        /\ WordsIn(FlattenSeq(Append(p, q))) = WordsIn(FlattenSeq(p)) \o WordsIn(q)
    BY <2>1, PartsFlatten
  <2> QED BY <2>2 DEF p, q
<1>5. CASE a.size + Len(line) + 1 > MaxChars /\ a.part # <<>>
  <2>1. b = [parts |-> Append(a.parts, a.part), part |-> <<line>>,
             size |-> TopSize(lines) + Len(line) + 1]
    BY <1>5 DEF AddLine
  <2>2. <<line>> \in Seq(Texts) /\ <<line>> = Append(<<>>, line) /\ Len(<<line>>) = 1
        /\ <<line>>[1] = line /\ <<line>> # <<>> /\ <<>> \in Seq(Texts)
    OBVIOUS
  <2>3. TopSize(lines) + Len(line) + 1 = Len(PartText(lines, <<line>>)) + 1
    <3>1. /\ Len(PartText(lines, <<>>)) + 1 = TopSize(lines) /\ PartText(lines, <<>>) \in Texts
          /\ Len(PartText(lines, Append(<<>>, line))) = Len(PartText(lines, <<>>)) + 1 + Len(line)
      BY <2>2, TopOfTable
    <3>2. Len(PartText(lines, <<>>)) \in Nat
      BY <3>1, TextLengths
    <3>3. Len(PartText(lines, <<line>>)) = Len(PartText(lines, <<>>)) + 1 + Len(line)
      BY <2>2, <3>1
    <3> QED BY <1>3, <3>1, <3>2, <3>3
  <2>4. <<line>> \in G
    BY <2>2 DEF GoodParts
  <2>5. PartText(lines, <<line>>) \in Texts
    BY <2>4, GoodPart
  <2>6. Append(a.parts, a.part) \in Seq(G)
    BY <1>1, <1>5, AppendProperties
  <2>7. Len(PartText(lines, <<line>>)) + 1 \in Nat
    BY <2>5, TextLengths
  <2> DEFINE one == <<line>>
  <2>8. b.parts = Append(a.parts, a.part) /\ b.part = one /\ b.size = Len(PartText(lines, one)) + 1
    BY <2>1, <2>3
  <2>9. b \in PartStates(lines) /\ b.part # <<>>
    <3>1. b \in [parts : Seq(G), part : Seq(Texts), size : Nat]
      BY <2>1, <2>2, <2>3, <2>6, <2>7
    <3> HIDE DEF b, one
    <3> QED BY <2>2, <2>4, <2>8, <3>1 DEF PartStates, one
  <2>10. LineWords(b) = LineWords(a) \o WordsOf(line)
    <3>1. WordsIn(one) = <<>> \o WordsOf(line)
      BY <2>2, WordsInTexts
    <3>2. WordsIn(one) = WordsOf(line)
      BY <1>3, <3>1, TextsConcat
    <3> HIDE DEF b, one
    <3> QED BY <1>4, <2>8, <3>2 DEF LineWords
  <2> QED BY <2>9, <2>10
<1>6. CASE ~(a.size + Len(line) + 1 > MaxChars /\ a.part # <<>>)
  <2> DEFINE part == Append(a.part, line)
  <2>1. b = [parts |-> a.parts, part |-> part, size |-> a.size + Len(line) + 1]
    BY <1>6 DEF AddLine
  <2> DEFINE q == a.part
             n == Len(q)
  <2>2. /\ part \in Seq(Texts) /\ part # <<>> /\ Len(part) = n + 1 /\ n \in Nat
        /\ part[n + 1] = line /\ \A i \in 1..n : part[i] = q[i]
    BY <1>1, AppendProperties, LenProperties
  <2>3. \A k \in 1..(n + 1) : NewlineFree(part[k])
    <3> TAKE k \in 1..(n + 1)
    <3>1. CASE k = n + 1
      BY <2>2, <3>1
    <3>2. CASE k # n + 1
      <4>1. k \in 1..n
        BY <2>2, <3>2
      <4>2. q # <<>>
        BY <4>1
      <4>3. q \in G
        BY <1>1, <4>2
      <4>4. NewlineFree(q[k])
        BY <4>1, <4>3 DEF GoodParts
      <4> QED BY <2>2, <4>1, <4>4
    <3> QED BY <3>1, <3>2
  <2>4. Len(PartText(lines, part)) = Len(PartText(lines, q)) + 1 + Len(line)
        /\ PartText(lines, q) \in Texts /\ PartText(lines, part) \in Texts
    BY <1>1, <2>2, TopOfTable
  <2>5. Len(PartText(lines, q)) \in Nat /\ Len(PartText(lines, part)) \in Nat
    BY <2>4, TextLengths
  <2>6. a.size + Len(line) + 1 = Len(PartText(lines, part)) + 1
    BY <1>1, <1>3, <2>4, <2>5
  <2> HIDE DEF part
  <2>7. Len(part) = 1 \/ Len(PartText(lines, part)) <= MaxChars
    <3>1. CASE q = <<>>
      <4>1. n = 0
        BY <3>1
      <4> QED BY <2>2, <4>1
    <3>2. CASE q # <<>>
      <4>1. ~(a.size + Len(line) + 1 > MaxChars)
        BY <1>6, <3>2
      <4> QED BY <1>1, <1>2, <1>3, <2>5, <2>6, <4>1
    <3> QED BY <3>1, <3>2
  <2>8. part \in G
    BY <2>2, <2>3, <2>7 DEF GoodParts
  <2>9. b.parts = a.parts /\ b.part = part /\ b.size = Len(PartText(lines, part)) + 1
    BY <2>1, <2>6
  <2>10. b \in PartStates(lines) /\ b.part # <<>>
    <3>1. b \in [parts : Seq(G), part : Seq(Texts), size : Nat]
      BY <1>1, <1>3, <2>1, <2>2
    <3> HIDE DEF b
    <3> QED BY <2>2, <2>8, <2>9, <3>1 DEF PartStates
  <2>11. LineWords(b) = LineWords(a) \o WordsOf(line)
    <3> DEFINE f == WordsIn(FlattenSeq(a.parts))
               g == WordsIn(q)
               h == WordsOf(line)
    <3>1. WordsIn(part) = g \o h
      BY <1>1, WordsInTexts DEF part
    <3>2. f \in Texts /\ g \in Texts /\ h \in Texts
      BY <1>3, <1>4
    <3>3. LineWords(b) = f \o (g \o h) /\ LineWords(a) = f \o g
      BY <2>9, <3>1 DEF LineWords
    <3> HIDE DEF f, g, h
    <3>4. LineWords(b) = (f \o g) \o h
      BY <3>2, <3>3, TextsConcat
    <3> QED BY <3>3, <3>4 DEF h
  <2> QED BY <2>10, <2>11
<1> QED BY <1>5, <1>6

\* The parts of a table are good, and tell its lines below the first two (_add_table_chunk).
LEMMA PartLinesKeepWords ==
  ASSUME NEW lines \in TableLines
  PROVE  LET p == PartLines(lines)
         IN  /\ p \in Seq(GoodParts(lines))
             /\ WordsIn(TopLines(lines)) \o WordsIn(FlattenSeq(p)) = WordsIn(lines)
             /\ Len(lines) > 2 <=> p # <<>>
<1> DEFINE N == Len(lines) - 2
           A == PartStates(lines)
           step == [x \in A \X (1..N) |-> AddLine(x[1], lines[x[2] + 2], lines)]
           Solves(f) == f = [k \in 0..N |-> IF k = 0 THEN NoParts(lines)
                                            ELSE AddLine(f[k - 1], lines[k + 2], lines)]
           top == WordsIn(TopLines(lines))
<1>1. /\ N \in Nat /\ lines \in Seq(Texts) /\ Len(lines) \in Nat
      /\ \A k \in 1..N : lines[k + 2] \in Texts /\ NewlineFree(lines[k + 2])
  <2>1. lines \in Seq(Texts) /\ Len(lines) \in Nat /\ Len(lines) >= 2
        /\ \A k \in 1..Len(lines) : lines[k] \in Texts /\ NewlineFree(lines[k])
    BY LenProperties, ElementOfSeq DEF TableLines
  <2>2. \A k \in 1..N : k + 2 \in 1..Len(lines)
    BY <2>1
  <2> QED BY <2>1, <2>2
<1>2. \A a \in A, k \in 1..N :
        /\ AddLine(a, lines[k + 2], lines) \in A
        /\ AddLine(a, lines[k + 2], lines).part # <<>>
        /\ LineWords(AddLine(a, lines[k + 2], lines)) = LineWords(a) \o WordsOf(lines[k + 2])
  BY <1>1, AddLineKeepsWords
<1>3. NoParts(lines) \in A /\ LineWords(NoParts(lines)) = <<>>
  <2>1. /\ NoParts(lines).parts = <<>>
        /\ NoParts(lines).part = <<>>
        /\ NoParts(lines).size = TopSize(lines)
    BY DEF NoParts
  <2>2. <<>> \in Seq(Texts) /\ <<>> \in Seq(GoodParts(lines)) /\ <<>> \in Texts
    BY TextsConcat
  <2>3. TopSize(lines) = Len(PartText(lines, <<>>)) + 1 /\ PartText(lines, <<>>) \in Texts
    BY <2>2, TopOfTable
  <2>4. TopSize(lines) \in Nat
    BY <2>3, TextLengths
  <2>5. NoParts(lines) \in [parts : Seq(GoodParts(lines)), part : Seq(Texts), size : Nat]
    BY <2>2, <2>4 DEF NoParts
  <2>6. LineWords(NoParts(lines)) = <<>>
    BY <2>1, <2>2, FlattenNothing, WordsInTexts, TextsConcat DEF LineWords
  <2> QED BY <2>1, <2>3, <2>5, <2>6 DEF PartStates
<1>4. \A a \in A : LineWords(a) \in Texts
  <2> TAKE a \in A
  <2> DEFINE p == a.parts
             q == a.part
  <2>1. p \in Seq(GoodParts(lines)) /\ q \in Seq(Texts)
    BY DEF PartStates
  <2> HIDE DEF p, q
  <2>2. WordsIn(FlattenSeq(p)) \in Texts /\ WordsIn(q) \in Texts
    BY <2>1, PartsFlatten
  <2> QED BY <2>2, TextsConcat DEF LineWords, p, q
<1> HIDE DEF A, N
<1>5. step \in Steps(A, N)
  BY <1>2 DEF Steps
<1>6. PICK f : Iterates(f, N, A, NoParts(lines), step)
  <2> HIDE DEF step
  <2> QED BY <1>1, <1>3, <1>5, Recursion
<1>7. Solves(f)
  <2>1. ASSUME NEW k \in 1..N PROVE f[k] = AddLine(f[k - 1], lines[k + 2], lines)
    <3>1. k - 1 \in 0..N
      BY <1>1
    <3>2. <<f[k - 1], k>> \in A \X (1..N)
      BY <3>1, <1>6 DEF Iterates
    <3> QED BY <3>2, <1>6 DEF Iterates
  <2> QED BY <1>1, <1>6, <2>1 DEF Iterates
<1> DEFINE after == CHOOSE g : Solves(g)
           end == after[N]
<1>8. Solves(after)
  <2> HIDE DEF Solves
  <2> QED BY <1>7
<1>9. PartLines(lines) = IF end.part = <<>> THEN end.parts ELSE Append(end.parts, end.part)
  BY DEF PartLines, N
<1> HIDE DEF after
<1>10. after[0] = NoParts(lines)
       /\ \A k \in 1..N : after[k] = AddLine(after[k - 1], lines[k + 2], lines)
  BY <1>1, <1>8
<1> DEFINE S == {k \in 0..N : /\ after[k] \in A /\ (k > 0 => after[k].part # <<>>)
                              /\ top \o LineWords(after[k]) = WordsIn(SubSeq(lines, 1, k + 2))}
<1>11. top \in Texts
  <2>1. <<>> \in Texts
    BY TextsConcat
  <2> QED BY <2>1, TopOfTable, WordsInTexts
<1>12. 0 \in S
  <2>1. top \o LineWords(after[0]) = WordsIn(SubSeq(lines, 1, 0 + 2))
    <3>1. 0 + 2 = 2
      OBVIOUS
    <3> HIDE DEF top
    <3>2. top \o LineWords(after[0]) = top
      BY <1>3, <1>10, <1>11, TextsConcat
    <3> QED BY <3>1, <3>2 DEF top, TopLines
  <2>2. after[0] \in A /\ ~(0 > 0) /\ 0 \in 0..N
    BY <1>1, <1>3, <1>10
  <2> QED BY <2>1, <2>2
<1>13. ASSUME NEW k \in 1..N, k - 1 \in S PROVE k \in S
  <2> DEFINE was == SubSeq(lines, 1, k + 1)
             is == SubSeq(lines, 1, k + 2)
             line == lines[k + 2]
             a == after[k - 1]
  <2>1. is = Append(was, line) /\ was \in Seq(Texts) /\ line \in Texts
    <3>1. k + 2 \in 1..Len(lines) /\ (k + 2) - 1 = k + 1
      BY <1>1 DEF N
    <3>2. /\ SubSeq(lines, 1, k + 2) = Append(SubSeq(lines, 1, (k + 2) - 1), lines[k + 2])
          /\ SubSeq(lines, 1, (k + 2) - 1) \in Seq(Texts) /\ lines[k + 2] \in Texts
      BY <1>1, <3>1, PrefixStep
    <3> QED BY <3>1, <3>2
  <2>2. (k - 1) + 2 = k + 1 /\ k \in 0..N
    BY <1>1
  <2>3. a \in A /\ top \o LineWords(a) = WordsIn(was)
    BY <1>13, <2>2
  <2>4. /\ after[k] \in A /\ after[k].part # <<>>
        /\ LineWords(after[k]) = LineWords(a) \o WordsOf(line)
    BY <1>2, <1>10, <2>3
  <2> HIDE DEF was, is, line, a, top
  <2>5. WordsIn(is) = WordsIn(was) \o WordsOf(line)
    BY <2>1, WordsInTexts
  <2>6. top \o LineWords(after[k]) = WordsIn(is)
    <3> DEFINE y == LineWords(a)
               z == WordsOf(line)
    <3>1. y \in Texts /\ z \in Texts
      BY <1>4, <2>1, <2>3, WordsOfText
    <3>2. top \o LineWords(after[k]) = top \o (y \o z) /\ WordsIn(is) = (top \o y) \o z
      BY <2>3, <2>4, <2>5
    <3> HIDE DEF y, z
    <3> QED BY <1>11, <3>1, <3>2, TextsConcat
  <2> QED BY <2>2, <2>4, <2>6 DEF is
<1> HIDE DEF S
<1>14. N \in S
  <2>1. 0..N \subseteq S
    BY <1>1, <1>12, <1>13, InductionUpTo
  <2> QED BY <1>1, <2>1
<1>15. SubSeq(lines, 1, N + 2) = lines
  <2>1. N + 2 = Len(lines)
    BY <1>1 DEF N
  <2> QED BY <1>1, <2>1, SubSeqFull
<1>16. end \in A /\ (N > 0 => end.part # <<>>) /\ top \o LineWords(end) = WordsIn(lines)
  BY <1>14, <1>15 DEF S
<1>24. N = 0 => end.part = <<>> /\ end.parts = <<>>
  BY <1>10 DEF NoParts
<1> HIDE DEF end, top
<1> DEFINE p == end.parts
           q == end.part
           r == PartLines(lines)
<1>17. p \in Seq(GoodParts(lines)) /\ q \in Seq(Texts) /\ (q = <<>> \/ q \in GoodParts(lines))
  BY <1>16 DEF A, PartStates
<1>25. N = 0 => q = <<>> /\ p = <<>>
  BY <1>24
<1>18. r = IF q = <<>> THEN p ELSE Append(p, q)
  BY <1>9
<1>19. LineWords(end) = WordsIn(FlattenSeq(p)) \o WordsIn(q)
  BY DEF LineWords
<1> HIDE DEF p, q, r
<1>20. /\ WordsIn(FlattenSeq(p)) \in Texts
       /\ WordsIn(FlattenSeq(Append(p, q))) = WordsIn(FlattenSeq(p)) \o WordsIn(q)
  BY <1>17, PartsFlatten
<1>21. r \in Seq(GoodParts(lines)) /\ (N > 0 => r # <<>>)
  <2>1. CASE q = <<>>
    BY <1>16, <1>17, <1>18, <2>1 DEF q
  <2>2. CASE q # <<>>
    BY <1>17, <1>18, <2>2, AppendProperties
  <2> QED BY <2>1, <2>2
<1>22. WordsIn(FlattenSeq(r)) = LineWords(end)
  <2>1. CASE q = <<>>
    <3>1. WordsIn(q) = <<>>
      BY <2>1, WordsInTexts
    <3> QED BY <1>18, <1>19, <1>20, <2>1, <3>1, TextsConcat
  <2>2. CASE q # <<>>
    BY <1>18, <1>19, <1>20, <2>2
  <2> QED BY <2>1, <2>2
<1>23. Len(lines) > 2 <=> N > 0
  BY <1>1 DEF N
<1>26. N > 0 <=> r # <<>>
  BY <1>1, <1>18, <1>21, <1>25
<1> QED BY <1>16, <1>21, <1>22, <1>23, <1>26 DEF r, top
=============================================================================
