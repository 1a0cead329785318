---------------------------- MODULE EvidenceProofs ----------------------------
(***************************************************************************)
(* Proofs about EvidenceWorkflow for any chunks, documents, scopes and     *)
(* bounds.  First what merge_search_responses promises, as EvidenceMerge   *)
(* models it, for any result lists and any preserved documents: the order  *)
(* of the fused chunks is total, every chunk is eligible or repeats better *)
(* eligible ones, and places are given to preserved documents without      *)
(* taking another one's last.  That a recursive function exists is proved  *)
(* before its equation is used.  Then the runs: the inductive invariant    *)
(* says what a run has gathered at each stage and that its results are the *)
(* primary list or the merge of all.                                       *)
(***************************************************************************)
EXTENDS EvidenceWorkflow, DataInduction, SequenceTheorems

\* The result lists of a run.
Lists(responses) == responses \in Seq(Seq(Chunks))

-----------------------------------------------------------------------------
(* The order of the fused chunks *)

\* Min picks the least member.
LEMMA MinIsLeast ==
  ASSUME NEW S, S \subseteq Nat, S # {}
  PROVE  Min(S) \in S /\ \A n \in S : Min(S) <= n
<1>1. \E least \in S : \A n \in S : least <= n
  BY LeastMember
<1> QED BY <1>1 DEF Min

\* The common scale of the scores is a natural number: its recursive function exists.
LEMMA ScaleIsNat == Scale \in Nat
<1> DEFINE step == [x \in Nat \X (1..TopK) |-> x[1] * (RRF_K + x[2])]
           Product(f) == f = [n \in 0..TopK |-> IF n = 0 THEN 1 ELSE f[n - 1] * (RRF_K + n)]
<1>1. step \in Steps(Nat, TopK)
  <2>1. ASSUME NEW x \in Nat \X (1..TopK) PROVE x[1] * (RRF_K + x[2]) \in Nat
    <3>1. x[1] \in Nat /\ RRF_K + x[2] \in Nat
      BY MergeAssumption DEF RRF_K
    <3> QED BY <3>1
  <2> QED BY <2>1 DEF Steps
<1>2. PICK f : Iterates(f, TopK, Nat, 1, step)
  <2> HIDE DEF step
  <2> QED BY <1>1, Recursion, MergeAssumption
<1>3. Product(f)
  <2>1. ASSUME NEW n \in 1..TopK PROVE f[n] = f[n - 1] * (RRF_K + n)
    <3>1. n - 1 \in 0..TopK
      BY MergeAssumption
    <3>2. <<f[n - 1], n>> \in Nat \X (1..TopK)
      BY <3>1, <1>2 DEF Iterates
    <3> QED BY <3>2, <1>2 DEF Iterates
  <2> QED BY <1>2, <2>1, MergeAssumption DEF Iterates
<1>4. ASSUME NEW g, Product(g) PROVE g[TopK] \in Nat
  <2> DEFINE S == {n \in 0..TopK : g[n] \in Nat}
  <2>1. 0 \in S
    BY <1>4, MergeAssumption
  <2>2. ASSUME NEW n \in 1..TopK, n - 1 \in S PROVE n \in S
    <3>1. g[n] = g[n - 1] * (RRF_K + n) /\ RRF_K + n \in Nat /\ g[n - 1] \in Nat
      BY <1>4, <2>2, MergeAssumption DEF RRF_K
    <3> QED BY <3>1
  <2> HIDE DEF S
  <2>3. 0..TopK \subseteq S
    BY <2>1, <2>2, InductionUpTo, MergeAssumption
  <2> QED BY <2>3, MergeAssumption DEF S
<1> QED BY <1>3, <1>4 DEF Scale

\* A chunk has a rank in a list that names it, and a share of the score from every list.
LEMMA RankInList ==
  ASSUME NEW list \in Seq(Chunks), NEW c \in ToSet(list)
  PROVE  RankIn(c, list) \in 1..Len(list) /\ list[RankIn(c, list)] = c
<1> DEFINE S == {r \in DOMAIN list : list[r] = c}
<1>1. S # {} /\ S \subseteq Nat
  BY DEF ToSet
<1>2. RankIn(c, list) \in S
  BY <1>1, MinIsLeast DEF RankIn
<1> QED BY <1>2

\* A list gives a chunk a natural share of its score.
LEMMA ShareIsNat ==
  ASSUME NEW list \in Seq(Chunks), NEW c
  PROVE  Share(c, list) \in Nat
<1>1. CASE c \in ToSet(list)
  <2>1. RRF_K + RankIn(c, list) \in Nat \ {0}
    BY <1>1, RankInList DEF RRF_K
  <2>2. Scale \div (RRF_K + RankIn(c, list)) \in Nat
    BY <2>1, ScaleIsNat
  <2> QED BY <2>2, <1>1 DEF Share
<1>2. CASE c \notin ToSet(list)
  BY <1>2 DEF Share
<1> QED BY <1>1, <1>2

\* The score of a chunk is the sum of its shares.
LEMMA ScoreIsSum ==
  ASSUME NEW responses, Lists(responses), NEW c
  PROVE  /\ Score(c, responses) \in Nat
         /\ Len(responses) = 2 =>
              Score(c, responses) = Share(c, responses[1]) + Share(c, responses[2])
<1> DEFINE N == Len(responses)
           step == [x \in Nat \X (1..N) |-> x[1] + Share(c, responses[x[2]])]
           Sum(f) == f = [q \in 0..N |-> IF q = 0 THEN 0 ELSE f[q - 1] + Share(c, responses[q])]
<1>1. N \in Nat /\ \A q \in 1..N : Share(c, responses[q]) \in Nat
  BY ShareIsNat DEF Lists
<1>2. step \in Steps(Nat, N)
  BY <1>1 DEF Steps
<1>3. PICK f : Iterates(f, N, Nat, 0, step)
  <2> HIDE DEF step, N
  <2> QED BY <1>1, <1>2, Recursion
<1>4. Sum(f)
  <2>1. ASSUME NEW q \in 1..N PROVE f[q] = f[q - 1] + Share(c, responses[q])
    <3>1. q - 1 \in 0..N
      BY <1>1
    <3>2. <<f[q - 1], q>> \in Nat \X (1..N)
      BY <3>1, <1>3 DEF Iterates
    <3> QED BY <3>2, <1>3 DEF Iterates
  <2> QED BY <1>3, <2>1, <1>1 DEF Iterates
<1>5. ASSUME NEW g, Sum(g)
      PROVE  g[N] \in Nat /\ (N = 2 => g[N] = Share(c, responses[1]) + Share(c, responses[2]))
  <2> DEFINE S == {q \in 0..N : g[q] \in Nat}
  <2>1. 0 \in S
    BY <1>5, <1>1
  <2>2. ASSUME NEW q \in 1..N, q - 1 \in S PROVE q \in S
    <3>1. g[q] = g[q - 1] + Share(c, responses[q])
      BY <1>5, <1>1
    <3> QED BY <3>1, <2>2, <1>1
  <2> HIDE DEF S
  <2>3. 0..N \subseteq S
    BY <2>1, <2>2, InductionUpTo, <1>1
  <2>4. g[N] \in Nat
    BY <2>3, <1>1 DEF S
  <2>5. ASSUME N = 2 PROVE g[2] = Share(c, responses[1]) + Share(c, responses[2])
    <3>1. g[0] = 0 /\ g[1] = g[0] + Share(c, responses[1]) /\ g[2] = g[1] + Share(c, responses[2])
      BY <1>5, <2>5
    <3> QED BY <3>1, <1>1, <2>5
  <2> QED BY <2>4, <2>5
<1> QED BY <1>4, <1>5 DEF Score

\* What a sort key is.
Keys == Int \X Int \X Int \X Nat

\* The sort key of a retrieved chunk is four numbers, the last of them the chunk.
LEMMA KeyOfChunk ==
  ASSUME NEW responses, Lists(responses), NEW c \in Retrieved(responses)
  PROVE  /\ c \in Nat
         /\ SortKey(c, responses) \in Keys
         /\ SortKey(c, responses)[4] = c
<1>1. /\ QueriesOf(c, responses) # {}
      /\ QueriesOf(c, responses) \subseteq 1..Len(responses)
      /\ \A q \in 1..Len(responses) : responses[q] \in Seq(Chunks)
  BY DEF Retrieved, QueriesOf, Lists
<1>2. c \in Nat
  <2>1. PICK q \in 1..Len(responses) : c \in ToSet(responses[q])
    BY <1>1 DEF QueriesOf
  <2>2. ToSet(responses[q]) \subseteq Chunks
    BY <1>1 DEF ToSet
  <2> QED BY <2>1, <2>2, MergeAssumption
<1>3. FirstQuery(c, responses) \in Nat
  <2>1. QueriesOf(c, responses) \subseteq Nat
    BY <1>1
  <2> QED BY <1>1, <2>1, MinIsLeast DEF FirstQuery
<1>4. BestRank(c, responses) \in Nat
  <2> DEFINE ranks == {RankIn(c, responses[q]) : q \in QueriesOf(c, responses)}
  <2>1. ASSUME NEW q \in QueriesOf(c, responses) PROVE RankIn(c, responses[q]) \in Nat
    <3>1. responses[q] \in Seq(Chunks) /\ c \in ToSet(responses[q])
      BY <1>1 DEF QueriesOf
    <3>2. RankIn(c, responses[q]) \in 1..Len(responses[q])
      BY <3>1, RankInList
    <3> QED BY <3>2
  <2>2. ranks \subseteq Nat /\ ranks # {}
    BY <1>1, <2>1
  <2> HIDE DEF ranks
  <2>3. Min(ranks) \in Nat
    BY <2>2, MinIsLeast
  <2> QED BY <2>3 DEF BestRank, ranks
<1>5. -Score(c, responses) \in Int
  BY ScoreIsSum
<1> QED BY <1>2, <1>3, <1>4, <1>5 DEF SortKey, Keys

\* What Precedes says of keys.
LEMMA PrecedesIsLexical ==
  ASSUME NEW k \in Keys, NEW l \in Keys
  PROVE  Precedes(k, l) <=>
           \/ k[1] < l[1]
           \/ k[1] = l[1] /\ k[2] < l[2]
           \/ k[1] = l[1] /\ k[2] = l[2] /\ k[3] < l[3]
           \/ k[1] = l[1] /\ k[2] = l[2] /\ k[3] = l[3] /\ k[4] < l[4]
<1>1. DOMAIN k = 1..4
  BY DEF Keys
<1>2. ASSUME Precedes(k, l)
      PROVE  \/ k[1] < l[1]
             \/ k[1] = l[1] /\ k[2] < l[2]
             \/ k[1] = l[1] /\ k[2] = l[2] /\ k[3] < l[3]
             \/ k[1] = l[1] /\ k[2] = l[2] /\ k[3] = l[3] /\ k[4] < l[4]
  <2>1. PICK i \in 1..4 : k[i] < l[i] /\ \A j \in 1..(i - 1) : k[j] = l[j]
    BY <1>1, <1>2 DEF Precedes
  <2>2. i = 1 \/ i = 2 \/ i = 3 \/ i = 4
    OBVIOUS
  <2> QED BY <2>1, <2>2
<1>3. ASSUME NEW i \in 1..4, k[i] < l[i], \A j \in 1..(i - 1) : k[j] = l[j]
      PROVE  Precedes(k, l)
  BY <1>1, <1>3 DEF Precedes
<1> QED BY <1>2, <1>3

\* Precedes, as a set of pairs of keys.
KeyOrder(K) == {pair \in K \X K : Precedes(pair[1], pair[2])}

\* Precedes is a strict total order of any set of keys.
LEMMA KeysOrdered ==
  ASSUME NEW K \in SUBSET Keys
  PROVE  StrictOrder(KeyOrder(K), K)
<1>1. \A k, l \in K : <<k, l>> \in KeyOrder(K) <=> Precedes(k, l)
  BY DEF KeyOrder
<1>2. ASSUME NEW k \in K PROVE ~Precedes(k, k)
  BY PrecedesIsLexical DEF Keys
<1>3. ASSUME NEW k \in K, NEW l \in K, k # l PROVE Precedes(k, l) \/ Precedes(l, k)
  <2>1. k[1] # l[1] \/ k[2] # l[2] \/ k[3] # l[3] \/ k[4] # l[4]
    BY <1>3 DEF Keys
  <2>2. k[1] \in Int /\ k[2] \in Int /\ k[3] \in Int /\ k[4] \in Int
        /\ l[1] \in Int /\ l[2] \in Int /\ l[3] \in Int /\ l[4] \in Int
    BY DEF Keys
  <2> QED BY <2>1, <2>2, PrecedesIsLexical
<1>4. ASSUME NEW k \in K, NEW l \in K, NEW m \in K, Precedes(k, l), Precedes(l, m)
      PROVE  Precedes(k, m)
  <2>2. k[1] \in Int /\ k[2] \in Int /\ k[3] \in Int /\ k[4] \in Int
        /\ l[1] \in Int /\ l[2] \in Int /\ l[3] \in Int /\ l[4] \in Int
        /\ m[1] \in Int /\ m[2] \in Int /\ m[3] \in Int /\ m[4] \in Int
    BY DEF Keys
  <2> QED BY <1>4, <2>2, PrecedesIsLexical
<1> QED BY <1>1, <1>2, <1>3, <1>4 DEF StrictOrder

\* Ranked is the list of the keys in their order.
LEMMA RankedInOrder ==
  ASSUME NEW K \in SUBSET Keys, IsFiniteSet(K)
  PROVE  /\ Cardinality(K) \in Nat
         /\ Ranked(K) \in [1..Cardinality(K) -> K]
         /\ \A k \in K : \E i \in 1..Cardinality(K) : Ranked(K)[i] = k
         /\ \A i, j \in 1..Cardinality(K) : i < j <=> Precedes(Ranked(K)[i], Ranked(K)[j])
<1> DEFINE N == Cardinality(K)
           place(k) == Cardinality({l \in K : Precedes(l, k)})
<1>1. StrictOrder(KeyOrder(K), K)
  BY KeysOrdered
<1>2. ASSUME NEW k \in K PROVE Cardinality(Below(KeyOrder(K), K, k)) = place(k)
  <2>1. Below(KeyOrder(K), K, k) = {l \in K : Precedes(l, k)}
    BY DEF Below, KeyOrder
  <2> QED BY <2>1
<1>3. N \in Nat
  BY FS_CardinalityType
<1>4. Ranked(K) = [i \in 1..N |-> CHOOSE k \in K : place(k) = i - 1]
  BY DEF Ranked
<1> HIDE DEF place
<1>5. ASSUME NEW k \in K PROVE place(k) \in 0..(N - 1)
  BY <1>1, <1>2, EveryRankTaken
<1>6. ASSUME NEW k \in K, NEW l \in K PROVE place(k) < place(l) <=> Precedes(k, l)
  <2>1. <<k, l>> \in KeyOrder(K) <=> Precedes(k, l)
    BY DEF KeyOrder
  <2> QED BY <1>1, <1>2, <2>1, EveryRankTaken
<1>7. ASSUME NEW i \in 1..N PROVE \E k \in K : place(k) = i - 1
  BY <1>1, <1>2, EveryRankTaken
<1> HIDE DEF N
<1>8. ASSUME NEW i \in 1..N PROVE Ranked(K)[i] \in K /\ place(Ranked(K)[i]) = i - 1
  BY <1>7, <1>4
<1>9. Ranked(K) \in [1..N -> K]
  BY <1>8, <1>4
<1>10. ASSUME NEW i \in 1..N, NEW j \in 1..N
       PROVE  i < j <=> Precedes(Ranked(K)[i], Ranked(K)[j])
  BY <1>8, <1>6, <1>3
<1>11. ASSUME NEW k \in K PROVE \E i \in 1..N : Ranked(K)[i] = k
  <2>1. place(k) + 1 \in 1..N
    BY <1>5, <1>3
  <2>2. place(Ranked(K)[place(k) + 1]) = place(k) /\ Ranked(K)[place(k) + 1] \in K
    BY <2>1, <1>8, <1>5
  <2>3. ASSUME NEW l \in K, place(l) = place(k) PROVE l = k
    <3>1. ~Precedes(l, k) /\ ~Precedes(k, l)
      BY <2>3, <1>6, <1>5
    <3> QED BY <3>1, <1>1 DEF StrictOrder, KeyOrder
  <2> QED BY <2>1, <2>2, <2>3
<1> QED BY <1>3, <1>9, <1>10, <1>11 DEF N

\* A chunk that the fusion puts before another one.
Better(c, d, responses) == Precedes(SortKey(c, responses), SortKey(d, responses))

\* Of two retrieved chunks one is better, so that the code's sort has one result.
LEMMA BetterIsOrder ==
  ASSUME NEW responses, Lists(responses)
  PROVE  /\ \A c \in Retrieved(responses) : ~Better(c, c, responses)
         /\ \A c, d \in Retrieved(responses) :
              c # d => Better(c, d, responses) \/ Better(d, c, responses)
         /\ \A c, d, e \in Retrieved(responses) :
              Better(c, d, responses) /\ Better(d, e, responses) => Better(c, e, responses)
<1> DEFINE K == {SortKey(c, responses) : c \in Retrieved(responses)}
<1>1. K \subseteq Keys
  BY KeyOfChunk
<1>2. StrictOrder(KeyOrder(K), K)
  BY <1>1, KeysOrdered
<1>3. ASSUME NEW c \in Retrieved(responses), NEW d \in Retrieved(responses)
      PROVE  /\ <<SortKey(c, responses), SortKey(d, responses)>> \in KeyOrder(K)
                  <=> Better(c, d, responses)
             /\ SortKey(c, responses) \in K
             /\ c # d => SortKey(c, responses) # SortKey(d, responses)
  <2>1. c # d => SortKey(c, responses) # SortKey(d, responses)
    BY KeyOfChunk
  <2> QED BY <2>1 DEF KeyOrder, Better
<1> HIDE DEF K
<1> QED BY <1>2, <1>3 DEF StrictOrder

\* A list holds each member of S once, better ones first.
ListOf(list, S, responses) ==
  /\ list \in [1..Cardinality(S) -> S]
  /\ \A c \in S : \E i \in 1..Cardinality(S) : list[i] = c
  /\ \A i, j \in 1..Cardinality(S) : i < j <=> Better(list[i], list[j], responses)

\* InOrder lists the chunks of S, each once and better ones first.
LEMMA InOrderLists ==
  ASSUME NEW responses, Lists(responses),
         NEW S \in SUBSET Retrieved(responses), IsFiniteSet(S)
  PROVE  /\ Cardinality(S) \in Nat
         /\ ListOf(InOrder(S, responses), S, responses)
<1> DEFINE K == {SortKey(c, responses) : c \in S}
           key == [c \in S |-> SortKey(c, responses)]
<1>1. K \in SUBSET Keys
  BY KeyOfChunk
<1>2. \A c \in S : SortKey(c, responses)[4] = c
  BY KeyOfChunk
<1>3. key \in Bijection(S, K)
  BY <1>2 DEF Bijection, Injection, Surjection, IsInjective
<1>4. ExistsBijection(S, K)
  BY <1>3 DEF ExistsBijection
<1>5. IsFiniteSet(K) /\ Cardinality(K) = Cardinality(S)
  BY <1>4, FS_Bijection
<1> DEFINE N == Cardinality(S)
           ranked == Ranked(K)
<1>6. /\ N \in Nat
      /\ ranked \in [1..N -> K]
      /\ \A k \in K : \E i \in 1..N : ranked[i] = k
      /\ \A i, j \in 1..N : i < j <=> Precedes(ranked[i], ranked[j])
  BY <1>1, <1>5, RankedInOrder
<1>7. InOrder(S, responses) = [i \in 1..N |-> ranked[i][4]]
  BY <1>6 DEF InOrder
<1> HIDE DEF ranked, N
<1>8. ASSUME NEW i \in 1..N
      PROVE  InOrder(S, responses)[i] \in S
             /\ SortKey(InOrder(S, responses)[i], responses) = ranked[i]
  <2>1. PICK c \in S : ranked[i] = SortKey(c, responses)
    BY <1>6
  <2> QED BY <2>1, <1>2, <1>7
<1>9. InOrder(S, responses) \in [1..N -> S]
  BY <1>7, <1>8
<1>10. ASSUME NEW c \in S PROVE \E i \in 1..N : InOrder(S, responses)[i] = c
  <2>1. PICK i \in 1..N : ranked[i] = SortKey(c, responses)
    BY <1>6
  <2> QED BY <2>1, <1>2, <1>7
<1>11. ASSUME NEW i \in 1..N, NEW j \in 1..N
       PROVE  i < j <=> Better(InOrder(S, responses)[i], InOrder(S, responses)[j], responses)
  BY <1>6, <1>8 DEF Better
<1> QED BY <1>6, <1>9, <1>10, <1>11 DEF ListOf, N

\* What was retrieved is finitely many chunks.
LEMMA RetrievedFinite ==
  ASSUME NEW responses, Lists(responses)
  PROVE  /\ IsFiniteSet(Retrieved(responses))
         /\ Retrieved(responses) \subseteq Chunks
<1>1. ASSUME NEW list \in Seq(Chunks)
      PROVE  IsFiniteSet(ToSet(list)) /\ ToSet(list) \subseteq Chunks
  <2>1. list \in Surjection(1..Len(list), ToSet(list))
    BY DEF Surjection, ToSet
  <2>2. IsFiniteSet(1..Len(list))
    BY FS_Interval
  <2> QED BY <2>1, <2>2, FS_Surjection DEF ToSet
<1> DEFINE sets == {ToSet(responses[q]) : q \in DOMAIN responses}
           set == [q \in 1..Len(responses) |-> ToSet(responses[q])]
<1>2. Len(responses) \in Nat /\ DOMAIN responses = 1..Len(responses)
      /\ \A q \in 1..Len(responses) : responses[q] \in Seq(Chunks)
  BY DEF Lists
<1>3. set \in Surjection(1..Len(responses), sets)
  BY <1>2 DEF Surjection
<1>4. IsFiniteSet(1..Len(responses))
  BY <1>2, FS_Interval
<1>5. IsFiniteSet(sets)
  BY <1>3, <1>4, FS_Surjection
<1>6. \A T \in sets : IsFiniteSet(T) /\ T \subseteq Chunks
  BY <1>1, <1>2
<1> HIDE DEF sets
<1>7. IsFiniteSet(UNION sets) /\ UNION sets \subseteq Chunks
  BY <1>5, <1>6, FS_UNION
<1> QED BY <1>7 DEF Retrieved, sets

-----------------------------------------------------------------------------
(* Duplicates among the fused chunks *)

\* Better ones first.
Sorted(list, responses) ==
  \A i, j \in 1..Len(list) : i < j => Better(list[i], list[j], responses)
BetterOnes(list, c, responses) == {x \in ToSet(list) : Better(x, c, responses)}

\* A chunk is in the list, or repeats better ones that are.
Shown(c, list, responses, strategy) ==
  \/ c \in ToSet(list)
  \/ Redundant(BetterOnes(list, c, responses), c, strategy)

\* Fusion lists all that was retrieved.
LEMMA FusedLists ==
  ASSUME NEW responses, Lists(responses)
  PROVE  /\ Fused(responses) \in Seq(Retrieved(responses))
         /\ ToSet(Fused(responses)) = Retrieved(responses)
         /\ \A i, j \in 1..Len(Fused(responses)) :
              i < j <=> Better(Fused(responses)[i], Fused(responses)[j], responses)
<1> DEFINE S == Retrieved(responses)
           N == Cardinality(S)
           fused == Fused(responses)
<1>1. N \in Nat /\ ListOf(fused, S, responses)
  BY RetrievedFinite, InOrderLists DEF Fused
<1> HIDE DEF fused, S, N
<1>2. fused \in [1..N -> S] /\ N \in Nat
  BY <1>1 DEF ListOf, N
<1>3. fused \in Seq(S) /\ Len(fused) = N
  BY <1>2
<1>4. ToSet(fused) = S
  BY <1>1, <1>2 DEF ListOf, ToSet, N
<1> QED BY <1>1, <1>3, <1>4 DEF ListOf, fused, S, N

\* The next fused chunk is kept, or repeats better ones that are.
LEMMA KeepNewShows ==
  ASSUME NEW responses, Lists(responses), NEW strategy,
         NEW kept \in Seq(Retrieved(responses)), Sorted(kept, responses),
         NEW c \in Retrieved(responses), \A x \in ToSet(kept) : Better(x, c, responses)
  PROVE  /\ KeepNew(kept, c, strategy) \in Seq(Retrieved(responses))
         /\ Sorted(KeepNew(kept, c, strategy), responses)
         /\ ToSet(KeepNew(kept, c, strategy)) \subseteq ToSet(kept) \cup {c}
         /\ Shown(c, KeepNew(kept, c, strategy), responses, strategy)
         /\ \A d \in Retrieved(responses) :
              Better(d, c, responses) /\ Shown(d, kept, responses, strategy)
                => Shown(d, KeepNew(kept, c, strategy), responses, strategy)
<1> DEFINE after == KeepNew(kept, c, strategy)
<1>1. CASE Redundant(ToSet(kept), c, strategy)
  <2>1. after = kept
    BY <1>1 DEF KeepNew
  <2>2. BetterOnes(kept, c, responses) = ToSet(kept)
    BY DEF BetterOnes
  <2> QED BY <1>1, <2>1, <2>2 DEF Shown
<1>2. CASE ~Redundant(ToSet(kept), c, strategy)
  <2>1. after = Append(kept, c)
    BY <1>2 DEF KeepNew
  <2>2. /\ after \in Seq(Retrieved(responses))
        /\ Len(after) = Len(kept) + 1
        /\ \A i \in 1..Len(kept) : after[i] = kept[i]
        /\ after[Len(kept) + 1] = c
        /\ Len(kept) \in Nat
    BY <2>1
  <2> HIDE DEF after
  <2>3. ToSet(after) = ToSet(kept) \cup {c}
    <3>1. DOMAIN after = 1..(Len(kept) + 1) /\ DOMAIN kept = 1..Len(kept)
      BY <2>2
    <3> QED BY <2>2, <3>1 DEF ToSet
  <2>4. ASSUME NEW i \in 1..Len(after), NEW j \in 1..Len(after), i < j
        PROVE  Better(after[i], after[j], responses)
    <3>1. CASE j \in 1..Len(kept)
      BY <2>2, <2>4, <3>1 DEF Sorted
    <3>2. CASE j = Len(kept) + 1
      <4>1. i \in 1..Len(kept) /\ after[i] = kept[i] /\ after[j] = c
        BY <2>2, <2>4, <3>2
      <4>2. kept[i] \in ToSet(kept)
        BY <4>1 DEF ToSet
      <4> QED BY <4>1, <4>2
    <3> QED BY <2>2, <3>1, <3>2
  <2>5. ASSUME NEW d \in Retrieved(responses), Better(d, c, responses)
        PROVE  BetterOnes(after, d, responses) = BetterOnes(kept, d, responses)
    <3>1. ~Better(c, d, responses)
      BY <2>5, BetterIsOrder
    <3> QED BY <3>1, <2>3 DEF BetterOnes
  <2>6. \A d \in Retrieved(responses) :
          Better(d, c, responses) /\ Shown(d, kept, responses, strategy)
            => Shown(d, after, responses, strategy)
    BY <2>3, <2>5 DEF Shown
  <2>7. Sorted(after, responses) /\ Shown(c, after, responses, strategy)
    BY <2>3, <2>4 DEF Sorted, Shown
  <2> QED BY <2>2, <2>3, <2>6, <2>7 DEF after
<1> QED BY <1>1, <1>2

\* Every retrieved chunk is eligible or repeats better eligible ones.
LEMMA EligibleShowsAll ==
  ASSUME NEW responses, Lists(responses), NEW strategy
  PROVE  /\ Eligible(responses, strategy) \in Seq(Retrieved(responses))
         /\ Sorted(Eligible(responses, strategy), responses)
         /\ \A c \in Retrieved(responses) :
              Shown(c, Eligible(responses, strategy), responses, strategy)
<1> DEFINE fused == Fused(responses)
           N == Len(fused)
           A == Seq(Retrieved(responses))
           step == [x \in A \X (1..N) |-> KeepNew(x[1], fused[x[2]], strategy)]
           Kept(f) == f = [n \in 0..N |-> IF n = 0 THEN <<>>
                                          ELSE KeepNew(f[n - 1], fused[n], strategy)]
<1>1. /\ N \in Nat /\ fused \in A
      /\ \A n \in 1..N : fused[n] \in Retrieved(responses)
      /\ \A i, j \in 1..N : i < j <=> Better(fused[i], fused[j], responses)
      /\ ToSet(fused) = Retrieved(responses)
  BY FusedLists
<1> HIDE DEF fused, N
<1>2. step \in Steps(A, N)
  <2>1. ASSUME NEW kept \in A, NEW c \in Retrieved(responses)
        PROVE  KeepNew(kept, c, strategy) \in A
    BY DEF KeepNew
  <2> HIDE DEF A
  <2> QED BY <1>1, <2>1 DEF Steps
<1>3. PICK f : Iterates(f, N, A, <<>>, step)
  <2>1. <<>> \in A
    OBVIOUS
  <2> HIDE DEF step, A
  <2> QED BY <1>1, <1>2, <2>1, Recursion
<1>4. Kept(f)
  <2> HIDE DEF A
  <2>1. ASSUME NEW n \in 1..N PROVE f[n] = KeepNew(f[n - 1], fused[n], strategy)
    <3>1. n - 1 \in 0..N
      BY <1>1
    <3>2. <<f[n - 1], n>> \in A \X (1..N)
      BY <3>1, <1>3 DEF Iterates
    <3> QED BY <3>2, <1>3 DEF Iterates
  <2> QED BY <1>3, <2>1, <1>1 DEF Iterates
<1>5. ASSUME NEW g, Kept(g)
      PROVE  /\ g[N] \in A /\ Sorted(g[N], responses)
             /\ \A m \in 1..N : Shown(fused[m], g[N], responses, strategy)
  <2> DEFINE S == {n \in 0..N :
                     /\ g[n] \in A /\ Sorted(g[n], responses)
                     /\ \A m \in 1..n : Shown(fused[m], g[n], responses, strategy)
                     /\ ToSet(g[n]) \subseteq {fused[m] : m \in 1..n}}
  <2>1. 0 \in S
    <3>1. g[0] = <<>> /\ 0 \in 0..N
      BY <1>5, <1>1
    <3>2. ToSet(<<>>) = {} /\ Sorted(<<>>, responses) /\ <<>> \in A
      BY DEF ToSet, Sorted
    <3> HIDE DEF A
    <3> QED BY <3>1, <3>2
  <2>2. ASSUME NEW n \in 1..N, n - 1 \in S PROVE n \in S
    <3>1. g[n] = KeepNew(g[n - 1], fused[n], strategy)
      BY <1>5, <1>1
    <3>2. /\ g[n - 1] \in A /\ Sorted(g[n - 1], responses)
          /\ \A m \in 1..(n - 1) : Shown(fused[m], g[n - 1], responses, strategy)
          /\ ToSet(g[n - 1]) \subseteq {fused[m] : m \in 1..(n - 1)}
      BY <2>2
    <3>3. \A m \in 1..(n - 1) : Better(fused[m], fused[n], responses)
                                /\ fused[m] \in Retrieved(responses)
      BY <1>1
    <3>4. \A x \in ToSet(g[n - 1]) : Better(x, fused[n], responses)
      BY <3>2, <3>3
    <3>5. fused[n] \in Retrieved(responses)
      BY <1>1
    <3> DEFINE before == g[n - 1]
               after == KeepNew(before, fused[n], strategy)
    <3>9. /\ before \in A /\ Sorted(before, responses)
          /\ \A x \in ToSet(before) : Better(x, fused[n], responses)
      BY <3>2, <3>4
    <3> HIDE DEF before
    <3>10. /\ after \in A /\ Sorted(after, responses)
           /\ ToSet(after) \subseteq ToSet(before) \cup {fused[n]}
           /\ Shown(fused[n], after, responses, strategy)
           /\ \A d \in Retrieved(responses) :
                Better(d, fused[n], responses) /\ Shown(d, before, responses, strategy)
                  => Shown(d, after, responses, strategy)
      BY <3>5, <3>9, KeepNewShows
    <3>6. /\ g[n] \in A /\ Sorted(g[n], responses)
          /\ ToSet(g[n]) \subseteq ToSet(g[n - 1]) \cup {fused[n]}
          /\ Shown(fused[n], g[n], responses, strategy)
          /\ \A d \in Retrieved(responses) :
               Better(d, fused[n], responses) /\ Shown(d, g[n - 1], responses, strategy)
                 => Shown(d, g[n], responses, strategy)
      BY <3>1, <3>10 DEF before
    <3>7. \A m \in 1..n : Shown(fused[m], g[n], responses, strategy)
      <4>1. \A m \in 1..n : m = n \/ m \in 1..(n - 1)
        BY <1>1
      <4> QED BY <4>1, <3>2, <3>3, <3>6
    <3>8. ToSet(g[n]) \subseteq {fused[m] : m \in 1..n}
      <4>1. {fused[m] : m \in 1..(n - 1)} \cup {fused[n]} \subseteq {fused[m] : m \in 1..n}
        BY <1>1
      <4> QED BY <4>1, <3>2, <3>6
    <3> HIDE DEF A
    <3> QED BY <3>6, <3>7, <3>8, <1>1
  <2> HIDE DEF S
  <2>3. 0..N \subseteq S
    BY <2>1, <2>2, InductionUpTo, <1>1
  <2>4. N \in S
    BY <2>3, <1>1
  <2> HIDE DEF A
  <2> QED BY <2>4 DEF S
<1>6. /\ Eligible(responses, strategy) \in A
      /\ Sorted(Eligible(responses, strategy), responses)
      /\ \A m \in 1..N : Shown(fused[m], Eligible(responses, strategy), responses, strategy)
  <2> HIDE DEF A
  <2> QED BY <1>4, <1>5 DEF Eligible, fused, N
<1>7. \A c \in Retrieved(responses) : \E m \in 1..N : fused[m] = c
  BY <1>1 DEF ToSet, N
<1> QED BY <1>6, <1>7

-----------------------------------------------------------------------------
(* Places *)

\* The document has a place.
Represents(list, d) == \E i \in 1..Len(list) : DocOf[list[i]] = d

\* CountOf tells a document with no place, with one, and with more.
LEMMA CountsPlaces ==
  ASSUME NEW list, DOMAIN list = 1..Len(list), Len(list) \in Nat, NEW d
  PROVE  /\ CountOf(list, d) \in Nat
         /\ CountOf(list, d) > 0 <=> Represents(list, d)
         /\ \A i, j \in 1..Len(list) :
              i # j /\ DocOf[list[i]] = d /\ DocOf[list[j]] = d => CountOf(list, d) > 1
         /\ \A i \in 1..Len(list) :
              CountOf(list, d) > 1 => \E j \in 1..Len(list) : j # i /\ DocOf[list[j]] = d
<1> DEFINE places == {i \in DOMAIN list : DocOf[list[i]] = d}
<1>1. IsFiniteSet(1..Len(list)) /\ places \in SUBSET (1..Len(list))
  BY FS_Interval
<1>2. IsFiniteSet(places) /\ Cardinality(places) \in Nat
  BY <1>1, FS_Subset, FS_CardinalityType
<1>3. Cardinality(places) = 0 <=> places = {}
  BY <1>2, FS_EmptySet
<1>4. ASSUME NEW i \in places, NEW j \in places, i # j PROVE Cardinality(places) > 1
  <2>1. Cardinality(places \ {i}) = Cardinality(places) - 1 /\ IsFiniteSet(places \ {i})
    BY <1>2, FS_RemoveElement
  <2>2. Cardinality(places \ {i}) # 0 /\ Cardinality(places \ {i}) \in Nat
    BY <2>1, <1>4, FS_EmptySet, FS_CardinalityType
  <2> QED BY <2>1, <2>2, <1>2
<1>5. ASSUME NEW i \in 1..Len(list), Cardinality(places) > 1
      PROVE  \E j \in places : j # i
  <2> SUFFICES ASSUME places \subseteq {i} PROVE FALSE
    OBVIOUS
  <2>1. IsFiniteSet({i}) /\ Cardinality({i}) = 1
    BY FS_Singleton
  <2>2. Cardinality(places) <= 1
    BY <2>1, FS_Subset
  <2> QED BY <2>2, <1>2, <1>5
<1>6. CountOf(list, d) = Cardinality(places)
  BY DEF CountOf
<1>7. \A i : i \in places <=> i \in 1..Len(list) /\ DocOf[list[i]] = d
  OBVIOUS
<1> HIDE DEF places
<1> QED BY <1>2, <1>3, <1>4, <1>5, <1>6, <1>7 DEF Represents

\* What giving c a place in the list may do.
PlaceGiven(list, after, R, c, preserve) ==
  /\ after \in Seq(R) /\ Len(after) = Len(list) /\ IsInjective(after)
  /\ ToSet(after) \subseteq ToSet(list) \cup {c}
  /\ Represents(list, DocOf[c]) => after = list
  /\ \A d \in preserve : Represents(list, d) => Represents(after, d)
  /\ \A i \in 1..Len(list) :
       /\ after[i] = list[i] \/ DocOf[after[i]] \in preserve
       /\ after[i] # list[i] => \A j \in (i + 1)..Len(list) : DocOf[after[j]] \in preserve
  /\ DocOf[c] \in preserve =>
       Represents(after, DocOf[c]) \/ Replaceable(list, preserve) = {}

\* One place changes hands: nobody's last place is lost, and from it on all places are of
\* preserved documents.
LEMMA GivePlaceKeeps ==
  ASSUME NEW R, NEW list \in Seq(R), IsInjective(list), NEW c \in R, NEW preserve
  PROVE  PlaceGiven(list, GivePlace(list, c, preserve), R, c, preserve)
<1> DEFINE after == GivePlace(list, c, preserve)
           N == Len(list)
<1>1. N \in Nat /\ DOMAIN list = 1..N /\ \A i \in 1..N : list[i] \in R
  OBVIOUS
<1>2. CASE \/ DocOf[c] \notin preserve \/ CountOf(list, DocOf[c]) > 0
           \/ Replaceable(list, preserve) = {}
  <2>1. after = list
    BY <1>2 DEF GivePlace
  <2>2. DocOf[c] \in preserve => Represents(list, DocOf[c]) \/ Replaceable(list, preserve) = {}
    BY <1>1, <1>2, CountsPlaces
  <2>3. \A i \in 1..N : list[i] = list[i]
    OBVIOUS
  <2> QED BY <2>1, <2>2, <2>3 DEF PlaceGiven
<1>3. CASE /\ DocOf[c] \in preserve /\ ~(CountOf(list, DocOf[c]) > 0)
           /\ Replaceable(list, preserve) # {}
  <2> DEFINE m == Max(Replaceable(list, preserve))
  <2>1. after = [list EXCEPT ![m] = c]
    BY <1>3 DEF GivePlace
  <2>2. m \in Replaceable(list, preserve) /\ \A i \in Replaceable(list, preserve) : i <= m
    <3>1. Replaceable(list, preserve) \subseteq 0..N
      BY <1>1 DEF Replaceable
    <3>2. \E greatest \in Replaceable(list, preserve) :
            \A i \in Replaceable(list, preserve) : i <= greatest
      BY <1>1, <1>3, <3>1, GreatestMember
    <3>3. \A i \in Replaceable(list, preserve) : i \in Int
      BY <3>1
    <3> QED BY <3>2, <3>3 DEF Max
  <2> HIDE DEF m, after
  <2>3. /\ m \in 1..N
        /\ CountOf(list, DocOf[list[m]]) > 1 \/ DocOf[list[m]] \notin preserve
        /\ \A i \in 1..N : i > m => DocOf[list[i]] \in preserve
    BY <1>1, <2>2 DEF Replaceable
  <2>4. /\ after \in Seq(R) /\ Len(after) = N
        /\ after[m] = c
        /\ \A i \in 1..N : i # m => after[i] = list[i]
        /\ DOMAIN after = 1..N
    BY <1>1, <2>1, <2>3
  <2>5. ~Represents(list, DocOf[c])
    BY <1>1, <1>3, CountsPlaces
  <2>6. c \notin ToSet(list)
    BY <2>5, <1>1 DEF Represents, ToSet
  <2>7. IsInjective(after)
    <3>1. ASSUME NEW i \in 1..N, NEW j \in 1..N, after[i] = after[j] PROVE i = j
      <4>1. \A k \in 1..N : list[k] # c
        BY <2>6, <1>1 DEF ToSet
      <4> QED BY <3>1, <4>1, <2>4, <1>1 DEF IsInjective
    <3> QED BY <3>1, <2>4 DEF IsInjective
  <2>8. ToSet(after) \subseteq ToSet(list) \cup {c}
    BY <2>4, <1>1 DEF ToSet
  <2>9. ASSUME NEW d \in preserve, Represents(list, d) PROVE Represents(after, d)
    <3>1. PICK i \in 1..N : DocOf[list[i]] = d
      BY <2>9 DEF Represents
    <3>2. \E j \in 1..N : j # m /\ DocOf[list[j]] = d
      <4>1. CASE i # m
        BY <4>1, <3>1
      <4>2. CASE i = m
        <5>1. CountOf(list, d) > 1
          BY <4>2, <3>1, <2>3
        <5> QED BY <5>1, <1>1, <2>3, CountsPlaces
      <4> QED BY <4>1, <4>2
    <3> QED BY <3>2, <2>4 DEF Represents
  <2>10. Represents(after, DocOf[c])
    BY <2>3, <2>4 DEF Represents
  <2>11. ASSUME NEW i \in 1..N
         PROVE  /\ after[i] = list[i] \/ DocOf[after[i]] \in preserve
                /\ after[i] # list[i] => \A j \in (i + 1)..N : DocOf[after[j]] \in preserve
    <3>1. after[i] = list[i] \/ DocOf[after[i]] \in preserve
      BY <2>4, <1>3
    <3>2. ASSUME after[i] # list[i], NEW j \in (i + 1)..N PROVE DocOf[after[j]] \in preserve
      <4>1. i = m /\ j \in 1..N /\ j > m /\ j # m
        BY <3>2, <2>4, <1>1
      <4> QED BY <4>1, <2>3, <2>4
    <3> QED BY <3>1, <3>2
  <2> QED BY <2>4, <2>5, <2>7, <2>8, <2>9, <2>10, <2>11 DEF after, PlaceGiven
<1> QED BY <1>2, <1>3

\* With as many places as preserved documents there is one for a document that has none.
LEMMA PlaceIsFound ==
  ASSUME NEW R, NEW list \in Seq(R), NEW preserve, IsFiniteSet(preserve),
         Cardinality(preserve) <= Len(list),
         NEW d \in preserve, ~Represents(list, d)
  PROVE  Replaceable(list, preserve) # {}
<1> SUFFICES ASSUME Replaceable(list, preserve) = {} PROVE FALSE
  OBVIOUS
<1> DEFINE N == Len(list)
           others == preserve \ {d}
           doc == [i \in 1..N |-> DocOf[list[i]]]
<1>1. N \in Nat /\ DOMAIN list = 1..N
  OBVIOUS
<1>2. \A i \in 1..N : DocOf[list[i]] \in preserve /\ ~(CountOf(list, DocOf[list[i]]) > 1)
  BY <1>1 DEF Replaceable
<1>3. doc \in [1..N -> others]
  BY <1>2 DEF Represents
<1>4. IsFiniteSet(others) /\ Cardinality(others) = Cardinality(preserve) - 1
  BY FS_RemoveElement
<1>5. IsFiniteSet(1..N) /\ Cardinality(1..N) = N
  BY <1>1, FS_Interval
<1>6. Cardinality(preserve) \in Nat
  BY FS_CardinalityType
<1> HIDE DEF others, doc
<1>7. PICK i \in 1..N, j \in 1..N : i # j /\ doc[i] = doc[j]
  <2>1. Cardinality(others) < Cardinality(1..N)
    BY <1>1, <1>4, <1>5, <1>6
  <2> QED BY <1>3, <1>4, <1>5, <2>1, FS_PigeonHole
<1>8. CountOf(list, DocOf[list[i]]) > 1
  BY <1>1, <1>7, CountsPlaces DEF doc
<1> QED BY <1>2, <1>8

\* What holds of the first places, and stays true when the next eligible chunk is given one,
\* holds at the end; T is the set of the pairs, of a number of chunks and a list, of which it
\* is true.
LEMMA PreserveInduction ==
  ASSUME NEW R, NEW eligible \in Seq(R), NEW kept \in Seq(R), NEW preserve,
         NEW T, <<0, kept>> \in T,
         \A n \in 1..Len(eligible), list \in Seq(R) :
           <<n - 1, list>> \in T => <<n, GivePlace(list, eligible[n], preserve)>> \in T
  PROVE  /\ Preserve(kept, eligible, preserve) \in Seq(R)
         /\ <<Len(eligible), Preserve(kept, eligible, preserve)>> \in T
<1> DEFINE N == Len(eligible)
           A == Seq(R)
           step == [x \in A \X (1..N) |-> GivePlace(x[1], eligible[x[2]], preserve)]
           After(f) == f = [n \in 0..N |-> IF n = 0 THEN kept
                                           ELSE GivePlace(f[n - 1], eligible[n], preserve)]
<1>1. N \in Nat /\ \A n \in 1..N : eligible[n] \in R
  OBVIOUS
<1>2. ASSUME NEW list \in Seq(R), NEW c \in R PROVE GivePlace(list, c, preserve) \in Seq(R)
  <2>1. ASSUME NEW m PROVE [list EXCEPT ![m] = c] \in Seq(R)
    <3>1. list \in [1..Len(list) -> R] /\ Len(list) \in Nat
      OBVIOUS
    <3> DEFINE changed == [list EXCEPT ![m] = c]
    <3>2. changed \in [1..Len(list) -> R]
      BY <3>1
    <3> HIDE DEF changed
    <3>3. changed \in Seq(R)
      BY <3>1, <3>2
    <3> QED BY <3>3 DEF changed
  <2> QED BY <2>1 DEF GivePlace
<1>3. kept \in A /\ N \in Nat
  BY <1>1
<1> HIDE DEF N
<1>4. step \in Steps(A, N)
  <2>1. ASSUME NEW x \in A \X (1..N)
        PROVE  GivePlace(x[1], eligible[x[2]], preserve) \in A
    <3>1. x[1] \in Seq(R) /\ x[2] \in 1..N
      OBVIOUS
    <3> QED BY <3>1, <1>1, <1>2
  <2> HIDE DEF A
  <2> QED BY <2>1 DEF Steps
<1> HIDE DEF A
<1>5. PICK f : Iterates(f, N, A, kept, step)
  <2> HIDE DEF step
  <2> QED BY <1>3, <1>4, Recursion
<1>6. After(f)
  <2>1. ASSUME NEW n \in 1..N PROVE f[n] = GivePlace(f[n - 1], eligible[n], preserve)
    <3>1. n - 1 \in 0..N
      BY <1>3
    <3>2. <<f[n - 1], n>> \in A \X (1..N)
      BY <3>1, <1>5 DEF Iterates
    <3> QED BY <3>2, <1>5 DEF Iterates
  <2>2. f = [n \in 0..N |-> f[n]] /\ f[0] = kept
    BY <1>5 DEF Iterates
  <2>3. \A n \in 0..N : n # 0 => n \in 1..N
    BY <1>3
  <2> QED BY <2>1, <2>2, <2>3
<1>7. ASSUME NEW g, After(g) PROVE g[N] \in A /\ <<N, g[N]>> \in T
  <2> DEFINE S == {n \in 0..N : g[n] \in A /\ <<n, g[n]>> \in T}
  <2>1. 0 \in S
    <3>1. g[0] = kept /\ 0 \in 0..N
      BY <1>7, <1>3
    <3> QED BY <3>1, <1>3
  <2>2. ASSUME NEW n \in 1..N, n - 1 \in S PROVE n \in S
    <3>1. g[n] = GivePlace(g[n - 1], eligible[n], preserve) /\ n \in 0..N
      BY <1>7, <1>3
    <3>2. g[n - 1] \in Seq(R) /\ <<n - 1, g[n - 1]>> \in T
      BY <2>2 DEF A
    <3>3. g[n] \in A
      BY <3>1, <3>2, <1>1, <1>2 DEF A
    <3>4. <<n, g[n]>> \in T
      BY <3>1, <3>2 DEF N
    <3> QED BY <3>1, <3>3, <3>4
  <2> HIDE DEF S
  <2>3. 0..N \subseteq S
    BY <2>1, <2>2, InductionUpTo, <1>3
  <2>4. N \in S
    BY <2>3, <1>3
  <2> QED BY <2>4 DEF S
<1> QED BY <1>6, <1>7 DEF Preserve, N, A

\* What the places are after all eligible chunks: the first k of them, but for those given to
\* preserved documents.
PlacesKept(places, k, eligible, preserve, R) ==
  /\ places \in Seq(R) /\ Len(places) = k /\ IsInjective(places)
  /\ ToSet(places) \subseteq ToSet(eligible)
  /\ k = Len(eligible) => ToSet(places) = ToSet(eligible)
  /\ \A i \in 1..k :
       /\ places[i] = eligible[i] \/ DocOf[places[i]] \in preserve
       /\ places[i] # eligible[i] => \A j \in (i + 1)..k : DocOf[places[j]] \in preserve
  /\ \A i \in 1..Len(eligible) :
       DocOf[eligible[i]] \in preserve => Represents(places, DocOf[eligible[i]])

\* What Preserve leaves of the first k places.
LEMMA PreserveKeeps ==
  ASSUME NEW R, NEW eligible \in Seq(R), IsInjective(eligible),
         NEW preserve, IsFiniteSet(preserve), Cardinality(preserve) <= TopK,
         NEW kept \in Seq(R), NEW k \in Nat, Len(kept) = k,
         k <= Len(eligible), k = TopK \/ k = Len(eligible),
         \A i \in 1..k : kept[i] = eligible[i]
  PROVE  PlacesKept(Preserve(kept, eligible, preserve), k, eligible, preserve, R)
<1> DEFINE N == Len(eligible)
           A == Seq(R)
<1>1. /\ N \in Nat /\ DOMAIN eligible = 1..N /\ DOMAIN kept = 1..k
      /\ \A n \in 1..N : eligible[n] \in R
  OBVIOUS
<1> DEFINE Good(list) ==
             /\ list \in A /\ Len(list) = k /\ IsInjective(list)
             /\ ToSet(list) \subseteq ToSet(eligible)
             /\ k = N => list = kept
             /\ \A i \in 1..k :
                  /\ list[i] = eligible[i] \/ DocOf[list[i]] \in preserve
                  /\ list[i] # eligible[i] =>
                       \A j \in (i + 1)..k : DocOf[list[j]] \in preserve
           Placed(list, n) ==
             \A i \in 1..n : DocOf[eligible[i]] \in preserve => Represents(list, DocOf[eligible[i]])
<1>5. Good(kept)
  <2>1. k \in Nat /\ N \in Nat /\ k <= N /\ \A i \in 1..k : i \in 1..N
    OBVIOUS
  <2>2. \A i \in 1..k : kept[i] = eligible[i]
    OBVIOUS
  <2>3. IsInjective(kept)
    BY <1>1, <2>1, <2>2 DEF IsInjective
  <2>4. ToSet(kept) \subseteq ToSet(eligible)
    BY <1>1, <2>1, <2>2 DEF ToSet
  <2> QED BY <2>2, <2>3, <2>4
<1>6. ASSUME NEW list, Good(list), NEW n \in 1..N, Placed(list, n - 1)
      PROVE  /\ Good(GivePlace(list, eligible[n], preserve))
             /\ Placed(GivePlace(list, eligible[n], preserve), n)
  <2> DEFINE after == GivePlace(list, eligible[n], preserve)
  <2>1. /\ after \in A /\ Len(after) = k /\ IsInjective(after)
        /\ ToSet(after) \subseteq ToSet(list) \cup {eligible[n]}
        /\ Represents(list, DocOf[eligible[n]]) => after = list
        /\ \A d \in preserve : Represents(list, d) => Represents(after, d)
        /\ \A i \in 1..k :
             /\ after[i] = list[i] \/ DocOf[after[i]] \in preserve
             /\ after[i] # list[i] => \A j \in (i + 1)..k : DocOf[after[j]] \in preserve
        /\ DocOf[eligible[n]] \in preserve =>
             Represents(after, DocOf[eligible[n]]) \/ Replaceable(list, preserve) = {}
    <3>1. list \in Seq(R) /\ IsInjective(list) /\ eligible[n] \in R /\ Len(list) = k
      BY <1>1, <1>6
    <3>2. PlaceGiven(list, after, R, eligible[n], preserve)
      BY <3>1, GivePlaceKeeps
    <3> HIDE DEF after
    <3> QED BY <3>1, <3>2 DEF PlaceGiven
  <2> HIDE DEF after
  <2>2. ToSet(after) \subseteq ToSet(eligible)
    <3>1. eligible[n] \in ToSet(eligible)
      BY <1>1 DEF ToSet
    <3> QED BY <2>1, <3>1, <1>6
  <2>3. ASSUME k = N PROVE after = kept
    <3>1. list = kept
      BY <2>3, <1>6
    <3>2. kept[n] = eligible[n] /\ n \in 1..Len(kept)
      BY <2>3
    <3>3. Represents(list, DocOf[eligible[n]])
      BY <3>1, <3>2 DEF Represents
    <3> QED BY <2>1, <3>1, <3>3
  <2>4. ASSUME NEW i \in 1..k
        PROVE  /\ after[i] = eligible[i] \/ DocOf[after[i]] \in preserve
               /\ after[i] # eligible[i] => \A j \in (i + 1)..k : DocOf[after[j]] \in preserve
    <3>1. after[i] = eligible[i] \/ DocOf[after[i]] \in preserve
      BY <2>1, <1>6
    <3>2. ASSUME after[i] # eligible[i], NEW j \in (i + 1)..k
          PROVE  DocOf[after[j]] \in preserve
      <4>1. CASE after[i] # list[i]
        BY <4>1, <2>1
      <4>2. CASE after[i] = list[i]
        <5>1. DocOf[list[j]] \in preserve
          BY <4>2, <3>2, <1>6
        <5>2. j \in 1..k
          OBVIOUS
        <5> QED BY <5>1, <5>2, <2>1
      <4> QED BY <4>1, <4>2
    <3> QED BY <3>1, <3>2
  <2>5. ASSUME DocOf[eligible[n]] \in preserve PROVE Represents(after, DocOf[eligible[n]])
    <3>1. CASE Represents(list, DocOf[eligible[n]])
      BY <3>1, <2>1
    <3>2. CASE ~Represents(list, DocOf[eligible[n]]) /\ k = N
      <4>1. list = kept /\ kept[n] = eligible[n] /\ n \in 1..Len(kept)
        BY <3>2, <1>6
      <4> QED BY <4>1, <3>2 DEF Represents
    <3>3. CASE ~Represents(list, DocOf[eligible[n]]) /\ k = TopK
      <4>1. list \in Seq(R) /\ Cardinality(preserve) <= Len(list)
        BY <3>3, <1>6
      <4>2. Replaceable(list, preserve) # {}
        BY <4>1, <3>3, <2>5, PlaceIsFound
      <4> QED BY <4>2, <2>1, <2>5
    <3> QED BY <3>1, <3>2, <3>3
  <2>6. Placed(after, n)
    <3>1. n \in Int /\ \A i \in 1..n : i = n \/ i \in 1..(n - 1)
      OBVIOUS
    <3>2. \A i \in 1..(n - 1) :
            DocOf[eligible[i]] \in preserve => Represents(list, DocOf[eligible[i]])
      BY <1>6
    <3> QED BY <3>1, <3>2, <2>1, <2>5
  <2> QED BY <2>1, <2>2, <2>3, <2>4, <2>6 DEF after
<1> DEFINE places == Preserve(kept, eligible, preserve)
           T == {x \in (0..N) \X A : Good(x[2]) /\ Placed(x[2], x[1])}
<1>7. ASSUME NEW n \in 0..N, NEW list \in A
      PROVE  <<n, list>> \in T <=> Good(list) /\ Placed(list, n)
  <2> HIDE DEF Good, Placed, N, A
  <2> QED OBVIOUS
<1>8. Good(places) /\ Placed(places, N)
  <2>1. <<0, kept>> \in T
    <3>1. Placed(kept, 0)
      OBVIOUS
    <3>2. kept \in A
      OBVIOUS
    <3>3. 0 \in 0..N
      <4>1. N \in Nat
        BY <1>1
      <4> HIDE DEF N
      <4> QED BY <4>1
    <3> HIDE DEF Good, Placed, N, A, T
    <3> QED BY <3>1, <3>2, <3>3, <1>5, <1>7
  <2>2. ASSUME NEW n \in 1..N, NEW list \in A, <<n - 1, list>> \in T
        PROVE  <<n, GivePlace(list, eligible[n], preserve)>> \in T
    <3>1. n - 1 \in 0..N /\ n \in 0..N
      <4>1. N \in Nat
        BY <1>1
      <4> HIDE DEF N
      <4> QED BY <4>1
    <3>2. Good(list) /\ Placed(list, n - 1)
      <4> HIDE DEF Good, Placed, N, A, T
      <4> QED BY <2>2, <3>1, <1>7
    <3> DEFINE after == GivePlace(list, eligible[n], preserve)
    <3>3. Good(after) /\ Placed(after, n)
      <4> HIDE DEF Good, Placed, N, A, T
      <4> QED BY <3>2, <1>6
    <3>4. after \in A
      BY <3>3
    <3> HIDE DEF Good, Placed, N, A, T, after
    <3>5. <<n, after>> \in T
      BY <3>1, <3>3, <3>4, <1>7
    <3> QED BY <3>5 DEF after
  <2> HIDE DEF T, Good, Placed
  <2>3. places \in A /\ <<N, places>> \in T
    BY <2>1, <2>2, PreserveInduction
  <2>4. N \in 0..N
    <3>1. N \in Nat
      BY <1>1
    <3> HIDE DEF N
    <3> QED BY <3>1
  <2> QED BY <2>3, <2>4, <1>7
<1> HIDE DEF places
<1>9. k = N => ToSet(places) = ToSet(eligible)
  <2> SUFFICES ASSUME k = N PROVE ToSet(kept) = ToSet(eligible)
    BY <1>8 DEF Good
  <2> QED BY <1>1 DEF ToSet
<1> QED BY <1>8, <1>9 DEF Good, Placed, places, N, PlacesKept

-----------------------------------------------------------------------------
(* The merged results *)

\* The results are of the eligible chunks; all places are taken or all eligible chunks have one;
\* what was left out is worse than every result but those of preserved documents; and every
\* preserved document with an eligible chunk has a place.
Picks(results, eligible, responses, preserve) ==
  /\ results \in Seq(Retrieved(responses)) /\ IsInjective(results)
  /\ Len(results) <= TopK
  /\ ToSet(results) \subseteq ToSet(eligible)
  /\ Len(results) = TopK \/ ToSet(results) = ToSet(eligible)
  /\ \A c \in ToSet(eligible) \ ToSet(results), x \in ToSet(results) :
       DocOf[x] \in preserve \/ Better(x, c, responses)
  /\ Cardinality(preserve) <= TopK =>
       \A c \in ToSet(eligible) : DocOf[c] \in preserve => Represents(results, DocOf[c])

\* A sorted list names no chunk twice.
LEMMA SortedInjective ==
  ASSUME NEW responses, Lists(responses),
         NEW list \in Seq(Retrieved(responses)), Sorted(list, responses)
  PROVE  IsInjective(list)
<1>1. DOMAIN list = 1..Len(list) /\ \A i \in 1..Len(list) : list[i] \in Retrieved(responses)
  OBVIOUS
<1>2. ASSUME NEW i \in 1..Len(list), NEW j \in 1..Len(list), list[i] = list[j] PROVE i = j
  <2>1. ~Better(list[i], list[j], responses) /\ ~Better(list[j], list[i], responses)
    BY <1>1, <1>2, BetterIsOrder
  <2>2. ~(i < j) /\ ~(j < i)
    BY <2>1 DEF Sorted
  <2> QED BY <2>2
<1> QED BY <1>1, <1>2 DEF IsInjective

\* The first places, before any of them is given away.
FirstK(selected, k, eligible, R) ==
  /\ k \in Nat /\ k <= TopK /\ k <= Len(eligible)
  /\ k = TopK \/ k = Len(eligible)
  /\ selected \in Seq(R) /\ Len(selected) = k
  /\ \A i \in 1..k : selected[i] = eligible[i]

\* SubSeq takes the first places, as many as there are eligible chunks up to TopK.
LEMMA FirstPlaces ==
  ASSUME NEW R, NEW eligible \in Seq(R)
  PROVE  FirstK(SubSeq(eligible, 1, Min({TopK, Len(eligible)})),
                Min({TopK, Len(eligible)}), eligible, R)
<1> DEFINE k == Min({TopK, Len(eligible)})
           selected == SubSeq(eligible, 1, k)
<1>1. TopK \in Nat /\ Len(eligible) \in Nat
  BY MergeAssumption
<1>2. k \in {TopK, Len(eligible)} /\ \A n \in {TopK, Len(eligible)} : k <= n
  <2> HIDE DEF k
  <2> QED BY <1>1, MinIsLeast DEF k
<1>3. /\ k \in Nat /\ k <= TopK /\ k <= Len(eligible)
      /\ k = TopK \/ k = Len(eligible)
  BY <1>1, <1>2
<1> HIDE DEF k
<1>4. \A i \in 1..k : eligible[i] \in R
  BY <1>1, <1>3
<1>5. /\ selected \in Seq(R)
      /\ Len(selected) = IF 1 <= k THEN k - 1 + 1 ELSE 0
      /\ \A i \in 1..(k - 1 + 1) : selected[i] = eligible[1 + i - 1]
  BY <1>3, <1>4, SubSeqProperties
<1>6. Len(selected) = k /\ \A i \in 1..k : selected[i] = eligible[i]
  <2>1. k - 1 + 1 = k /\ \A i \in 1..k : 1 + i - 1 = i
    BY <1>3
  <2> QED BY <1>3, <1>5, <2>1
<1> HIDE DEF selected
<1>7. FirstK(selected, k, eligible, R)
  BY <1>3, <1>5, <1>6 DEF FirstK
<1> QED BY <1>7 DEF selected, k

\* What merge_search_responses promises of its results.
LEMMA MergePicks ==
  ASSUME NEW responses, Lists(responses), NEW strategy, NEW preserve, IsFiniteSet(preserve)
  PROVE  Picks(MergeSearchResponses(responses, strategy, preserve),
               Eligible(responses, strategy), responses, preserve)
<1> DEFINE R == Retrieved(responses)
           eligible == Eligible(responses, strategy)
           k == Min({TopK, Len(eligible)})
           selected == SubSeq(eligible, 1, k)
           results == MergeSearchResponses(responses, strategy, preserve)
<1>1. eligible \in Seq(R) /\ Sorted(eligible, responses) /\ IsInjective(eligible)
  BY EligibleShowsAll, SortedInjective
<1> HIDE DEF eligible
<1>2. /\ k \in Nat /\ k <= TopK /\ k <= Len(eligible)
      /\ k = TopK \/ k = Len(eligible)
      /\ selected \in Seq(R) /\ Len(selected) = k
      /\ \A i \in 1..k : selected[i] = eligible[i]
  <2>1. FirstK(selected, k, eligible, R)
    <3> HIDE DEF R
    <3> QED BY <1>1, FirstPlaces
  <2> HIDE DEF R, k, selected
  <2> QED BY <2>1 DEF FirstK
<1> HIDE DEF k, selected
<1>3. Len(eligible) \in Nat /\ DOMAIN eligible = 1..Len(eligible) /\ DOMAIN selected = 1..k
  BY <1>1, <1>2
<1>6. \A i \in 1..k : i \in 1..Len(eligible)
  <2> DEFINE N == Len(eligible)
  <2>1. k \in Nat /\ N \in Nat /\ k <= N
    BY <1>2, <1>3
  <2> HIDE DEF N
  <2>2. \A i \in 1..k : i \in 1..N
    BY <2>1
  <2> QED BY <2>2 DEF N
<1>7. \A i \in 1..Len(eligible), j \in 1..k : i \notin 1..k => j < i
  <2> DEFINE N == Len(eligible)
  <2>1. k \in Nat /\ N \in Nat
    BY <1>2, <1>3
  <2> HIDE DEF N
  <2>2. \A i \in 1..N, j \in 1..k : i \notin 1..k => j < i
    BY <2>1
  <2> QED BY <2>2 DEF N
<1> HIDE DEF R
<1>4. CASE ~(preserve # {} /\ Cardinality(preserve) <= TopK)
  <2>1. results = selected
    BY <1>4 DEF MergeSearchResponses, eligible, selected, k
  <2> HIDE DEF results
  <2>3. IsInjective(selected) /\ ToSet(selected) \subseteq ToSet(eligible)
    BY <1>1, <1>2, <1>3, <1>6 DEF IsInjective, ToSet
  <2>4. k = TopK \/ ToSet(selected) = ToSet(eligible)
    BY <1>2, <1>3 DEF ToSet
  <2>5. ASSUME NEW c \in ToSet(eligible) \ ToSet(selected), NEW x \in ToSet(selected)
        PROVE  Better(x, c, responses)
    <3>1. PICK i \in 1..Len(eligible) : c = eligible[i]
      BY <1>3 DEF ToSet
    <3>2. PICK j \in 1..k : x = eligible[j]
      BY <1>2, <1>3 DEF ToSet
    <3>3. i \notin 1..k
      BY <1>2, <1>3, <3>1 DEF ToSet
    <3>4. j < i /\ j \in 1..Len(eligible)
      BY <1>6, <1>7, <3>3
    <3> QED BY <1>1, <3>1, <3>2, <3>4 DEF Sorted
  <2>6. Cardinality(preserve) <= TopK => preserve = {}
    BY <1>4
  <2>7. Len(selected) = TopK \/ ToSet(selected) = ToSet(eligible)
    BY <1>2, <2>4
  <2>8. Len(selected) <= TopK
    BY <1>2
  <2>9. \A c \in ToSet(eligible), d \in preserve :
          DocOf[c] = d /\ Cardinality(preserve) <= TopK => FALSE
    BY <2>6
  <2>10. selected \in Seq(Retrieved(responses))
    BY <1>2 DEF R
  <2>11. Picks(selected, eligible, responses, preserve)
    <3> HIDE DEF R
    <3> QED BY <2>3, <2>5, <2>7, <2>8, <2>9, <2>10 DEF Picks
  <2> QED BY <2>1, <2>11 DEF results, eligible
<1>5. CASE preserve # {} /\ Cardinality(preserve) <= TopK
  <2> DEFINE places == Preserve(selected, eligible, preserve)
             chosen == ToSet(places)
  <2>1. results = InOrder(chosen, responses)
    BY <1>5 DEF MergeSearchResponses, eligible, selected, k
  <2> HIDE DEF results
  <2>2. /\ places \in Seq(R) /\ Len(places) = k /\ IsInjective(places)
        /\ ToSet(places) \subseteq ToSet(eligible)
        /\ k = Len(eligible) => ToSet(places) = ToSet(eligible)
        /\ \A i \in 1..k :
             /\ places[i] = eligible[i] \/ DocOf[places[i]] \in preserve
             /\ places[i] # eligible[i] =>
                  \A j \in (i + 1)..k : DocOf[places[j]] \in preserve
        /\ \A i \in 1..Len(eligible) :
             DocOf[eligible[i]] \in preserve => Represents(places, DocOf[eligible[i]])
    <3> HIDE DEF R
    <3>1. PlacesKept(places, k, eligible, preserve, R)
      BY <1>1, <1>2, <1>5, PreserveKeeps
    <3> HIDE DEF places
    <3> QED BY <3>1 DEF PlacesKept
  <2> HIDE DEF places
  <2>3. DOMAIN places = 1..k
    BY <2>2
  <2>4. IsFiniteSet(chosen) /\ Cardinality(chosen) = k /\ chosen \in SUBSET R
    <3>1. places \in Bijection(1..k, chosen)
      BY <2>2, <2>3 DEF Bijection, Injection, Surjection, IsInjective, ToSet
    <3>2. ExistsBijection(1..k, chosen)
      BY <3>1 DEF ExistsBijection
    <3>3. IsFiniteSet(1..k) /\ Cardinality(1..k) = k
      BY <1>2, FS_Interval
    <3>4. chosen \in SUBSET R
      BY <2>2, <2>3 DEF ToSet
    <3> HIDE DEF chosen
    <3> QED BY <3>2, <3>3, <3>4, FS_Bijection
  <2>5. ListOf(results, chosen, responses)
    <3> HIDE DEF chosen
    <3> QED BY <2>1, <2>4, InOrderLists DEF R
  <2> HIDE DEF chosen
  <2>6. /\ results \in [1..k -> chosen]
        /\ \A c \in chosen : \E i \in 1..k : results[i] = c
        /\ \A i, j \in 1..k : i < j <=> Better(results[i], results[j], responses)
    BY <2>4, <2>5 DEF ListOf
  <2>7. results \in Seq(R) /\ Len(results) = k /\ DOMAIN results = 1..k
    BY <2>4, <2>6, <1>2
  <2>8. IsInjective(results)
    <3>1. Sorted(results, responses)
      BY <2>6, <2>7 DEF Sorted
    <3> QED BY <2>7, <3>1, SortedInjective DEF R
  <2>9. ToSet(results) = chosen
    BY <2>6, <2>7 DEF ToSet
  <2>10. chosen \subseteq ToSet(eligible) /\ (k = Len(eligible) => chosen = ToSet(eligible))
    BY <2>2 DEF chosen
  <2>11. ASSUME NEW c \in ToSet(eligible) \ chosen, NEW x \in chosen, DocOf[x] \notin preserve
         PROVE  Better(x, c, responses)
    <3>1. PICK i \in 1..Len(eligible) : c = eligible[i]
      BY <1>3 DEF ToSet
    <3>2. PICK j \in 1..k : x = places[j]
      BY <2>3 DEF chosen, ToSet
    <3>3. x = eligible[j] /\ j \in 1..Len(eligible)
      BY <1>6, <2>2, <2>11, <3>2
    <3>4. \A m \in 1..k : places[m] # c
      BY <2>3 DEF chosen, ToSet
    <3>5. i # j
      BY <3>1, <3>2, <3>3, <3>4
    <3>6. ~(i < j)
      <4> SUFFICES ASSUME i < j PROVE FALSE
        OBVIOUS
      <4>1. i \in 1..k /\ j \in (i + 1)..k
        BY <1>2
      <4>2. places[i] # eligible[i]
        BY <4>1, <3>1, <3>4
      <4> QED BY <4>1, <4>2, <2>2, <2>11, <3>2
    <3>7. j < i
      BY <3>5, <3>6
    <3> QED BY <1>1, <3>1, <3>3, <3>7 DEF Sorted
  <2>12. ASSUME NEW c \in ToSet(eligible), DocOf[c] \in preserve
         PROVE  Represents(results, DocOf[c])
    <3>1. PICK i \in 1..Len(eligible) : c = eligible[i]
      BY <1>3 DEF ToSet
    <3>2. PICK j \in 1..k : DocOf[places[j]] = DocOf[c]
      BY <2>2, <2>12, <3>1 DEF Represents
    <3>3. places[j] \in chosen
      BY <2>3 DEF chosen, ToSet
    <3> QED BY <2>6, <2>7, <3>2, <3>3 DEF Represents
  <2>13. Len(results) = TopK \/ ToSet(results) = ToSet(eligible)
    BY <1>2, <2>7, <2>9, <2>10
  <2>14. Len(results) <= TopK /\ ToSet(results) \subseteq ToSet(eligible)
    BY <1>2, <2>7, <2>9, <2>10
  <2>15. results \in Seq(Retrieved(responses))
    BY <2>7 DEF R
  <2>16. Picks(results, eligible, responses, preserve)
    BY <2>8, <2>9, <2>11, <2>12, <2>13, <2>14, <2>15 DEF Picks
  <2> QED BY <2>16 DEF results, eligible
<1> QED BY <1>4, <1>5 DEF eligible, results

-----------------------------------------------------------------------------
(* What a run has gathered *)

\* Reasons of a router that gave no routes and whose answer is not refined.
PlanReasons == {"DOCUMENT_ROUTE_PLAN_FAILED", "DOCUMENT_ROUTE_SCOPE_REJECTED"}

CorpusOK == ready \subseteq Docs /\ members \subseteq Docs /\ changes \in 0..MaxChanges

\* The run, with lists of any length.
Gathered ==
  [pc : Pcs, workflow : Workflows, selection : Selections, scope : Scopes,
   responses : Seq(Seq(Chunks)), catalog : SUBSET Docs, routes : Seq(Docs),
   merged : SUBSET Docs, reasons : SUBSET Reasons, planned : Nat, seen : SUBSET Docs,
   results : Seq(Chunks)]

\* A list of a search names a chunk once and documents that the run resolved.
ListOK(list, seen) ==
  /\ list \in Seq(Chunks) /\ Len(list) <= TopK /\ IsInjective(list)
  /\ \A i \in 1..Len(list) : DocOf[list[i]] \in seen
ListsOK(r) == \A q \in 1..Len(r.responses) : ListOK(r.responses[q], r.seen)

CatalogOK(r) == r.catalog \subseteq r.seen /\ r.merged \subseteq r.catalog /\ IsFiniteSet(r.merged)

\* What was gathered at each stage.
StageOK(r) ==
  /\ r.pc = "primary" => r.responses = <<>> /\ r.catalog = {}
  /\ r.pc \in {"primary", "catalog", "planning"} => r.reasons = {} /\ r.planned = 0
  /\ r.pc \in {"primary", "catalog", "planning", "refining", "searching"} => r.merged = {}
  /\ r.pc \in {"catalog", "planning", "refining", "searching"} => Len(r.responses) = 1
  /\ r.pc = "routing" =>
       /\ Len(r.responses) >= 1
       /\ Len(r.responses) + Len(r.routes) <= 1 + MaxRoutes
       /\ ToSet(r.routes) \subseteq r.catalog
  /\ r.pc \in {"routing", "refining", "searching"} => r.reasons \cap PlanReasons = {}
  /\ r.pc = "done" =>
       /\ Len(r.responses) \in 1..(1 + MaxRoutes)
       /\ r.reasons \cap PlanReasons # {} => r.planned = 1 /\ Len(r.responses) = 1
  /\ r.pc = "failed" => r.responses = <<>>

Answer(r) ==
  IF Len(r.responses) = 1 THEN r.responses[1]
                          ELSE MergeSearchResponses(r.responses, r.selection, r.merged)
ResultsOK(r) == r.results = IF r.pc = "done" THEN Answer(r) ELSE <<>>

GatheredOK(r) == r \in Gathered /\ ListsOK(r) /\ CatalogOK(r) /\ StageOK(r) /\ ResultsOK(r)

IInv == CorpusOK /\ GatheredOK(run)

-----------------------------------------------------------------------------
(* Searches *)

\* A bounded sequence is a sequence within the bound.
LEMMA BoundedLists ==
  ASSUME NEW S, NEW n \in Nat, NEW list
  PROVE  list \in BoundedSeq(S, n) <=> list \in Seq(S) /\ Len(list) <= n
<1>1. ASSUME list \in BoundedSeq(S, n) PROVE list \in Seq(S) /\ Len(list) <= n
  <2>1. PICK m \in 0..n : list \in [1..m -> S]
    BY <1>1 DEF BoundedSeq, SeqOf
  <2>2. list \in Seq(S) /\ Len(list) = m
    BY <2>1
  <2> QED BY <2>2
<1>2. ASSUME list \in Seq(S), Len(list) <= n PROVE list \in BoundedSeq(S, n)
  <2>1. Len(list) \in 0..n /\ list \in [1..Len(list) -> S]
    BY <1>2
  <2> QED BY <2>1 DEF BoundedSeq, SeqOf
<1> QED BY <1>1, <1>2

\* A scope resolves to READY documents, that of one document to it.
LEMMA ScopeIsReady ==
  /\ \A scope \in Scopes : InScope(scope) \subseteq ready
  /\ \A d \in Docs : InScope(DocumentScope(d)) \subseteq {d} \cap ready
<1>1. \A scope \in Scopes : scope.type \in {"all", "collection", "documents"}
  BY WorkflowAssumption
<1>2. \A scope \in Scopes : InScope(scope) \subseteq ready
  BY <1>1 DEF InScope
<1> QED BY <1>2 DEF InScope, DocumentScope

\* select_evidence drops what has the key of an earlier chunk, so no chunk comes twice.
LEMMA SearchReturns ==
  ASSUME NEW scope, NEW list \in Rankings(scope), NEW seen, InScope(scope) \subseteq seen
  PROVE  ListOK(list, seen)
<1> DEFINE S == {c \in Chunks : DocOf[c] \in InScope(scope)}
<1>1. list \in Seq(S) /\ Len(list) <= TopK
  BY BoundedLists, MergeAssumption DEF Rankings
<1>2. list \in Seq(Chunks) /\ DOMAIN list = 1..Len(list)
      /\ \A i \in 1..Len(list) : DocOf[list[i]] \in InScope(scope)
  BY <1>1
<1>3. ASSUME NEW i \in 1..Len(list), NEW j \in 1..Len(list), i < j PROVE list[i] # list[j]
  <2>1. Selected(list, scope)
    BY DEF Rankings
  <2>2. i \in 1..(j - 1)
    BY <1>3
  <2>3. \A e \in {list[m] : m \in 1..(j - 1)} :
          SelectionKey(e, scope) # SelectionKey(list[j], scope)
    BY <2>1, <1>2 DEF Selected
  <2> QED BY <2>2, <2>3
<1>4. IsInjective(list)
  <2>1. \A i, j \in 1..Len(list) : list[i] = list[j] => i = j
    <3>1. ASSUME NEW i \in 1..Len(list), NEW j \in 1..Len(list), list[i] = list[j], i # j
          PROVE FALSE
      <4>1. i < j \/ j < i
        BY <3>1
      <4> QED BY <4>1, <3>1, <1>3
    <3> QED BY <3>1
  <2> QED BY <2>1, <1>2 DEF IsInjective
<1> QED BY <1>1, <1>2, <1>4 DEF ListOK

-----------------------------------------------------------------------------
(* Steps *)

\* An error drops what was gathered.
LEMMA FailsKeeps ==
  ASSUME GatheredOK(run), Fails
  PROVE  GatheredOK(run')
<1>1. /\ run \in Gathered /\ run.pc # "done"
      /\ run' = [run EXCEPT !.pc = "failed", !.responses = <<>>, !.routes = <<>>]
  BY DEF GatheredOK, Fails
<1>2. /\ run'.pc = "failed" /\ run'.responses = <<>>
      /\ run'.catalog = run.catalog /\ run'.merged = run.merged
      /\ run'.seen = run.seen /\ run'.results = run.results
  BY <1>1 DEF Gathered
<1>3. run' \in Gathered
  <2>1. <<>> \in Seq(Seq(Chunks)) /\ <<>> \in Seq(Docs) /\ "failed" \in Pcs
    BY DEF Pcs
  <2> QED BY <1>1, <2>1 DEF Gathered
<1>4. ListsOK(run') /\ CatalogOK(run') /\ ResultsOK(run')
  BY <1>1, <1>2 DEF GatheredOK, ListsOK, CatalogOK, ResultsOK
<1>5. StageOK(run')
  BY <1>2 DEF StageOK
<1> QED BY <1>3, <1>4, <1>5 DEF GatheredOK

\* A list that a search adds.
LEMMA ListAdded ==
  ASSUME NEW responses \in Seq(Seq(Chunks)), NEW seen, NEW later, seen \subseteq later,
         \A q \in 1..Len(responses) : ListOK(responses[q], seen),
         NEW list, ListOK(list, later)
  PROVE  /\ Append(responses, list) \in Seq(Seq(Chunks))
         /\ Len(Append(responses, list)) = Len(responses) + 1
         /\ \A q \in 1..Len(Append(responses, list)) : ListOK(Append(responses, list)[q], later)
<1>1. list \in Seq(Chunks)
  BY DEF ListOK
<1>2. Append(responses, list) \in Seq(Seq(Chunks)) /\ Len(responses) \in Nat
      /\ Len(Append(responses, list)) = Len(responses) + 1
      /\ Append(responses, list)[Len(responses) + 1] = list
      /\ \A q \in 1..Len(responses) : Append(responses, list)[q] = responses[q]
  BY <1>1
<1>3. \A q \in 1..Len(responses) : ListOK(responses[q], later)
  BY DEF ListOK
<1>4. \A q \in 1..(Len(responses) + 1) : q \in 1..Len(responses) \/ q = Len(responses) + 1
  BY <1>2
<1> QED BY <1>2, <1>3, <1>4

\* The primary search resolves the session's scope.
LEMMA PrimaryKeeps ==
  ASSUME CorpusOK, GatheredOK(run), PrimarySearch
  PROVE  GatheredOK(run')
<1>1. run \in Gathered /\ run.pc = "primary" /\ run.scope \in Scopes
      /\ run.reasons = {} /\ run.planned = 0 /\ run.merged = {} /\ run.catalog = {}
  BY DEF GatheredOK, PrimarySearch, Gathered, StageOK
<1> DEFINE pc == CASE run.workflow = "single_pass" -> "done"
                   [] run.workflow = "routed_multi_search" -> "catalog"
                   [] OTHER -> "refining"
<1>2. PICK list \in Rankings(run.scope) :
        run' = [run EXCEPT !.responses = <<list>>, !.seen = InScope(run.scope), !.pc = pc,
                  !.results = IF run.workflow = "single_pass" THEN list ELSE <<>>]
  BY DEF PrimarySearch
<1>3. \/ pc = "done" /\ run.workflow = "single_pass"
      \/ pc = "catalog" /\ run.workflow # "single_pass"
      \/ pc = "refining" /\ run.workflow # "single_pass"
  OBVIOUS
<1> HIDE DEF pc
<1>4. /\ run'.pc = pc /\ run'.responses = <<list>> /\ run'.seen = InScope(run.scope)
      /\ run'.results = IF pc = "done" THEN list ELSE <<>>
      /\ run'.catalog = {} /\ run'.merged = {} /\ run'.reasons = {} /\ run'.planned = 0
  BY <1>1, <1>2, <1>3 DEF Gathered
<1>5. ListOK(list, InScope(run.scope)) /\ InScope(run.scope) \subseteq Docs
  BY <1>1, SearchReturns, ScopeIsReady DEF CorpusOK
<1>6. list \in Seq(Chunks)
  BY <1>5 DEF ListOK
<1>7. /\ <<list>> \in Seq(Seq(Chunks)) /\ Len(<<list>>) = 1 /\ <<list>>[1] = list
      /\ <<>> \in Seq(Chunks) /\ pc \in Pcs
  BY <1>3, <1>6 DEF Pcs
<1>8. run' \in Gathered
  BY <1>1, <1>2, <1>5, <1>6, <1>7 DEF Gathered
<1>9. ListsOK(run')
  BY <1>4, <1>5, <1>7 DEF ListsOK
<1>10. CatalogOK(run')
  BY <1>4, FS_EmptySet DEF CatalogOK
<1>11. StageOK(run')
  BY <1>3, <1>4, <1>7, WorkflowAssumption DEF StageOK
<1>12. ResultsOK(run')
  BY <1>4, <1>7 DEF ResultsOK, Answer
<1> QED BY <1>8, <1>9, <1>10, <1>11, <1>12 DEF GatheredOK

\* The catalog is what the scope resolves to now.
LEMMA CatalogKeeps ==
  ASSUME CorpusOK, GatheredOK(run), ReadCatalog
  PROVE  GatheredOK(run')
<1>1. run \in Gathered /\ run.pc = "catalog" /\ run.scope \in Scopes
      /\ run.reasons = {} /\ run.planned = 0 /\ run.merged = {} /\ Len(run.responses) = 1
      /\ run.results = <<>>
  BY DEF GatheredOK, ReadCatalog, Gathered, StageOK, ResultsOK
<1> DEFINE catalog == InScope(run.scope)
           seen == run.seen \cup catalog
           pc == IF Cardinality(catalog) < 2 THEN "refining" ELSE "planning"
<1>2. run' = [run EXCEPT !.catalog = catalog, !.seen = seen, !.pc = pc]
  BY <1>1 DEF ReadCatalog, Gathered
<1>3. catalog \subseteq Docs /\ seen \subseteq Docs
  BY <1>1, ScopeIsReady DEF CorpusOK, Gathered
<1>4. pc \in {"refining", "planning"} /\ catalog \subseteq seen /\ run.seen \subseteq seen
  OBVIOUS
<1> HIDE DEF catalog, seen, pc
<1>5. /\ run'.pc = pc /\ run'.responses = run.responses /\ run'.seen = seen
      /\ run'.results = <<>> /\ run'.catalog = catalog /\ run'.merged = {}
      /\ run'.reasons = {} /\ run'.planned = 0
  BY <1>1, <1>2 DEF Gathered
<1>6. run' \in Gathered
  BY <1>1, <1>2, <1>3, <1>4 DEF Gathered, Pcs
<1>7. ListsOK(run')
  BY <1>4, <1>5 DEF GatheredOK, ListsOK, ListOK
<1>8. CatalogOK(run')
  BY <1>4, <1>5, FS_EmptySet DEF CatalogOK
<1>9. StageOK(run') /\ ResultsOK(run')
  BY <1>1, <1>4, <1>5 DEF StageOK, ResultsOK
<1> QED BY <1>6, <1>7, <1>8, <1>9 DEF GatheredOK

\* A plan without routes.
LEMMA NoRoutesKeeps ==
  ASSUME GatheredOK(run), run.pc = "planning",
         NEW reasons, reasons \in {{"DOCUMENT_ROUTE_PLAN_FAILED"},
                                  {"DOCUMENT_ROUTE_SCOPE_REJECTED"},
                                  {"DOCUMENT_ROUTE_LOW_CONFIDENCE"}},
         NoRoutes(reasons)
  PROVE  GatheredOK(run')
<1>1. run \in Gathered /\ run.reasons = {} /\ run.planned = 0 /\ run.merged = {}
      /\ Len(run.responses) = 1 /\ run.responses[1] \in Seq(Chunks)
  <2>1. run \in Gathered /\ run.reasons = {} /\ run.planned = 0 /\ run.merged = {}
        /\ Len(run.responses) = 1
    BY DEF GatheredOK, StageOK
  <2>2. run.responses \in Seq(Seq(Chunks))
    BY <2>1 DEF Gathered
  <2> QED BY <2>1, <2>2
<1> DEFINE pc == AfterNoPlan(reasons)
           results == IF pc = "done" THEN run.responses[1] ELSE <<>>
<1>2. run' = [run EXCEPT !.pc = pc, !.planned = run.planned + 1,
                         !.reasons = run.reasons \cup reasons, !.results = results]
  BY <1>1 DEF NoRoutes, Primary, Gathered
<1>3. \/ pc = "refining" /\ reasons \cap PlanReasons = {}
      \/ pc = "done"
  BY DEF AfterNoPlan, PlanReasons
<1>4. results \in Seq(Chunks) /\ pc \in Pcs /\ reasons \subseteq Reasons
  BY <1>1, <1>3 DEF Pcs, Reasons
<1> HIDE DEF pc
<1>5. /\ run'.pc = pc /\ run'.responses = run.responses /\ run'.seen = run.seen
      /\ run'.results = results /\ run'.catalog = run.catalog /\ run'.merged = {}
      /\ run'.reasons = reasons /\ run'.planned = 1
  BY <1>1, <1>2 DEF Gathered
<1> HIDE DEF results
<1>6. run' \in Gathered
  <2>1. run.planned + 1 \in Nat /\ run.reasons \cup reasons \in SUBSET Reasons
    BY <1>1, <1>4
  <2> HIDE DEF Reasons
  <2> QED BY <1>1, <1>2, <1>4, <2>1 DEF Gathered
<1>7. ListsOK(run') /\ CatalogOK(run')
  BY <1>1, <1>5 DEF GatheredOK, ListsOK, CatalogOK
<1>8. StageOK(run')
  <2>1. 1 \in 1..(1 + MaxRoutes)
    BY WorkflowAssumption
  <2> QED BY <1>1, <1>3, <1>5, <2>1 DEF StageOK
<1>9. ResultsOK(run')
  BY <1>1, <1>5 DEF ResultsOK, Answer, results
<1> QED BY <1>6, <1>7, <1>8, <1>9 DEF GatheredOK

\* A plan of the model gives no routes, or allowed ones.
LEMMA PlanKeeps ==
  ASSUME GatheredOK(run), PlanRoutes
  PROVE  GatheredOK(run')
<1>1. run \in Gathered /\ run.pc = "planning" /\ run.reasons = {} /\ run.planned = 0
      /\ run.merged = {} /\ Len(run.responses) = 1 /\ run.results = <<>>
  BY DEF GatheredOK, PlanRoutes, StageOK, ResultsOK
<1>2. CASE \E reasons \in {{"DOCUMENT_ROUTE_PLAN_FAILED"}, {"DOCUMENT_ROUTE_SCOPE_REJECTED"},
                           {"DOCUMENT_ROUTE_LOW_CONFIDENCE"}} : NoRoutes(reasons)
  BY <1>1, <1>2, NoRoutesKeeps
<1>3. CASE \E routes \in BoundedSeq(Docs, MaxPlanned) :
             /\ Allowed(routes)
             /\ run' = [run EXCEPT !.pc = "routing", !.planned = run.planned + 1,
                                   !.routes = routes]
  <2>1. PICK routes \in BoundedSeq(Docs, MaxPlanned) :
          /\ Allowed(routes)
          /\ run' = [run EXCEPT !.pc = "routing", !.planned = run.planned + 1, !.routes = routes]
    BY <1>3
  <2>2. routes \in Seq(Docs) /\ Len(routes) <= MaxRoutes /\ ToSet(routes) \subseteq run.catalog
    BY <2>1, BoundedLists, WorkflowAssumption DEF Allowed
  <2>3. /\ run'.pc = "routing" /\ run'.responses = run.responses /\ run'.seen = run.seen
        /\ run'.results = <<>> /\ run'.catalog = run.catalog /\ run'.merged = {}
        /\ run'.reasons = {} /\ run'.planned = 1 /\ run'.routes = routes
    BY <1>1, <2>1 DEF Gathered
  <2>4. run' \in Gathered
    <3>1. run.planned + 1 \in Nat /\ "routing" \in Pcs
      BY <1>1 DEF Pcs
    <3> QED BY <1>1, <2>1, <2>2, <3>1 DEF Gathered
  <2>5. ListsOK(run') /\ CatalogOK(run') /\ ResultsOK(run')
    BY <1>1, <2>3 DEF GatheredOK, ListsOK, CatalogOK, ResultsOK
  <2>6. 1 + Len(routes) <= 1 + MaxRoutes
    BY <2>2, WorkflowAssumption
  <2>7. StageOK(run')
    <3>1. Len(run'.responses) = 1
      BY <1>1, <2>3
    <3>2. /\ Len(run'.responses) >= 1
          /\ Len(run'.responses) + Len(run'.routes) <= 1 + MaxRoutes
          /\ ToSet(run'.routes) \subseteq run'.catalog
      BY <2>2, <2>3, <2>6, <3>1
    <3>3. run'.reasons \cap PlanReasons = {}
      BY <2>3
    <3> QED BY <2>3, <3>2, <3>3 DEF StageOK
  <2> QED BY <2>4, <2>5, <2>7 DEF GatheredOK
<1>4. \/ \E reasons \in {{"DOCUMENT_ROUTE_PLAN_FAILED"}, {"DOCUMENT_ROUTE_SCOPE_REJECTED"},
                         {"DOCUMENT_ROUTE_LOW_CONFIDENCE"}} : NoRoutes(reasons)
      \/ \E routes \in BoundedSeq(Docs, MaxPlanned) :
           /\ Allowed(routes)
           /\ run' = [run EXCEPT !.pc = "routing", !.planned = run.planned + 1,
                                 !.routes = routes]
  BY <1>1 DEF PlanRoutes, Gathered
<1> QED BY <1>2, <1>3, <1>4

\* A search routed to one document adds a list of its chunks.
LEMMA RouteKeeps ==
  ASSUME CorpusOK, GatheredOK(run), RouteSearch
  PROVE  GatheredOK(run')
<1>1. /\ run \in Gathered /\ run.pc = "routing" /\ run.routes # <<>>
      /\ run.responses \in Seq(Seq(Chunks)) /\ run.routes \in Seq(Docs)
      /\ Len(run.responses) >= 1
      /\ Len(run.responses) + Len(run.routes) <= 1 + MaxRoutes
      /\ ToSet(run.routes) \subseteq run.catalog
      /\ run.reasons \cap PlanReasons = {} /\ run.results = <<>>
      /\ run.catalog \subseteq run.seen /\ run.merged \subseteq run.catalog
      /\ IsFiniteSet(run.merged)
  BY DEF GatheredOK, RouteSearch, StageOK, ResultsOK, CatalogOK, Gathered
<1> DEFINE d == Head(run.routes)
           routes == Tail(run.routes)
<1>2. /\ d \in Docs /\ d \in run.catalog /\ routes \in Seq(Docs)
      /\ Len(routes) = Len(run.routes) - 1 /\ ToSet(routes) \subseteq run.catalog
  <2>1. DOMAIN run.routes = 1..Len(run.routes) /\ Len(run.routes) \in Nat \ {0}
    BY <1>1
  <2>2. d \in Docs /\ d = run.routes[1] /\ 1 \in DOMAIN run.routes
    BY <1>1, <2>1
  <2>3. routes \in Seq(Docs) /\ Len(routes) = Len(run.routes) - 1
        /\ \A i \in 1..Len(routes) : routes[i] = run.routes[i + 1]
    BY <1>1, <2>1
  <2>4. \A i \in DOMAIN routes : i \in 1..Len(routes) /\ i + 1 \in DOMAIN run.routes
    BY <2>1, <2>3
  <2> QED BY <1>1, <2>2, <2>3, <2>4 DEF ToSet
<1>3. PICK list \in Rankings(DocumentScope(d)) :
        run' = [run EXCEPT !.responses = Append(run.responses, list),
                           !.merged = run.merged \cup {d}, !.routes = routes]
  BY <1>1 DEF RouteSearch, DocumentScope, Gathered
<1> HIDE DEF d, routes
<1>4. ListOK(list, run.seen)
  BY <1>1, <1>2, SearchReturns, ScopeIsReady
<1> DEFINE responses == Append(run.responses, list)
<1>5. /\ responses \in Seq(Seq(Chunks)) /\ Len(responses) = Len(run.responses) + 1
      /\ \A q \in 1..Len(responses) : ListOK(responses[q], run.seen)
  BY <1>1, <1>4, ListAdded DEF GatheredOK, ListsOK
<1> HIDE DEF responses
<1>6. run' = [run EXCEPT !.responses = responses, !.merged = run.merged \cup {d},
                         !.routes = routes]
  BY <1>3 DEF responses
<1>7. /\ run'.pc = "routing" /\ run'.responses = responses /\ run'.seen = run.seen
      /\ run'.results = <<>> /\ run'.catalog = run.catalog
      /\ run'.merged = run.merged \cup {d} /\ run'.reasons = run.reasons
      /\ run'.routes = routes
  BY <1>1, <1>6 DEF Gathered
<1>8. run' \in Gathered
  <2>1. run.merged \cup {d} \in SUBSET Docs
    BY <1>1, <1>2 DEF Gathered
  <2> QED BY <1>1, <1>2, <1>5, <1>6, <2>1 DEF Gathered
<1>9. ListsOK(run')
  BY <1>5, <1>7 DEF ListsOK
<1>10. CatalogOK(run')
  <2>1. IsFiniteSet(run.merged \cup {d})
    BY <1>1, FS_AddElement
  <2> QED BY <1>1, <1>2, <1>7, <2>1 DEF CatalogOK
<1>11. StageOK(run') /\ ResultsOK(run')
  <2>1. /\ Len(run'.responses) >= 1
        /\ Len(run'.responses) + Len(run'.routes) <= 1 + MaxRoutes
    <3> DEFINE a == Len(run.responses)
               b == Len(run.routes)
    <3>1. a \in Nat /\ b \in Nat
      BY <1>1
    <3>2. a + b <= 1 + MaxRoutes
      BY <1>1
    <3>3. Len(run'.responses) = a + 1 /\ Len(run'.routes) = b - 1
      BY <1>2, <1>5, <1>7
    <3>4. MaxRoutes \in Nat
      BY WorkflowAssumption
    <3> HIDE DEF a, b
    <3> QED BY <3>1, <3>2, <3>3, <3>4
  <2> QED BY <1>1, <1>2, <1>7, <2>1 DEF StageOK, ResultsOK
<1> QED BY <1>8, <1>9, <1>10, <1>11 DEF GatheredOK

\* A routed search that fails costs its document only.
LEMMA RouteFailKeeps ==
  ASSUME GatheredOK(run), RouteSearchFails
  PROVE  GatheredOK(run')
<1>1. /\ run \in Gathered /\ run.pc = "routing" /\ run.routes # <<>>
      /\ run.routes \in Seq(Docs) /\ Len(run.responses) \in Nat
      /\ Len(run.responses) >= 1
      /\ Len(run.responses) + Len(run.routes) <= 1 + MaxRoutes
      /\ ToSet(run.routes) \subseteq run.catalog
      /\ run.reasons \cap PlanReasons = {} /\ run.results = <<>>
  BY DEF GatheredOK, RouteSearchFails, StageOK, ResultsOK, Gathered
<1> DEFINE routes == Tail(run.routes)
           reasons == run.reasons \cup {"DOCUMENT_ROUTE_SEARCH_FAILED"}
<1>2. /\ routes \in Seq(Docs) /\ Len(routes) = Len(run.routes) - 1
      /\ ToSet(routes) \subseteq run.catalog
  <2>1. DOMAIN run.routes = 1..Len(run.routes) /\ Len(run.routes) \in Nat \ {0}
    BY <1>1
  <2>2. routes \in Seq(Docs) /\ Len(routes) = Len(run.routes) - 1
        /\ \A i \in 1..Len(routes) : routes[i] = run.routes[i + 1]
    BY <1>1, <2>1
  <2>3. \A i \in DOMAIN routes : i \in 1..Len(routes) /\ i + 1 \in DOMAIN run.routes
    BY <2>1, <2>2
  <2> QED BY <1>1, <2>2, <2>3 DEF ToSet
<1>3. run' = [run EXCEPT !.reasons = reasons, !.routes = routes]
  BY <1>1 DEF RouteSearchFails, Gathered
<1>4. reasons \in SUBSET Reasons /\ reasons \cap PlanReasons = {}
  BY <1>1 DEF Gathered, Reasons, PlanReasons
<1> HIDE DEF routes, reasons
<1>5. /\ run'.pc = "routing" /\ run'.responses = run.responses /\ run'.seen = run.seen
      /\ run'.results = <<>> /\ run'.catalog = run.catalog
      /\ run'.merged = run.merged /\ run'.reasons = reasons /\ run'.routes = routes
  BY <1>1, <1>3 DEF Gathered
<1>6. run' \in Gathered
  BY <1>1, <1>2, <1>3, <1>4 DEF Gathered
<1>7. ListsOK(run') /\ CatalogOK(run')
  BY <1>5 DEF GatheredOK, ListsOK, CatalogOK
<1>8. Len(run'.responses) + Len(run'.routes) <= 1 + MaxRoutes
  <2> DEFINE a == Len(run.responses)
             b == Len(run.routes)
  <2>1. a \in Nat /\ b \in Nat
    BY <1>1
  <2>2. a + b <= 1 + MaxRoutes
    BY <1>1
  <2>3. Len(run'.responses) = a /\ Len(run'.routes) = b - 1
    BY <1>2, <1>5
  <2>4. MaxRoutes \in Nat
    BY WorkflowAssumption
  <2> HIDE DEF a, b
  <2> QED BY <2>1, <2>2, <2>3, <2>4
<1>9. StageOK(run') /\ ResultsOK(run')
  BY <1>1, <1>2, <1>4, <1>5, <1>8 DEF StageOK, ResultsOK
<1> QED BY <1>6, <1>7, <1>9 DEF GatheredOK

\* The answer of the lists gathered so far.
LEMMA AnswerTyped ==
  ASSUME NEW r \in Gathered, ListsOK(r), CatalogOK(r), Len(r.responses) >= 1
  PROVE  Answer(r) \in Seq(Chunks)
<1>1. Lists(r.responses) /\ Len(r.responses) \in Nat /\ IsFiniteSet(r.merged)
  BY DEF Gathered, Lists, CatalogOK
<1>2. CASE Len(r.responses) = 1
  BY <1>2 DEF Gathered, Answer
<1>3. CASE Len(r.responses) # 1
  <2> DEFINE results == MergeSearchResponses(r.responses, r.selection, r.merged)
  <2>1. Picks(results, Eligible(r.responses, r.selection), r.responses, r.merged)
    BY <1>1, MergePicks
  <2> HIDE DEF results
  <2>2. results \in Seq(Retrieved(r.responses)) /\ Retrieved(r.responses) \subseteq Chunks
    BY <1>1, <2>1, RetrievedFinite DEF Picks
  <2>3. results \in Seq(Chunks)
    BY <2>2
  <2> QED BY <1>3, <2>3 DEF Answer, results
<1> QED BY <1>2, <1>3

\* A run ends with the answer of what it gathered.
LEMMA EndKeeps ==
  ASSUME GatheredOK(run), run.pc \in {"routing", "refining", "searching"},
         NEW reasons \in SUBSET (Reasons \ PlanReasons), NEW planned \in Nat,
         run' = [run EXCEPT !.pc = "done", !.planned = planned,
                   !.reasons = run.reasons \cup reasons, !.results = Answer(run)]
  PROVE  GatheredOK(run')
<1>1. /\ run \in Gathered /\ Len(run.responses) \in Nat /\ Len(run.responses) >= 1
      /\ run.pc = "routing" => Len(run.responses) + Len(run.routes) <= 1 + MaxRoutes
      /\ run.pc # "routing" => Len(run.responses) = 1
      /\ Len(run.routes) \in Nat
      /\ run.reasons \cap PlanReasons = {}
  <2>1. run \in Gathered /\ StageOK(run)
    BY DEF GatheredOK
  <2>2. Len(run.responses) \in Nat /\ Len(run.routes) \in Nat
    BY <2>1 DEF Gathered
  <2>3. /\ run.pc # "routing" => Len(run.responses) = 1
        /\ run.pc = "routing" => /\ Len(run.responses) >= 1
                                 /\ Len(run.responses) + Len(run.routes) <= 1 + MaxRoutes
        /\ run.reasons \cap PlanReasons = {}
    BY <2>1 DEF StageOK
  <2>4. Len(run.responses) >= 1
    <3> DEFINE a == Len(run.responses)
    <3>1. a = 1 \/ a >= 1
      BY <2>3
    <3> HIDE DEF a
    <3>2. a >= 1
      BY <3>1
    <3> QED BY <3>2 DEF a
  <2> QED BY <2>1, <2>2, <2>3, <2>4
<1>2. Answer(run) \in Seq(Chunks)
  BY <1>1, AnswerTyped DEF GatheredOK
<1>3. /\ run'.pc = "done" /\ run'.responses = run.responses /\ run'.seen = run.seen
      /\ run'.results = Answer(run) /\ run'.catalog = run.catalog /\ run'.merged = run.merged
      /\ run'.reasons = run.reasons \cup reasons /\ run'.selection = run.selection
  BY <1>1 DEF Gathered
<1>4. run' \in Gathered
  <2>1. run.reasons \cup reasons \in SUBSET Reasons /\ "done" \in Pcs
    BY <1>1 DEF Gathered, Pcs
  <2> HIDE DEF Reasons
  <2> QED BY <1>1, <1>2, <2>1 DEF Gathered
<1>5. ListsOK(run') /\ CatalogOK(run')
  BY <1>3 DEF GatheredOK, ListsOK, CatalogOK
<1>6. Len(run'.responses) \in 1..(1 + MaxRoutes)
  <2> DEFINE a == Len(run.responses)
             b == Len(run.routes)
  <2>1. a \in Nat /\ b \in Nat /\ a >= 1 /\ (a = 1 \/ a + b <= 1 + MaxRoutes)
    BY <1>1
  <2>2. MaxRoutes \in Nat /\ Len(run'.responses) = a
    BY <1>3, WorkflowAssumption
  <2> HIDE DEF a, b
  <2> QED BY <2>1, <2>2
<1>7. run'.reasons \cap PlanReasons = {}
  BY <1>1, <1>3
<1>8. StageOK(run')
  BY <1>3, <1>6, <1>7 DEF StageOK
<1>9. ResultsOK(run')
  BY <1>3 DEF ResultsOK, Answer
<1> QED BY <1>4, <1>5, <1>8, <1>9 DEF GatheredOK

\* The steps that end a run with what it has.
LEMMA FinishKeeps ==
  ASSUME GatheredOK(run), MergeRoutes \/ PlanRefinement \/ RefineFails
  PROVE  GatheredOK(run')
<1>1. /\ run \in Gathered /\ run.planned \in Nat /\ run.results = <<>>
      /\ run.pc \in {"routing", "refining", "searching"}
      /\ run.pc # "routing" => Len(run.responses) = 1
      /\ run.pc # "routing" => run.merged = {}
  BY DEF GatheredOK, StageOK, ResultsOK, Gathered, MergeRoutes, PlanRefinement, RefineFails
<1>2. {} \in SUBSET (Reasons \ PlanReasons)
      /\ {"EVIDENCE_PLAN_FAILED"} \in SUBSET (Reasons \ PlanReasons)
      /\ {"REFINEMENT_SEARCH_FAILED"} \in SUBSET (Reasons \ PlanReasons)
  BY DEF Reasons, PlanReasons
<1>3. CASE MergeRoutes
  <2>1. run' = [run EXCEPT !.pc = "done", !.results = Answer(run),
                           !.reasons = run.reasons \cup {}]
    BY <1>1, <1>3 DEF MergeRoutes, Finish, Answer, Primary, Gathered
  <2>2. run' = [run EXCEPT !.pc = "done", !.planned = run.planned,
                           !.reasons = run.reasons \cup {}, !.results = Answer(run)]
    <3> HIDE DEF Answer
    <3> QED BY <1>1, <2>1 DEF Gathered
  <2> QED BY <1>1, <1>2, <2>2, EndKeeps
<1>4. CASE RefineFails
  <2>1. Answer(run) = Primary
    BY <1>1, <1>4 DEF Answer, Primary, RefineFails
  <2>2. run' = [run EXCEPT !.pc = "done", !.results = Answer(run),
                           !.reasons = run.reasons \cup {"REFINEMENT_SEARCH_FAILED"}]
    BY <1>1, <1>4, <2>1 DEF RefineFails, Finish, Gathered
  <2>3. run' = [run EXCEPT !.pc = "done", !.planned = run.planned,
                   !.reasons = run.reasons \cup {"REFINEMENT_SEARCH_FAILED"},
                   !.results = Answer(run)]
    <3> HIDE DEF Answer
    <3> QED BY <1>1, <2>2 DEF Gathered
  <2> QED BY <1>1, <1>2, <2>3, EndKeeps
<1>5. CASE PlanRefinement
  <2>1. Answer(run) = Primary /\ run.planned + 1 \in Nat /\ run.pc = "refining"
    BY <1>1, <1>5 DEF Answer, Primary, PlanRefinement
  <2>2. CASE run' = [run EXCEPT !.pc = "done", !.planned = run.planned + 1, !.results = Primary,
                                !.reasons = run.reasons \cup {"EVIDENCE_PLAN_FAILED"}]
    <3>1. run' = [run EXCEPT !.pc = "done", !.planned = run.planned + 1,
                     !.reasons = run.reasons \cup {"EVIDENCE_PLAN_FAILED"},
                     !.results = Answer(run)]
      <4> HIDE DEF Answer
      <4> QED BY <1>1, <2>1, <2>2 DEF Gathered
    <3> QED BY <1>1, <1>2, <2>1, <3>1, EndKeeps
  <2>3. CASE run' = [run EXCEPT !.pc = "done", !.planned = run.planned + 1, !.results = Primary]
    <3>1. run' = [run EXCEPT !.pc = "done", !.planned = run.planned + 1,
                     !.reasons = run.reasons \cup {}, !.results = Answer(run)]
      <4> HIDE DEF Answer
      <4> QED BY <1>1, <2>1, <2>3 DEF Gathered
    <3> QED BY <1>1, <1>2, <2>1, <3>1, EndKeeps
  <2>4. CASE run' = [run EXCEPT !.pc = "searching", !.planned = run.planned + 1]
    <3>1. /\ run'.pc = "searching" /\ run'.responses = run.responses /\ run'.seen = run.seen
          /\ run'.results = run.results /\ run'.catalog = run.catalog
          /\ run'.merged = run.merged /\ run'.reasons = run.reasons
      BY <1>1, <2>4 DEF Gathered
    <3>2. run' \in Gathered
      <4>1. "searching" \in Pcs
        BY DEF Pcs
      <4> QED BY <1>1, <2>1, <2>4, <4>1 DEF Gathered
    <3>3. ListsOK(run') /\ CatalogOK(run') /\ ResultsOK(run')
      BY <1>1, <3>1 DEF GatheredOK, ListsOK, CatalogOK, ResultsOK
    <3>4. StageOK(run')
      BY <2>1, <3>1 DEF GatheredOK, StageOK
    <3> QED BY <3>2, <3>3, <3>4 DEF GatheredOK
  <2>5. \/ run' = [run EXCEPT !.pc = "done", !.planned = run.planned + 1, !.results = Primary,
                              !.reasons = run.reasons \cup {"EVIDENCE_PLAN_FAILED"}]
        \/ run' = [run EXCEPT !.pc = "done", !.planned = run.planned + 1, !.results = Primary]
        \/ run' = [run EXCEPT !.pc = "searching", !.planned = run.planned + 1]
    BY <1>5, <1>1 DEF PlanRefinement, Gathered
  <2> QED BY <2>2, <2>3, <2>4, <2>5
<1> QED BY <1>3, <1>4, <1>5

\* The refined search: two lists are merged, and no places are kept.
LEMMA RefineKeeps ==
  ASSUME CorpusOK, GatheredOK(run), Refine
  PROVE  GatheredOK(run')
<1>1. /\ run \in Gathered /\ run.pc = "searching" /\ run.scope \in Scopes
      /\ run.responses \in Seq(Seq(Chunks)) /\ Len(run.responses) = 1
      /\ run.merged = {} /\ run.reasons \cap PlanReasons = {}
  BY DEF GatheredOK, Refine, StageOK, Gathered
<1> DEFINE seen == run.seen \cup InScope(run.scope)
<1>2. PICK list \in Rankings(run.scope) :
        run' = [run EXCEPT !.pc = "done", !.responses = Append(run.responses, list),
                  !.seen = seen,
                  !.results = MergeSearchResponses(<<Primary, list>>, run.selection, {})]
  BY <1>1 DEF Refine, Gathered
<1>3. /\ ListOK(list, seen) /\ run.seen \subseteq seen /\ seen \subseteq Docs
  BY <1>1, SearchReturns, ScopeIsReady DEF CorpusOK, Gathered
<1> HIDE DEF seen
<1> DEFINE responses == Append(run.responses, list)
           results == MergeSearchResponses(responses, run.selection, {})
<1>4. /\ responses \in Seq(Seq(Chunks)) /\ Len(responses) = 2
      /\ \A q \in 1..Len(responses) : ListOK(responses[q], seen)
  <2>1. \A q \in 1..Len(run.responses) : ListOK(run.responses[q], run.seen)
    BY DEF GatheredOK, ListsOK
  <2>2. /\ responses \in Seq(Seq(Chunks)) /\ Len(responses) = Len(run.responses) + 1
        /\ \A q \in 1..Len(responses) : ListOK(responses[q], seen)
    BY <1>1, <1>3, <2>1, ListAdded
  <2> HIDE DEF responses
  <2> QED BY <1>1, <2>2
<1>5. <<Primary, list>> = responses
  <2>1. list \in Seq(Chunks) /\ Primary \in Seq(Chunks)
    BY <1>1, <1>3 DEF ListOK, Primary
  <2>2. responses[1] = Primary /\ responses[2] = list
    BY <1>1, <2>1 DEF Primary
  <2> HIDE DEF responses
  <2> QED BY <1>4, <2>1, <2>2
<1> HIDE DEF responses
<1>6. run' = [run EXCEPT !.pc = "done", !.responses = responses, !.seen = seen,
                         !.results = results]
  BY <1>2, <1>5 DEF responses
<1> HIDE DEF results
<1>7. /\ run'.pc = "done" /\ run'.responses = responses /\ run'.seen = seen
      /\ run'.results = results /\ run'.catalog = run.catalog /\ run'.merged = {}
      /\ run'.reasons = run.reasons /\ run'.selection = run.selection
  BY <1>1, <1>6 DEF Gathered
<1>8. results \in Seq(Chunks)
  <2>1. Lists(responses)
    BY <1>4 DEF Lists
  <2>2. IsFiniteSet({})
    BY FS_EmptySet
  <2>3. Picks(results, Eligible(responses, run.selection), responses, {})
    BY <2>1, <2>2, MergePicks DEF results
  <2>4. results \in Seq(Retrieved(responses)) /\ Retrieved(responses) \subseteq Chunks
    BY <2>1, <2>3, RetrievedFinite DEF Picks
  <2> QED BY <2>4
<1>9. run' \in Gathered
  <2>1. "done" \in Pcs
    BY DEF Pcs
  <2> QED BY <1>1, <1>3, <1>4, <1>6, <1>8, <2>1 DEF Gathered
<1>10. ListsOK(run')
  BY <1>4, <1>7 DEF ListsOK
<1>11. CatalogOK(run')
  BY <1>3, <1>7, FS_EmptySet DEF GatheredOK, CatalogOK
<1>12. StageOK(run')
  <2>1. 2 \in 1..(1 + MaxRoutes)
    BY WorkflowAssumption
  <2> QED BY <1>1, <1>4, <1>7, <2>1 DEF StageOK
<1>13. ResultsOK(run')
  <2>1. Len(run'.responses) # 1 /\ run'.results = results
    BY <1>4, <1>7
  <2>2. Answer(run') = MergeSearchResponses(run'.responses, run'.selection, run'.merged)
    BY <2>1 DEF Answer
  <2>3. Answer(run') = results
    BY <1>7, <2>2 DEF results
  <2> QED BY <1>7, <2>1, <2>3 DEF ResultsOK
<1> QED BY <1>9, <1>10, <1>11, <1>12, <1>13 DEF GatheredOK

-----------------------------------------------------------------------------
(* Theorems *)

\* A run starts with nothing gathered.
LEMMA Initially ==
  ASSUME Init
  PROVE  IInv
<1>1. ready \subseteq Docs /\ members \subseteq Docs /\ changes = 0
  <2>1. PICK w \in Workflows, sel \in Selections, sc \in Scopes :
          members \in (IF sc.type = "collection" THEN {{}, Docs} ELSE {{}})
    BY DEF Init
  <2> QED BY <2>1 DEF Init
<1>2. PICK w \in Workflows, sel \in Selections, sc \in Scopes :
        run = [pc |-> "primary", workflow |-> w, selection |-> sel, scope |-> sc,
               responses |-> <<>>, catalog |-> {}, routes |-> <<>>, merged |-> {},
               reasons |-> {}, planned |-> 0, seen |-> {}, results |-> <<>>]
  BY DEF Init
<1>3. CorpusOK
  BY <1>1, WorkflowAssumption DEF CorpusOK
<1>4. run \in Gathered
  <2>1. <<>> \in Seq(Seq(Chunks)) /\ <<>> \in Seq(Docs) /\ <<>> \in Seq(Chunks)
        /\ "primary" \in Pcs
    BY DEF Pcs
  <2> QED BY <1>2, <2>1 DEF Gathered
<1>5. /\ run.pc = "primary" /\ run.responses = <<>> /\ run.catalog = {} /\ run.merged = {}
      /\ run.reasons = {} /\ run.planned = 0 /\ run.results = <<>>
  BY <1>2
<1>6. ListsOK(run) /\ CatalogOK(run) /\ StageOK(run) /\ ResultsOK(run)
  BY <1>5, FS_EmptySet DEF ListsOK, CatalogOK, StageOK, ResultsOK
<1> QED BY <1>3, <1>4, <1>6 DEF IInv, GatheredOK

\* Every step keeps the invariant: a search adds a list, a plan its routes, and only the
\* corpus changes under the feet of a run.
LEMMA StepKeeps ==
  ASSUME IInv, [Next]_vars
  PROVE  IInv'
<1>1. CorpusOK /\ GatheredOK(run)
  BY DEF IInv
<1>2. ASSUME UNCHANGED Corpus PROVE CorpusOK'
  BY <1>1, <1>2 DEF CorpusOK, Corpus
<1>3. ASSUME UNCHANGED run PROVE GatheredOK(run')
  BY <1>1, <1>3
<1>4. CASE Fails
  <2>1. UNCHANGED Corpus
    BY <1>4 DEF Fails
  <2> QED BY <1>1, <1>2, <1>4, <2>1, FailsKeeps DEF IInv
<1>5. CASE PrimarySearch
  <2>1. UNCHANGED Corpus
    BY <1>5 DEF PrimarySearch
  <2> QED BY <1>1, <1>2, <1>5, <2>1, PrimaryKeeps DEF IInv
<1>6. CASE ReadCatalog
  <2>1. UNCHANGED Corpus
    BY <1>6 DEF ReadCatalog
  <2> QED BY <1>1, <1>2, <1>6, <2>1, CatalogKeeps DEF IInv
<1>7. CASE PlanRoutes
  <2>1. UNCHANGED Corpus
    BY <1>7 DEF PlanRoutes
  <2> QED BY <1>1, <1>2, <1>7, <2>1, PlanKeeps DEF IInv
<1>8. CASE RouteSearch
  <2>1. UNCHANGED Corpus
    BY <1>8 DEF RouteSearch
  <2> QED BY <1>1, <1>2, <1>8, <2>1, RouteKeeps DEF IInv
<1>9. CASE RouteSearchFails
  <2>1. UNCHANGED Corpus
    BY <1>9 DEF RouteSearchFails
  <2> QED BY <1>1, <1>2, <1>9, <2>1, RouteFailKeeps DEF IInv
<1>10. CASE MergeRoutes \/ PlanRefinement \/ RefineFails
  <2>1. UNCHANGED Corpus
    BY <1>10 DEF MergeRoutes, PlanRefinement, RefineFails
  <2> QED BY <1>1, <1>2, <1>10, <2>1, FinishKeeps DEF IInv
<1>11. CASE Refine
  <2>1. UNCHANGED Corpus
    BY <1>11 DEF Refine
  <2> QED BY <1>1, <1>2, <1>11, <2>1, RefineKeeps DEF IInv
<1>12. CASE StatusChanges \/ AddDocument \/ RemoveDocument \/ DeleteCollection
  <2>1. /\ UNCHANGED run /\ changes < MaxChanges /\ changes' = changes + 1
        /\ ready' \subseteq Docs /\ members' \subseteq Docs
    BY <1>1, <1>12 DEF StatusChanges, AddDocument, RemoveDocument, DeleteCollection, Change,
                       CorpusOK
  <2>2. changes' \in 0..MaxChanges
    BY <1>1, <2>1, WorkflowAssumption DEF CorpusOK
  <2> QED BY <1>3, <2>1, <2>2 DEF IInv, CorpusOK
<1>13. CASE UNCHANGED vars
  BY <1>1, <1>2, <1>3, <1>13 DEF IInv, vars, Corpus
<1> QED BY <1>4, <1>5, <1>6, <1>7, <1>8, <1>9, <1>10, <1>11, <1>12, <1>13 DEF Next

\* What a run has gathered at each stage, whatever the corpus and the planner do meanwhile.
THEOREM EvidenceInductive == Spec => []IInv
BY Initially, StepKeeps, PTL DEF Spec

\* What a run that is done has, in terms of the merge.
LEMMA DoneRun ==
  ASSUME IInv
  PROVE  /\ run \in Gathered /\ Lists(run.responses) /\ IsFiniteSet(run.merged)
         /\ ~Done => run.results = <<>>
         /\ Done => Len(run.responses) >= 1
         /\ Done /\ Len(run.responses) = 1 => run.results = Primary /\ ListOK(Primary, run.seen)
         /\ Done /\ Len(run.responses) # 1 =>
              Picks(run.results, Eligible(run.responses, run.selection), run.responses, run.merged)
<1>1. /\ run \in Gathered /\ IsFiniteSet(run.merged) /\ ListsOK(run)
      /\ StageOK(run) /\ ResultsOK(run)
  BY DEF IInv, GatheredOK, CatalogOK
<1>2. Lists(run.responses)
  BY <1>1 DEF Gathered, Lists
<1>3. ~Done => run.results = <<>>
  BY <1>1 DEF ResultsOK, Done
<1>4. Done => run.results = Answer(run)
  BY <1>1 DEF ResultsOK, Done
<1>5. Done => Len(run.responses) >= 1
  <2>1. Done => Len(run.responses) \in 1..(1 + MaxRoutes)
    BY <1>1 DEF StageOK, Done
  <2> QED BY <2>1, WorkflowAssumption
<1>6. ASSUME Done, Len(run.responses) = 1
      PROVE  run.results = Primary /\ ListOK(Primary, run.seen)
  BY <1>1, <1>4, <1>6 DEF Answer, Primary, ListsOK
<1>7. ASSUME Done, Len(run.responses) # 1
      PROVE  Picks(run.results, Eligible(run.responses, run.selection), run.responses, run.merged)
  <2>1. run.results = MergeSearchResponses(run.responses, run.selection, run.merged)
    BY <1>4, <1>7 DEF Answer
  <2> QED BY <1>1, <1>2, <2>1, MergePicks
<1> QED BY <1>1, <1>2, <1>3, <1>5, <1>6, <1>7

\* What is retrieved is of a list, and so of a document that the run resolved.
LEMMA RetrievedInScope ==
  ASSUME IInv, NEW c \in Retrieved(run.responses)
  PROVE  DocOf[c] \in run.seen
<1>1. run.responses \in Seq(Seq(Chunks)) /\ ListsOK(run)
  BY DEF IInv, GatheredOK, Gathered
<1>2. PICK q \in 1..Len(run.responses) : c \in ToSet(run.responses[q])
  BY <1>1 DEF Retrieved
<1>3. ListOK(run.responses[q], run.seen)
  BY <1>1 DEF ListsOK
<1>4. PICK i \in DOMAIN run.responses[q] : run.responses[q][i] = c
  BY <1>2 DEF ToSet
<1>5. DOMAIN run.responses[q] = 1..Len(run.responses[q])
  BY <1>3 DEF ListOK
<1> QED BY <1>3, <1>4, <1>5 DEF ListOK

\* Every state is well typed; results are never longer than wanted and name no chunk twice.
THEOREM EvidenceTypeCorrect == Spec => []TypeOK
<1>1. IInv => TypeOK
  <2> SUFFICES ASSUME IInv PROVE TypeOK
    OBVIOUS
  <2>1. CorpusOK /\ run \in Gathered /\ CatalogOK(run) /\ StageOK(run)
    BY DEF IInv, GatheredOK
  <2>2. ready \subseteq Docs /\ members \subseteq Docs /\ changes \in 0..MaxChanges
    BY <2>1 DEF CorpusOK
  <2>3. /\ run.pc \in Pcs /\ run.scope \in Scopes /\ run.reasons \subseteq Reasons
        /\ run.catalog \subseteq Docs /\ run.merged \subseteq run.catalog
    BY <2>1 DEF Gathered, CatalogOK
  <2>4. \A i \in DOMAIN run.responses : ToSet(run.responses[i]) \subseteq Chunks
    <3>1. run.responses \in Seq(Seq(Chunks))
      BY <2>1 DEF Gathered
    <3>2. \A i \in DOMAIN run.responses : run.responses[i] \in Seq(Chunks)
      BY <3>1
    <3>3. \A list \in Seq(Chunks) : ToSet(list) \subseteq Chunks
      BY DEF ToSet
    <3> QED BY <3>2, <3>3
  <2>5. Len(run.responses) <= 1 + MaxRoutes
    <3> DEFINE a == Len(run.responses)
               b == Len(run.routes)
    <3>1. a \in Nat /\ b \in Nat
      BY <2>1 DEF Gathered
    <3>2. a = 0 \/ a = 1 \/ a + b <= 1 + MaxRoutes \/ a \in 1..(1 + MaxRoutes)
      <4>1. Len(<<>>) = 0
        OBVIOUS
      <4> QED BY <2>1, <2>3, <4>1 DEF StageOK, Pcs
    <3>3. MaxRoutes \in Nat
      BY WorkflowAssumption
    <3> HIDE DEF a, b
    <3>4. a <= 1 + MaxRoutes
      BY <3>1, <3>2, <3>3
    <3> QED BY <3>4 DEF a
  <2>6. Len(run.results) <= TopK /\ IsInjective(run.results)
    <3>1. CASE ~Done
      <4>1. run.results = <<>> /\ Len(<<>>) = 0 /\ DOMAIN <<>> = {}
        BY <3>1, DoneRun
      <4>2. Len(run.results) <= TopK
        BY <4>1, MergeAssumption
      <4> QED BY <4>1, <4>2 DEF IsInjective
    <3>2. CASE Done /\ Len(run.responses) = 1
      BY <3>2, DoneRun DEF ListOK
    <3>3. CASE Done /\ Len(run.responses) # 1
      BY <3>3, DoneRun DEF Picks
    <3> QED BY <3>1, <3>2, <3>3
  <2> QED BY <2>2, <2>3, <2>4, <2>5, <2>6 DEF TypeOK
<1> QED BY <1>1, EvidenceInductive, PTL

\* Evidence only comes from documents that were READY in the session's scope when the run
\* resolved it, whatever the planner names.
THEOREM EvidenceIsInScope == Spec => []EvidenceInScope
<1>1. IInv => EvidenceInScope
  <2> SUFFICES ASSUME IInv, NEW i \in DOMAIN run.results PROVE DocOf[run.results[i]] \in run.seen
    BY DEF EvidenceInScope
  <2>1. CASE ~Done
    <3>1. run.results = <<>> /\ DOMAIN <<>> = {}
      BY <2>1, DoneRun
    <3> QED BY <3>1
  <2>2. CASE Done /\ Len(run.responses) = 1
    <3>1. run.results = Primary /\ ListOK(Primary, run.seen)
      BY <2>2, DoneRun
    <3> HIDE DEF Primary
    <3> QED BY <3>1 DEF ListOK
  <2>3. CASE Done /\ Len(run.responses) # 1
    <3>1. run.results \in Seq(Retrieved(run.responses))
      BY <2>3, DoneRun DEF Picks
    <3>2. run.results[i] \in Retrieved(run.responses)
      BY <3>1
    <3> QED BY <3>2, RetrievedInScope
  <2> QED BY <2>1, <2>2, <2>3
<1> QED BY <1>1, EvidenceInductive, PTL

\* A router that fails or names documents out of the catalog costs nothing: the primary
\* results stand, and no second planner runs.
THEOREM RouterFailureIsHarmless == Spec => []RouterFailureKeepsPrimary
<1>1. IInv => RouterFailureKeepsPrimary
  <2> SUFFICES ASSUME IInv, Done, run.reasons \cap PlanReasons # {}
               PROVE  run.results = Primary /\ run.planned = 1
    BY DEF RouterFailureKeepsPrimary, PlanReasons
  <2>1. run.planned = 1 /\ Len(run.responses) = 1
    BY DEF IInv, GatheredOK, StageOK, Done
  <2> QED BY <2>1, DoneRun
<1> QED BY <1>1, EvidenceInductive, PTL

-----------------------------------------------------------------------------
(* Duplicates *)

\* A chunk that evidence makes redundant is repeated by it.
LEMMA RedundantIsRepeated ==
  ASSUME run.selection \in Strategies, NEW kept, NEW evidence, kept \subseteq evidence,
         NEW c, Redundant(kept, c, run.selection)
  PROVE  Repeated(c, evidence)
<1>1. CASE \E e \in kept : DedupKey(e, run.selection) = DedupKey(c, run.selection)
  <2>1. PICK e \in kept : DedupKey(e, run.selection) = DedupKey(c, run.selection)
    BY <1>1
  <2>2. CASE run.selection = "legacy"
    <3>1. TextOf[c] = TextOf[e]
      BY <2>1, <2>2 DEF DedupKey
    <3> QED BY <2>2, <3>1 DEF Repeated
  <2>3. CASE run.selection = "cell_coverage"
    <3>1. TextOf[c] = TextOf[e] /\ DocOf[c] = DocOf[e] /\ TableOf[c] = TableOf[e]
      BY <2>1, <2>3 DEF DedupKey
    <3> QED BY <3>1 DEF Repeated, SameTable
  <2> QED BY <2>2, <2>3 DEF Strategies
<1>2. CASE /\ run.selection = "cell_coverage" /\ TableOf[c] # NoTable /\ CellsOf[c] # {}
           /\ CellsOf[c] \subseteq CoveredCells(kept, c)
  <2>1. ASSUME NEW cell \in CellsOf[c]
        PROVE  \E e \in evidence : SameTable(c, e) /\ cell \in CellsOf[e]
    BY <1>2 DEF CoveredCells, SameTable
  <2> QED BY <1>2, <2>1 DEF Repeated
<1> QED BY <1>1, <1>2 DEF Redundant

\* The merge of a run of several lists, and what it left out.
LEMMA LeftOut ==
  ASSUME IInv, Done, Len(run.responses) > 1
  PROVE  LET eligible == Eligible(run.responses, run.selection)
         IN  /\ ToSet(eligible) \subseteq Retrieved(run.responses)
             /\ ToSet(run.results) \subseteq Retrieved(run.responses)
             /\ \A c \in ToSet(eligible) \ ToSet(run.results) :
                  /\ Len(run.results) = TopK
                  /\ \A x \in ToSet(run.results) :
                       DocOf[x] \in run.merged \/ Better(x, c, run.responses)
<1> DEFINE eligible == Eligible(run.responses, run.selection)
           R == Retrieved(run.responses)
<1>1. Lists(run.responses) /\ Len(run.responses) \in Nat
  BY DoneRun DEF Lists
<1>2. Picks(run.results, eligible, run.responses, run.merged)
  <2>1. Len(run.responses) # 1
    <3> DEFINE a == Len(run.responses)
    <3>1. a \in Nat /\ a > 1
      BY <1>1
    <3> HIDE DEF a
    <3>2. a # 1
      BY <3>1
    <3> QED BY <3>2 DEF a
  <2> HIDE DEF eligible
  <2> QED BY <1>1, <2>1, DoneRun DEF eligible
<1>3. eligible \in Seq(R)
  BY <1>1, EligibleShowsAll
<1> HIDE DEF eligible
<1>4. run.results \in Seq(R)
  BY <1>2 DEF Picks
<1> HIDE DEF R
<1>5. ToSet(eligible) \subseteq R /\ ToSet(run.results) \subseteq R
  BY <1>3, <1>4 DEF ToSet
<1>6. ASSUME NEW c \in ToSet(eligible) \ ToSet(run.results)
      PROVE  /\ Len(run.results) = TopK
             /\ \A x \in ToSet(run.results) :
                  DocOf[x] \in run.merged \/ Better(x, c, run.responses)
  BY <1>2, <1>6 DEF Picks
<1> QED BY <1>5, <1>6 DEF eligible, R

\* Of two lists, no chunk that shows something new is left out while a place is empty or goes
\* to a chunk that is neither better nor of a routed document.
LEMMA NothingNewStep ==
  ASSUME IInv
  PROVE  NothingNewLeftOut
<1> SUFFICES ASSUME Done, Len(run.responses) > 1,
                    NEW c \in Retrieved(run.responses) \ ToSet(run.results),
                    ~Repeated(c, ToSet(run.results))
             PROVE  /\ Len(run.results) = TopK
                    /\ \A x \in ToSet(run.results) :
                         DocOf[x] \in run.merged \/ Better(x, c, run.responses)
  <2> SUFFICES ASSUME Done, Len(run.responses) > 1,
                      NEW c \in Retrieved(run.responses) \ ToSet(run.results),
                      ~Repeated(c, ToSet(run.results))
               PROVE  /\ Len(run.results) = TopK
                      /\ \A i \in DOMAIN run.results :
                           \/ DocOf[run.results[i]] \in run.merged
                           \/ Better(run.results[i], c, run.responses)
    BY DEF NothingNewLeftOut, Better
  <2>1. \A i \in DOMAIN run.results : run.results[i] \in ToSet(run.results)
    BY DEF ToSet
  <2> QED BY <2>1
<1> DEFINE eligible == Eligible(run.responses, run.selection)
           R == Retrieved(run.responses)
           kept == BetterOnes(eligible, c, run.responses)
<1>1. Lists(run.responses) /\ run.selection \in Strategies
  BY DoneRun, WorkflowAssumption DEF Gathered
<1>2. /\ ToSet(eligible) \subseteq R /\ ToSet(run.results) \subseteq R
      /\ \A e \in ToSet(eligible) \ ToSet(run.results) :
           /\ Len(run.results) = TopK
           /\ \A x \in ToSet(run.results) :
                DocOf[x] \in run.merged \/ Better(x, e, run.responses)
  BY LeftOut
<1>3. c \in ToSet(eligible) \/ Redundant(kept, c, run.selection)
  BY <1>1, EligibleShowsAll DEF Shown
<1>4. \A e \in kept : e \in ToSet(eligible) /\ Better(e, c, run.responses)
  BY DEF BetterOnes
<1> HIDE DEF eligible, R, kept
<1>5. CASE c \in ToSet(eligible)
  BY <1>2, <1>5
<1>6. CASE Redundant(kept, c, run.selection)
  <2>1. ~(kept \subseteq ToSet(run.results))
    BY <1>1, <1>6, RedundantIsRepeated
  <2>2. PICK e \in kept : e \in ToSet(eligible) \ ToSet(run.results)
    BY <1>4, <2>1
  <2>3. ASSUME NEW x \in ToSet(run.results), DocOf[x] \notin run.merged
        PROVE  Better(x, c, run.responses)
    <3>1. Better(x, e, run.responses) /\ Better(e, c, run.responses)
      BY <1>2, <1>4, <2>2, <2>3
    <3>2. x \in R /\ e \in R /\ c \in R
      BY <1>2, <2>2 DEF R
    <3> QED BY <1>1, <3>1, <3>2, BetterIsOrder DEF R
  <2> QED BY <1>2, <2>2, <2>3
<1> QED BY <1>3, <1>5, <1>6

\* While a place is empty or goes to a chunk that is no better, nothing new is left out.
THEOREM NewEvidenceIsKept == Spec => []NothingNewLeftOut
BY EvidenceInductive, NothingNewStep, PTL

\* Every routed document that was searched with success keeps a place, unless all that was
\* found of it repeats chunks of other documents.
LEMMA RoutedStep ==
  ASSUME IInv
  PROVE  RoutedDocumentsKept
<1> SUFFICES ASSUME Done, Cardinality(run.merged) <= TopK, NEW d \in run.merged, Found(d),
                    ~Represented(d)
             PROVE  /\ run.selection = "legacy"
                    /\ \A c \in {x \in Retrieved(run.responses) : DocOf[x] = d} :
                         \E e \in Retrieved(run.responses) :
                           DocOf[e] # d /\ TextOf[e] = TextOf[c]
  BY DEF RoutedDocumentsKept, Routed
<1> DEFINE eligible == Eligible(run.responses, run.selection)
           R == Retrieved(run.responses)
<1>1. Lists(run.responses) /\ run.selection \in Strategies /\ Len(run.responses) \in Nat
  BY DoneRun, WorkflowAssumption DEF Gathered, Lists
<1>2. Len(run.responses) > 1 /\ \E c \in R : DocOf[c] = d
  <2>1. PICK i \in 2..Len(run.responses) : \E c \in ToSet(run.responses[i]) : DocOf[c] = d
    BY DEF Found
  <2>2. DOMAIN run.responses = 1..Len(run.responses)
    BY <1>1 DEF Lists
  <2>3. i \in DOMAIN run.responses /\ Len(run.responses) > 1
    BY <1>1, <2>1, <2>2
  <2> QED BY <2>1, <2>3 DEF Retrieved
<1>3. Picks(run.results, eligible, run.responses, run.merged)
  <2>1. Len(run.responses) # 1
    <3> DEFINE a == Len(run.responses)
    <3>1. a \in Nat /\ a > 1
      BY <1>1, <1>2
    <3> HIDE DEF a
    <3>2. a # 1
      BY <3>1
    <3> QED BY <3>2 DEF a
  <2> HIDE DEF eligible
  <2> QED BY <1>1, <2>1, DoneRun DEF eligible
<1>4. \A c \in ToSet(eligible) : DocOf[c] # d
  <2>1. DOMAIN run.results = 1..Len(run.results)
    BY <1>3 DEF Picks
  <2>2. ~Represents(run.results, d)
    BY <2>1 DEF Represented, Represents
  <2> HIDE DEF eligible
  <2> QED BY <1>3, <2>2 DEF Picks
<1>5. ToSet(eligible) \subseteq R
  BY <1>2, LeftOut
<1>6. \A c \in R : Shown(c, eligible, run.responses, run.selection)
  BY <1>1, EligibleShowsAll
<1> HIDE DEF eligible, R
<1>7. ASSUME NEW c \in R, DocOf[c] = d
      PROVE  run.selection = "legacy" /\ \E e \in R : DocOf[e] # d /\ TextOf[e] = TextOf[c]
  <2> DEFINE kept == BetterOnes(eligible, c, run.responses)
  <2>1. Redundant(kept, c, run.selection)
    BY <1>4, <1>6, <1>7 DEF Shown
  <2>2. \A e \in kept : e \in R /\ DocOf[e] # d
    BY <1>4, <1>5 DEF BetterOnes
  <2> HIDE DEF kept
  <2>3. ~(run.selection = "cell_coverage" /\ CellsOf[c] # {}
          /\ CellsOf[c] \subseteq CoveredCells(kept, c))
    BY <1>7, <2>2 DEF CoveredCells
  <2>4. PICK e \in kept : DedupKey(e, run.selection) = DedupKey(c, run.selection)
    BY <2>1, <2>3 DEF Redundant
  <2>5. run.selection # "cell_coverage"
    <3> SUFFICES ASSUME run.selection = "cell_coverage" PROVE FALSE
      OBVIOUS
    <3>1. DocOf[e] = DocOf[c]
      BY <2>4 DEF DedupKey
    <3> QED BY <3>1, <1>7, <2>2
  <2>6. run.selection = "legacy"
    BY <1>1, <2>5 DEF Strategies
  <2>7. TextOf[e] = TextOf[c]
    BY <2>4, <2>6 DEF DedupKey
  <2> QED BY <2>2, <2>6, <2>7
<1> QED BY <1>2, <1>7 DEF R

\* A routed document that was searched with success is among the evidence.
THEOREM RoutedDocumentsArePlaced == Spec => []RoutedDocumentsKept
BY EvidenceInductive, RoutedStep, PTL

-----------------------------------------------------------------------------
(* The best chunk of the primary search *)

\* The first of a list has the largest share of its score that a list gives.
LEMMA FirstShare ==
  ASSUME NEW list \in Seq(Chunks), list # <<>>
  PROVE  /\ list[1] \in ToSet(list) /\ RankIn(list[1], list) = 1
         /\ \A other \in Seq(Chunks) : \A c : Share(c, other) <= Share(list[1], list)
<1>1. Len(list) \in Nat \ {0} /\ DOMAIN list = 1..Len(list)
  BY EmptySeq
<1>2. list[1] \in ToSet(list) /\ 1 \in DOMAIN list
  BY <1>1 DEF ToSet
<1> DEFINE S == {r \in DOMAIN list : list[r] = list[1]}
<1>3. RankIn(list[1], list) = 1
  <2>1. S \subseteq Nat /\ 1 \in S /\ \A r \in S : 1 <= r
    BY <1>1, <1>2
  <2> HIDE DEF S
  <2>2. Min(S) \in S /\ Min(S) <= 1
    BY <2>1, MinIsLeast
  <2>3. Min(S) = 1
    <3> DEFINE n == Min(S)
    <3>1. n \in Nat /\ n <= 1 /\ 1 <= n
      BY <2>1, <2>2
    <3> HIDE DEF n
    <3>2. n = 1
      BY <3>1
    <3> QED BY <3>2 DEF n
  <2> QED BY <2>3 DEF RankIn, S
<1>4. Share(list[1], list) = Scale \div 61
  BY <1>2, <1>3 DEF Share, RRF_K
<1>5. ASSUME NEW other \in Seq(Chunks), NEW c
      PROVE  Share(c, other) <= Scale \div 61
  <2>1. Scale \in Nat /\ Scale \div 61 \in Nat
    BY ScaleIsNat
  <2>2. CASE c \notin ToSet(other)
    BY <2>1, <2>2 DEF Share
  <2>3. CASE c \in ToSet(other)
    <3> DEFINE m == RRF_K + RankIn(c, other)
               quotient == Scale \div m
    <3>1. RankIn(c, other) \in 1..Len(other)
      BY <2>3, RankInList
    <3>2. m \in Nat /\ m >= 61
      BY <3>1 DEF RRF_K
    <3>3. Share(c, other) = quotient
      BY <2>3 DEF Share
    <3> HIDE DEF m
    <3>4. quotient \in Nat /\ m * quotient <= Scale
      BY <2>1, <3>2
    <3> HIDE DEF quotient
    <3>5. 61 * quotient <= m * quotient
      BY <3>2, <3>4
    <3>6. 61 * quotient <= Scale
      BY <2>1, <3>2, <3>4, <3>5
    <3>7. quotient <= Scale \div 61
      BY <2>1, <3>4, <3>6
    <3> QED BY <3>3, <3>7
  <2> QED BY <2>2, <2>3
<1> QED BY <1>2, <1>3, <1>4, <1>5

\* Two lists of chunks.
LEMMA TwoLists ==
  ASSUME NEW responses, Lists(responses), Len(responses) = 2
  PROVE  DOMAIN responses = 1..2 /\ \A q \in 1..2 : responses[q] \in Seq(Chunks)
<1> DEFINE S == Seq(Chunks)
<1>1. responses \in Seq(S)
  BY DEF Lists
<1> HIDE DEF S
<1>2. DOMAIN responses = 1..Len(responses) /\ \A q \in 1..Len(responses) : responses[q] \in S
  BY <1>1
<1> QED BY <1>2 DEF S

\* What is better than the first chunk of the first of two lists is in that list.
LEMMA BetterThanFirst ==
  ASSUME NEW responses, Lists(responses), Len(responses) = 2, responses[1] # <<>>,
         NEW x \in Retrieved(responses), Better(x, responses[1][1], responses)
  PROVE  x \in ToSet(responses[1]) \ {responses[1][1]}
<1> DEFINE list == responses[1]
           other == responses[2]
           best == list[1]
<1>1. /\ list \in Seq(Chunks) /\ other \in Seq(Chunks) /\ DOMAIN responses = {1, 2}
  <2>1. 1..2 = {1, 2}
    OBVIOUS
  <2> QED BY <2>1, TwoLists
<1>2. /\ best \in ToSet(list) /\ RankIn(best, list) = 1
      /\ \A c : Share(c, other) <= Share(best, list)
  BY <1>1, FirstShare
<1>3. best \in Retrieved(responses)
  BY <1>1, <1>2 DEF Retrieved
<1>4. x # best
  BY <1>3, BetterIsOrder
<1> HIDE DEF list, other, best
<1>5. ASSUME x \notin ToSet(list) PROVE FALSE
  <2>1. /\ Score(x, responses) = Share(x, list) + Share(x, other)
        /\ Score(best, responses) = Share(best, list) + Share(best, other)
    BY ScoreIsSum DEF list, other
  <2>2. Share(x, list) = 0
    BY <1>5 DEF Share
  <2>3. /\ Share(x, other) \in Nat /\ Share(best, list) \in Nat /\ Share(best, other) \in Nat
    BY <1>1, ShareIsNat
  <2>4. Score(x, responses) <= Score(best, responses)
    BY <1>2, <2>1, <2>2, <2>3
  <2>5. FirstQuery(best, responses) = 1 /\ FirstQuery(x, responses) = 2
    <3>1. 1 \in QueriesOf(best, responses) /\ QueriesOf(best, responses) \subseteq {1, 2}
      BY <1>1, <1>2 DEF QueriesOf, list
    <3>2. QueriesOf(x, responses) = {2}
      BY <1>1, <1>5 DEF QueriesOf, Retrieved, list
    <3>3. FirstQuery(best, responses) = 1
      <4>1. Min(QueriesOf(best, responses)) <= 1 /\ Min(QueriesOf(best, responses)) \in {1, 2}
        BY <3>1, MinIsLeast
      <4> QED BY <4>1 DEF FirstQuery
    <3>4. FirstQuery(x, responses) = 2
      BY <3>2, MinIsLeast DEF FirstQuery
    <3> QED BY <3>3, <3>4
  <2>6. BestRank(best, responses) <= 1 /\ BestRank(x, responses) >= 1
    <3> DEFINE ranks(c) == {RankIn(c, responses[q]) : q \in QueriesOf(c, responses)}
    <3>1. ASSUME NEW c \in Retrieved(responses)
          PROVE  /\ ranks(c) \subseteq Nat \ {0} /\ ranks(c) # {}
      <4>1. ASSUME NEW q \in QueriesOf(c, responses)
            PROVE  RankIn(c, responses[q]) \in Nat \ {0}
        <5>1. responses[q] \in Seq(Chunks) /\ c \in ToSet(responses[q])
          BY <1>1 DEF QueriesOf, list, other
        <5>2. RankIn(c, responses[q]) \in 1..Len(responses[q])
          BY <5>1, RankInList
        <5> QED BY <5>2
      <4>2. QueriesOf(c, responses) # {}
        BY DEF Retrieved, QueriesOf
      <4> QED BY <4>1, <4>2
    <3>2. 1 \in ranks(best)
      <4>1. 1 \in QueriesOf(best, responses)
        BY <1>1, <1>2 DEF QueriesOf, list
      <4> QED BY <4>1, <1>2 DEF list
    <3> HIDE DEF ranks
    <3>3. Min(ranks(best)) <= 1 /\ Min(ranks(x)) \in ranks(x)
      BY <1>3, <3>1, <3>2, MinIsLeast
    <3>4. Min(ranks(x)) \in Nat \ {0}
      BY <3>1, <3>3
    <3>5. Min(ranks(x)) >= 1
      BY <3>4
    <3> QED BY <3>3, <3>5 DEF BestRank, ranks
  <2> DEFINE k == SortKey(x, responses)
             l == SortKey(best, responses)
  <2>7. k \in Keys /\ l \in Keys /\ Precedes(k, l)
    BY <1>3, KeyOfChunk DEF Better, best, list
  <2>8. /\ k[1] = -Score(x, responses) /\ l[1] = -Score(best, responses)
        /\ k[2] = BestRank(x, responses) /\ l[2] = BestRank(best, responses)
        /\ k[3] = 2 /\ l[3] = 1
    BY <2>5 DEF SortKey
  <2>9. Score(x, responses) \in Nat /\ Score(best, responses) \in Nat
    BY ScoreIsSum
  <2> HIDE DEF k, l
  <2>10. k[1] \in Int /\ k[2] \in Int /\ l[1] \in Int /\ l[2] \in Int
    BY <2>7 DEF Keys
  <2>11. l[1] <= k[1] /\ l[2] <= k[2] /\ ~(k[3] <= l[3])
    BY <2>4, <2>6, <2>8, <2>9, <2>10
  <2>12. \/ k[1] < l[1]
         \/ k[1] = l[1] /\ k[2] < l[2]
         \/ k[1] = l[1] /\ k[2] = l[2] /\ k[3] < l[3]
         \/ k[1] = l[1] /\ k[2] = l[2] /\ k[3] = l[3] /\ k[4] < l[4]
    BY <2>7, PrecedesIsLexical
  <2> QED BY <2>8, <2>10, <2>11, <2>12
<1> QED BY <1>4, <1>5 DEF list, best

\* A list without repeats has as many members as places.
LEMMA MembersOfList ==
  ASSUME NEW list, NEW n \in Nat, DOMAIN list = 1..n, IsInjective(list)
  PROVE  IsFiniteSet(ToSet(list)) /\ Cardinality(ToSet(list)) = n
<1> DEFINE place == [i \in 1..n |-> list[i]]
<1>1. \A i, j \in 1..n : list[i] = list[j] => i = j
  BY DEF IsInjective
<1>2. ToSet(list) = {list[i] : i \in 1..n}
  BY DEF ToSet
<1>3. place \in Bijection(1..n, ToSet(list))
  BY <1>1, <1>2 DEF Bijection, Injection, Surjection, IsInjective
<1>4. ExistsBijection(1..n, ToSet(list))
  BY <1>3 DEF ExistsBijection
<1>5. IsFiniteSet(1..n) /\ Cardinality(1..n) = n
  BY FS_Interval
<1> QED BY <1>4, <1>5, FS_Bijection

\* However the refined search ranks, the best chunk of the primary search survives: were it
\* left out and not repeated, all places would go to better chunks, which are fewer than the
\* places since they are of the primary list.
LEMMA RefinementStep ==
  ASSUME IInv
  PROVE  RefinementKeepsBestEvidence
<1> SUFFICES ASSUME Done, Len(run.responses) = 2, run.merged = {}, Primary # <<>>,
                    ~Repeated(Primary[1], ToSet(run.results))
             PROVE  FALSE
  BY DEF RefinementKeepsBestEvidence, Refined
<1> DEFINE list == run.responses[1]
           best == list[1]
           results == run.results
<1>1. /\ run.responses \in Seq(Seq(Chunks)) /\ Lists(run.responses) /\ list # <<>>
      /\ DOMAIN run.responses = 1..2
      /\ ~Repeated(best, ToSet(results))
  <2>1. run.responses \in Seq(Seq(Chunks)) /\ Lists(run.responses)
    BY DoneRun DEF Gathered
  <2>2. DOMAIN run.responses = 1..Len(run.responses) /\ 1..Len(run.responses) = 1..2
    BY <2>1
  <2> QED BY <2>1, <2>2 DEF Primary
<1>2. ListOK(list, run.seen)
  <2>1. 1 \in 1..Len(run.responses)
    OBVIOUS
  <2> QED BY <2>1 DEF IInv, GatheredOK, ListsOK
<1>3. best \in ToSet(list) /\ best \in Retrieved(run.responses)
  <2>1. best \in ToSet(list)
    BY <1>1, <1>2, FirstShare DEF ListOK
  <2> QED BY <1>1, <2>1 DEF Retrieved
<1>4. Picks(results, Eligible(run.responses, run.selection), run.responses, run.merged)
  <2>1. Len(run.responses) # 1
    OBVIOUS
  <2> QED BY <2>1, DoneRun
<1> HIDE DEF best, list, results
<1>5. best \notin ToSet(results)
  BY <1>1 DEF Repeated, SameTable
<1>6. Len(results) = TopK /\ \A x \in ToSet(results) : Better(x, best, run.responses)
  <2>1. NothingNewLeftOut
    BY NothingNewStep
  <2>2. Len(run.responses) > 1
    OBVIOUS
  <2>3. /\ Len(results) = TopK
        /\ \A i \in DOMAIN results :
             \/ DocOf[results[i]] \in run.merged
             \/ Better(results[i], best, run.responses)
    BY <1>1, <1>3, <1>5, <2>1, <2>2 DEF NothingNewLeftOut, Better, results
  <2> QED BY <2>3 DEF ToSet
<1>7. ToSet(results) \subseteq Retrieved(run.responses) /\ DOMAIN results = 1..TopK
      /\ IsInjective(results)
  <2> DEFINE R == Retrieved(run.responses)
  <2>1. results \in Seq(R) /\ IsInjective(results)
    BY <1>4 DEF Picks
  <2> HIDE DEF R
  <2>2. ToSet(results) \subseteq R /\ DOMAIN results = 1..Len(results)
    BY <2>1 DEF ToSet
  <2> QED BY <1>6, <2>1, <2>2 DEF R
<1>8. ToSet(results) \subseteq ToSet(list) \ {best}
  BY <1>1, <1>6, <1>7, BetterThanFirst DEF best, list
<1>9. IsFiniteSet(ToSet(results)) /\ Cardinality(ToSet(results)) = TopK
  BY <1>7, MembersOfList, MergeAssumption
<1>10. IsFiniteSet(ToSet(list)) /\ Cardinality(ToSet(list)) <= TopK
  <2>1. Len(list) \in Nat /\ DOMAIN list = 1..Len(list) /\ Len(list) <= TopK /\ IsInjective(list)
    BY <1>2 DEF ListOK
  <2> QED BY <2>1, MembersOfList
<1>11. /\ IsFiniteSet(ToSet(list) \ {best})
       /\ Cardinality(ToSet(list) \ {best}) = Cardinality(ToSet(list)) - 1
  BY <1>3, <1>10, FS_RemoveElement
<1>12. Cardinality(ToSet(results)) <= Cardinality(ToSet(list) \ {best})
  BY <1>8, <1>11, FS_Subset
<1>13. Cardinality(ToSet(list)) \in Nat /\ TopK \in Nat
  BY <1>10, FS_CardinalityType, MergeAssumption
<1> QED BY <1>9, <1>10, <1>11, <1>12, <1>13

\* A refinement never costs the best chunk of the primary search.
THEOREM BestEvidenceSurvives == Spec => []RefinementKeepsBestEvidence
BY EvidenceInductive, RefinementStep, PTL

===============================================================================
