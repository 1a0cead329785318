----------------------------- MODULE EvidenceMerge -----------------------------
(***************************************************************************)
(* merge_search_responses: reciprocal rank fusion of several result lists, *)
(* removal of duplicate evidence, and the places kept for routed           *)
(* documents.  A result list is a sequence of chunks, best first.          *)
(***************************************************************************)
EXTENDS Integers, FiniteSets, Sequences, SequencesExt, FiniteSetsExt

CONSTANTS
  Chunks,   \* chunk ids: numbers, since ids break ties
  DocOf,    \* chunk -> its document
  TextOf,   \* chunk -> the digest of its raw_content
  TableOf,  \* chunk -> its element_id, or NoTable
  CellsOf,  \* chunk -> its cell_ids
  NoTable,
  TopK      \* results wanted

ASSUME MergeAssumption ==
  /\ Chunks \subseteq Nat
  /\ TopK \in Nat \ {0}

RRF_K == 60

Strategies == {"legacy", "cell_coverage"}

-----------------------------------------------------------------------------
(* Fusion *)

Retrieved(responses) == UNION {ToSet(responses[q]) : q \in DOMAIN responses}

\* A result list names a chunk once.
QueriesOf(c, responses) == {q \in DOMAIN responses : c \in ToSet(responses[q])}
RankIn(c, list) == Min({r \in DOMAIN list : list[r] = c})

\* The product of all denominators, so that fractions of it are whole numbers.
Scale ==
  LET product[n \in 0..TopK] == IF n = 0 THEN 1 ELSE product[n - 1] * (RRF_K + n)
  IN  product[TopK]

\* The sum of 1 / (60 + rank) over the lists, times Scale.
Share(c, list) == IF c \in ToSet(list) THEN Scale \div (RRF_K + RankIn(c, list)) ELSE 0
Score(c, responses) ==
  LET sum[q \in 0..Len(responses)] == IF q = 0 THEN 0 ELSE sum[q - 1] + Share(c, responses[q])
  IN  sum[Len(responses)]

BestRank(c, responses) == Min({RankIn(c, responses[q]) : q \in QueriesOf(c, responses)})
FirstQuery(c, responses) == Min(QueriesOf(c, responses))

\* Mutant: the lower score comes first.
WorstFirst(c, responses) ==
  <<Score(c, responses), BestRank(c, responses), FirstQuery(c, responses), c>>
\* The higher score first; equal scores: the better single rank, the earlier query, the id.
SortKey(c, responses) ==
  <<-Score(c, responses), BestRank(c, responses), FirstQuery(c, responses), c>>

Precedes(k, l) == \E i \in DOMAIN k : k[i] < l[i] /\ \A j \in 1..(i - 1) : k[j] = l[j]

Ranked(keys) ==
  [i \in 1..Cardinality(keys) |->
    CHOOSE k \in keys : Cardinality({l \in keys : Precedes(l, k)}) = i - 1]

\* The chunks of S, best first; a key ends with its chunk.
InOrder(S, responses) ==
  LET ranked == Ranked({SortKey(c, responses) : c \in S})
  IN  [i \in DOMAIN ranked |-> ranked[i][4]]

Fused(responses) == InOrder(Retrieved(responses), responses)

-----------------------------------------------------------------------------
(* Duplicates *)

DedupKey(c, strategy) ==
  IF strategy = "cell_coverage" THEN <<DocOf[c], TableOf[c], TextOf[c]>> ELSE <<TextOf[c]>>

\* The cells of the chunk's table that earlier evidence shows.
CoveredCells(kept, c) ==
  UNION {CellsOf[e] : e \in {x \in kept : DocOf[x] = DocOf[c] /\ TableOf[x] = TableOf[c]}}

\* Mutant: a chunk is redundant as soon as one of its cells was shown.
Overlapping(kept, c, strategy) ==
  \/ \E e \in kept : DedupKey(e, strategy) = DedupKey(c, strategy)
  \/ /\ strategy = "cell_coverage" /\ TableOf[c] # NoTable
     /\ CellsOf[c] \cap CoveredCells(kept, c) # {}
Redundant(kept, c, strategy) ==
  \/ \E e \in kept : DedupKey(e, strategy) = DedupKey(c, strategy)
  \/ /\ strategy = "cell_coverage" /\ TableOf[c] # NoTable /\ CellsOf[c] # {}
     /\ CellsOf[c] \subseteq CoveredCells(kept, c)

KeepNew(kept, c, strategy) ==
  IF Redundant(ToSet(kept), c, strategy) THEN kept ELSE Append(kept, c)

Eligible(responses, strategy) ==
  LET fused == Fused(responses)
      kept[n \in 0..Len(fused)] ==
        IF n = 0 THEN <<>> ELSE KeepNew(kept[n - 1], fused[n], strategy)
  IN  kept[Len(fused)]

-----------------------------------------------------------------------------
(* Places for the routed documents *)

CountOf(selected, d) == Cardinality({i \in DOMAIN selected : DocOf[selected[i]] = d})

\* Mutant: the last place is given away, whoever holds it.
AnyPlace(selected, preserve) == DOMAIN selected
\* A place may be given away if its document has another one, or was not routed.
Replaceable(selected, preserve) ==
  {i \in DOMAIN selected : \/ CountOf(selected, DocOf[selected[i]]) > 1
                           \/ DocOf[selected[i]] \notin preserve}

GivePlace(selected, c, preserve) ==
  IF \/ DocOf[c] \notin preserve \/ CountOf(selected, DocOf[c]) > 0
     \/ Replaceable(selected, preserve) = {}
  THEN selected
  ELSE [selected EXCEPT ![Max(Replaceable(selected, preserve))] = c]

\* Each routed document in the order of its best chunk; a document that has a place
\* keeps it, so that its later chunks change nothing.
Preserve(selected, eligible, preserve) ==
  LET after[n \in 0..Len(eligible)] ==
        IF n = 0 THEN selected ELSE GivePlace(after[n - 1], eligible[n], preserve)
  IN  after[Len(eligible)]

\* The order of the eligible chunks, by which the code sorts at the end, is that of all.
MergeSearchResponses(responses, strategy, preserve) ==
  LET eligible == Eligible(responses, strategy)
      selected == SubSeq(eligible, 1, Min({TopK, Len(eligible)}))
  IN  IF preserve # {} /\ Cardinality(preserve) <= TopK
      THEN InOrder(ToSet(Preserve(selected, eligible, preserve)), responses)
      ELSE selected
=============================================================================
