-------------------------------- MODULE Search --------------------------------
(***************************************************************************)
(* search_corpus: a search reads the active snapshot, the documents in     *)
(* scope and their chunks by separate statements, while jobs commit; then  *)
(* it ranks the chunks by vectors, by words and by the reranker, fuses the *)
(* ranks and selects the evidence.                                         *)
(***************************************************************************)
EXTENDS CorpusIndex

CONSTANTS
  Member,    \* the documents of the collection
  Requests,  \* searches: scope, words of the question, top_k, minimum_should_match, strategy
  DenseTopK, SparseTopK, FusedTopK

Scopes == [type : {"documents"}, docs : SUBSET Docs \ {{}}]
          \cup [type : {"collection", "all"}, docs : {{}}]
Strategies == {"legacy", "cell_coverage"}

ASSUME SearchAssumption ==
  /\ Member \subseteq Docs
  /\ {DenseTopK, SparseTopK, FusedTopK} \subseteq Nat \ {0}
  /\ \A r \in Requests : /\ r.scope \in Scopes /\ IsFiniteSet(r.scope.docs)
                         /\ r.query \subseteq Nat /\ IsFiniteSet(r.query)
                         /\ r.topK \in Nat \ {0} /\ r.match \in Nat \ {0}
                         /\ r.strategy \in Strategies

VARIABLES
  q,     \* the search: its request, what it has read, its results
  start, \* history: the versions in service when it began
  seen,  \* history: ... and at some time until it ended
  calm   \* history: has no job committed between its reads?

vars == <<corpus, q, start, seen, calm>>

TypeOK ==
  /\ CorpusTypeOK
  /\ q.pc \in {"idle", "scope", "chunks", "ranking", "done", "failed"}
  /\ q.pc # "idle" => q.request \in Requests
  /\ q.docs \subseteq Docs /\ q.rows \subseteq DOMAIN idOf
  /\ \A r \in ToSet(q.results) : r.chunk \in q.rows /\ r.context \in Seq(AllChunks)
  /\ start \subseteq Versions /\ seen \subseteq Versions /\ calm \in BOOLEAN

Idle == [pc |-> "idle", request |-> None, snapshot |-> None, docs |-> {}, rows |-> {},
         results |-> <<>>, pool |-> {}, degraded |-> {}]

Init == CorpusInit /\ q = Idle /\ start = {} /\ seen = {} /\ calm = TRUE

TermsOf(c) == PieceOf(c).terms
TextOf(c) == PieceOf(c).text
Overlap(c) == Cardinality(TermsOf(c) \cap q.request.query)
Take(s, n) == SubSeq(s, 1, Min({n, Len(s)}))

\* What s has at the places of P, in the order of s.
At(s, P) ==
  [k \in 1..Cardinality(P) |-> s[CHOOSE i \in P : Cardinality({j \in P : j < i}) = k - 1]]

\* The members of S in the order of their keys, tuples of numbers.
Precedes(k, l) == \E i \in DOMAIN k : k[i] < l[i] /\ \A j \in 1..(i - 1) : k[j] = l[j]
InOrder(S, key) ==
  [k \in 1..Cardinality(S) |->
     CHOOSE c \in S : Cardinality({e \in S : Precedes(key[e], key[c])}) = k - 1]

\* No chunk before place i is of the same document.
FirstOfDoc(s, i) == \A j \in 1..(i - 1) : s[j][1] # s[i][1]

-----------------------------------------------------------------------------
(* Candidates *)

\* Every document of an explicit scope gets a place, if there are places for all.
Balanced ==
  IF q.request.scope.type = "documents" /\ Cardinality(q.docs) \in 2..q.request.topK
  THEN q.docs ELSE {}

\* Any order the vectors may give; only chunks of the snapshot can be found.
DenseRankings == SetToSeqs(q.rows \cap q.snapshot.chunks)

\* BM25: enough words of the question in common; at most n.
Matching == {c \in q.rows \cap q.snapshot.chunks :
               Overlap(c) >= Min({q.request.match, Cardinality(q.request.query)})
               /\ Overlap(c) > 0}
SparseRankings ==
  LET n == IF Balanced # {} THEN Cardinality(q.rows) ELSE SparseTopK
  IN  {Take(s, n) : s \in SetToSeqs(Matching)}

\* _ensure_document_candidates: behind the best n, the first chunk of each document missing.
EnsureDocumentCandidates(ranked, n) ==
  At(ranked, {i \in DOMAIN ranked :
                i <= n \/ (ranked[i][1] \in Balanced /\ FirstOfDoc(ranked, i))})

-----------------------------------------------------------------------------
(* Fusion *)

RRF_K == 60
Ranks(c, s) == {i \in DOMAIN s : s[i] = c}
Scale ==
  LET product[n \in 0..Cardinality(q.rows)] ==
        IF n = 0 THEN 1 ELSE product[n - 1] * (RRF_K + n)
  IN  product[Cardinality(q.rows)]
ReciprocalRank(c, s) ==
  IF Ranks(c, s) = {} THEN 0 ELSE Scale \div (RRF_K + Min(Ranks(c, s)))

\* The sum of reciprocal ranks; then the better of the ranks; then the id.
FusionKey(c, dense, sparse) ==
  <<-(ReciprocalRank(c, dense) + ReciprocalRank(c, sparse)),
    Min(Ranks(c, dense) \cup Ranks(c, sparse)), idOf[c]>>
RrfFuse(dense, sparse) ==
  LET all == ToSet(dense) \cup ToSet(sparse)
      n == IF Balanced # {} THEN Max({FusedTopK, Cardinality(all)}) ELSE FusedTopK
  IN  Take(InOrder(all, [c \in all |-> FusionKey(c, dense, sparse)]), n)

\* The reranker's scores give any order; without it the fused order stays.
Reranked(fused) ==
  {[ranked |-> s, degraded |-> {}] : s \in SetToSeqs(ToSet(fused))}
    \cup {[ranked |-> fused, degraded |-> {"RERANK_UNAVAILABLE"}]}

-----------------------------------------------------------------------------
(* Selection *)

TableOf(c) == PieceOf(c).parent
HashKey(c) ==
  IF q.request.strategy = "cell_coverage" \/ c[1] \in Balanced
  THEN <<VersionOf(c), TableOf(c), TextOf(c)>> ELSE <<TextOf(c)>>

\* The cells of the chunk's table that the chunks kept show.
CellsShown(kept, c) ==
  UNION {PieceOf(e).cells : e \in {x \in kept : /\ VersionOf(x) = VersionOf(c)
                                               /\ TableOf(x) = TableOf(c)}}
CellsCovered(kept, c) ==
  /\ q.request.strategy = "cell_coverage" /\ TableOf(c) # 0 /\ PieceOf(c).cells # {}
  /\ PieceOf(c).cells \subseteq CellsShown(kept, c)
Repeats(kept, c) == (\E e \in kept : HashKey(e) = HashKey(c)) \/ CellsCovered(kept, c)

KeepNew(kept, c, n) ==
  IF Len(kept) = n \/ Repeats(ToSet(kept), c) THEN kept ELSE Append(kept, c)

DeduplicateRanked(ranked, n) ==
  LET kept[i \in 0..Len(ranked)] ==
        IF i = 0 THEN <<>> ELSE KeepNew(kept[i - 1], ranked[i], n)
  IN  kept[Len(ranked)]

Mandatory(pool) == {i \in DOMAIN pool : pool[i][1] \in Balanced /\ FirstOfDoc(pool, i)}
Extra(pool, free) ==
  {i \in DOMAIN pool \ Mandatory(pool) : Cardinality(1..i \ Mandatory(pool)) <= free}

\* Mutants: the best that fit; a place is kept for a document without candidates too.
BestFirst(pool) == 1..Min({q.request.topK, Len(pool)})
Reserved(pool) ==
  Mandatory(pool) \cup Extra(pool, q.request.topK - Cardinality(Balanced))
\* The places of the best chunk of each balanced document and of the best others that fit.
Chosen(pool) ==
  Mandatory(pool) \cup Extra(pool, q.request.topK - Cardinality(Mandatory(pool)))

SelectEvidence(ranked) ==
  IF Balanced = {} THEN DeduplicateRanked(ranked, q.request.topK)
  ELSE LET pool == DeduplicateRanked(ranked, Len(ranked))
       IN  At(pool, Chosen(pool))

-----------------------------------------------------------------------------
(* Context of a table hit *)

MaxAdjacentRows == 2
IsRow(c) == TableOf(c) # 0 /\ PieceOf(c).cells # {}
Distance(i, j) == IF i < j THEN j - i ELSE i - j

RelatedRows(c) == {e \in Chunks(VersionOf(c)) \ {c} :
                     IsRow(e) /\ TableOf(e) = TableOf(c) /\ Overlap(e) > 0}

\* The parent, the hit and the rows with most words of the question, nearest first.
ExpandTableContext(c) ==
  IF ~IsRow(c) THEN <<c>>
  ELSE LET key == [e \in RelatedRows(c) |-> <<-Overlap(e), Distance(e[3], c[3]), e[3]>>]
           ordered == <<<<c[1], c[2], TableOf(c)>>, c>>
                        \o Take(InOrder(RelatedRows(c), key), MaxAdjacentRows)
       IN  At(ordered, {i \in DOMAIN ordered :
                          \A j \in 1..(i - 1) : TextOf(ordered[j]) # TextOf(ordered[i])})

-----------------------------------------------------------------------------
(* The search *)

\* system_state and its snapshot; their absence and another model are errors.
Begin(request) ==
  /\ q.pc = "idle"
  /\ q' = [Idle EXCEPT !.pc = IF snapshot = None \/ snapshot.model # model
                              THEN "failed" ELSE "scope",
                       !.request = request, !.snapshot = snapshot]
  /\ start' = Served /\ seen' = Served /\ calm' = TRUE
  /\ UNCHANGED corpus

ReadyDocs == {d \in Docs : doc[d].st = "ready"}

\* _resolve_scope: a scoped document that is not READY fails the search.
ResolveScope ==
  LET scope == q.request.scope
      found == CASE scope.type = "documents" -> scope.docs \cap ReadyDocs
                 [] scope.type = "collection" -> Member \cap ReadyDocs
                 [] scope.type = "all" -> ReadyDocs
  IN  /\ q.pc = "scope"
      /\ q' = IF scope.type = "documents" /\ found # scope.docs
              THEN [q EXCEPT !.pc = "failed"]
              ELSE [q EXCEPT !.pc = "chunks", !.docs = found]
      /\ UNCHANGED <<corpus, start, seen, calm>>

\* Mutant: the chunks of every version, not of the active one.
AnyVersion == {c \in DOMAIN idOf : c[1] \in q.docs \cap ReadyDocs}
ActiveRows == {c \in DOMAIN idOf : c[1] \in q.docs /\ VersionOf(c) \in Served}

ReadChunks ==
  /\ q.pc = "chunks"
  /\ q' = IF ActiveRows = {} THEN [q EXCEPT !.pc = "done", !.degraded = {"EMPTY_SCOPE"}]
          ELSE [q EXCEPT !.pc = "ranking", !.rows = ActiveRows]
  /\ UNCHANGED <<corpus, start, seen, calm>>

\* The index files are immutable, and so are the rows of a version that was in service:
\* the rest of the search reads nothing that a job changes.
Rank ==
  /\ q.pc = "ranking"
  /\ \E dense \in DenseRankings, sparse \in SparseRankings :
       \E r \in Reranked(RrfFuse(EnsureDocumentCandidates(dense, DenseTopK),
                                 EnsureDocumentCandidates(sparse, SparseTopK))) :
         q' = [q EXCEPT !.pc = "done", !.degraded = r.degraded, !.pool = ToSet(r.ranked),
                        !.results = LET hits == SelectEvidence(r.ranked)
                                    IN  [i \in DOMAIN hits |->
                                           [chunk |-> hits[i],
                                            context |-> ExpandTableContext(hits[i])]]]
  /\ UNCHANGED <<corpus, start, seen, calm>>

\* The response is sent; what is committed later concerns the next search.
Respond ==
  /\ q.pc \in {"done", "failed"}
  /\ q' = Idle /\ start' = {} /\ seen' = {} /\ calm' = TRUE
  /\ UNCHANGED corpus

\* A job's commit, before or during a search.
Commit ==
  /\ q.pc \notin {"done", "failed"} /\ CorpusNext
  /\ seen' = IF q.pc = "idle" THEN seen ELSE seen \cup Served'
  /\ calm' = (calm /\ ~(q.pc \in {"scope", "chunks"} /\ <<doc, snapshot>>' # <<doc, snapshot>>))
  /\ UNCHANGED <<q, start>>

Next == Commit \/ (\E r \in Requests : Begin(r)) \/ ResolveScope \/ ReadChunks \/ Rank \/ Respond

Spec == Init /\ [][Next]_vars

-----------------------------------------------------------------------------
(* Properties *)

Shown == {r.chunk : r \in ToSet(q.results)}
DocsShown == {c[1] : c \in Shown}

\* The documents in scope that the snapshot has chunks of.
Answerable == {d \in q.docs : \E c \in q.snapshot.chunks : c[1] = d /\ VersionOf(c) \in start}

\* Every paper of an explicit scope that fits keeps a place among the results, however
\* badly its chunks rank and whatever texts it shares with others, and a wider scope is
\* never without results, unless a job commits between the reads of the search.
ScopedPapersKept ==
  q.pc = "done" /\ calm =>
    /\ Balanced \cap Answerable \subseteq DocsShown
    /\ Answerable # {} => Shown # {}

\* The places kept for papers cost no result: a list shorter than top_k leaves out only
\* candidates that repeat a text or the cells of what is shown.
NoPlaceWasted ==
  q.pc = "done" =>
    /\ Len(q.results) <= q.request.topK
    /\ Len(q.results) < q.request.topK =>
         \A c \in q.pool \ Shown : Repeats(Shown, c)

\* Nothing is shown, as hit or as context of a table, that was not in service at some time
\* during the search; and never two versions of one document.
OnlyServedText ==
  LET shown == UNION {ToSet(r.context) : r \in ToSet(q.results)}
  IN  /\ \A c \in shown : VersionOf(c) \in seen
      /\ \A c, e \in shown : c[1] = e[1] => c[2] = e[2]
=============================================================================
