----------------------------- MODULE SearchProofs -----------------------------
(***************************************************************************)
(* Theorems about Search, for any documents, layouts, models and requests: *)
(* what a search shows was in service while it ran, the papers of an       *)
(* explicit scope keep their places, and these places cost no result.      *)
(***************************************************************************)
EXTENDS Search, DataInduction, SequenceTheorems

-----------------------------------------------------------------------------
(* Versions and their chunks *)

\* The versions of a document are those of its layout.
LEMMA VersionsOfLayout ==
  /\ \A d \in Docs : /\ DOMAIN Layout[d] = 1..Len(Layout[d]) /\ Len(Layout[d]) \in Nat
                     /\ \A v : <<d, v>> \in Versions <=> v \in 1..Len(Layout[d])
  /\ \A x \in Versions : x[1] \in Docs /\ x[2] \in Nat \ {0} /\ x = <<x[1], x[2]>>
<1>1. ASSUME NEW d \in Docs PROVE DOMAIN Layout[d] = 1..Len(Layout[d]) /\ Len(Layout[d]) \in Nat
  BY LayoutAssumption DEF IsSequence
<1>2. \A x \in Versions : \E d \in Docs : \E v \in 1..Len(Layout[d]) : x = <<d, v>>
  BY <1>1 DEF Versions
<1>3. ASSUME NEW d \in Docs, NEW v \in 1..Len(Layout[d]) PROVE <<d, v>> \in Versions
  BY <1>1, <1>3 DEF Versions
<1>4. ASSUME NEW x \in Versions PROVE x[1] \in Docs /\ x[2] \in Nat \ {0} /\ x = <<x[1], x[2]>>
  BY <1>1, <1>2
<1> QED BY <1>1, <1>2, <1>3, <1>4

\* A version has as many chunks as its parse is cut into, told apart by their positions.
LEMMA ChunksOfVersion ==
  ASSUME NEW x \in Versions
  PROVE  /\ IsFiniteSet(Chunks(x)) /\ Cardinality(Chunks(x)) \in Nat
         /\ \A c \in Chunks(x) : /\ c = <<x[1], x[2], c[3]>> /\ VersionOf(c) = x
                                 /\ c[3] \in 1..Cardinality(Chunks(x))
         /\ \A i \in 1..Cardinality(Chunks(x)) : <<x[1], x[2], i>> \in Chunks(x)
<1> DEFINE parse == Layout[x[1]][x[2]]
           n == Len(parse)
           chunk == [i \in 1..n |-> <<x[1], x[2], i>>]
<1>1. x[1] \in Docs /\ x[2] \in DOMAIN Layout[x[1]] /\ x = <<x[1], x[2]>>
  BY VersionsOfLayout
<1>2. n \in Nat /\ DOMAIN parse = 1..n
  BY <1>1, LayoutAssumption DEF IsSequence
<1>3. Chunks(x) = {<<x[1], x[2], i>> : i \in 1..n}
  BY <1>2 DEF Chunks
<1> HIDE DEF n
<1>4. chunk \in Bijection(1..n, Chunks(x))
  BY <1>3 DEF Bijection, Injection, Surjection, IsInjective
<1>5. IsFiniteSet(1..n) /\ Cardinality(1..n) = n
  <2>1. n \in Nat
    BY <1>2
  <2> QED BY <2>1, FS_Interval
<1>6. IsFiniteSet(Chunks(x)) /\ Cardinality(Chunks(x)) = n
  BY <1>4, <1>5, FS_Bijection DEF ExistsBijection
<1> HIDE DEF parse, chunk
<1>7. ASSUME NEW c \in Chunks(x)
      PROVE  c = <<x[1], x[2], c[3]>> /\ VersionOf(c) = x /\ c[3] \in 1..n
  <2>1. PICK i \in 1..n : c = <<x[1], x[2], i>>
    BY <1>3
  <2>2. c[1] = x[1] /\ c[2] = x[2] /\ c[3] = i
    BY <2>1
  <2> QED BY <2>1, <2>2, <1>1 DEF VersionOf
<1>8. \A i \in 1..n : <<x[1], x[2], i>> \in Chunks(x)
  BY <1>3
<1> QED BY <1>2, <1>6, <1>7, <1>8

\* Every chunk is one of its version.
LEMMA ChunksAreOfVersions ==
  ASSUME NEW c \in AllChunks
  PROVE  /\ VersionOf(c) \in Versions /\ c \in Chunks(VersionOf(c))
         /\ c = <<c[1], c[2], c[3]>> /\ c[1] \in Docs /\ c[2] \in Nat \ {0} /\ c[3] \in Nat \ {0}
<1>1. PICK x \in Versions : c \in Chunks(x)
  BY DEF AllChunks
<1>2. VersionOf(c) = x /\ c = <<x[1], x[2], c[3]>> /\ c[3] \in Nat \ {0}
  BY <1>1, ChunksOfVersion
<1> QED BY <1>1, <1>2, VersionsOfLayout

-----------------------------------------------------------------------------
(* What jobs commit *)

\* The chunk rows are finitely many, and numbered without a repetition.
RowsNumbered ==
  /\ IsFiniteSet(DOMAIN idOf) /\ DOMAIN idOf \subseteq AllChunks
  /\ idOf \in [DOMAIN idOf -> 1..Cardinality(DOMAIN idOf)] /\ IsInjective(idOf)

\* A document's version was begun, and the rows of the active one are stored.
VersionsStored ==
  /\ doc \in [Docs -> [st : Statuses, ver : Nat]] /\ tries \in [Docs -> Nat]
  /\ \A d \in Docs : doc[d].ver # 0 => /\ <<d, doc[d].ver>> \in Versions
                                       /\ Chunks(<<d, doc[d].ver>>) \subseteq DOMAIN idOf
  /\ \A c \in DOMAIN idOf : c[2] <= tries[c[1]]

BuildOK ==
  /\ build.version \in Versions /\ build.model \in ToSet(Models)
  /\ build.chunks \subseteq AllChunks
  /\ build.version[2] <= tries[build.version[1]]
  /\ Chunks(build.version) \cap DOMAIN idOf = {}

ModelsOK ==
  /\ model \in ToSet(Models)
  /\ DOMAIN embedded \subseteq Versions /\ embedded \in [DOMAIN embedded -> ToSet(Models)]
  /\ snapshot # None => snapshot.chunks \subseteq AllChunks /\ snapshot.model \in ToSet(Models)

CorpusInv == RowsNumbered /\ VersionsStored /\ ModelsOK /\ (build # None => BuildOK)

LEMMA CorpusInvInit == CorpusInit => CorpusInv
<1> SUFFICES ASSUME CorpusInit PROVE CorpusInv
  OBVIOUS
<1>1. DOMAIN idOf = {} /\ DOMAIN embedded = {} /\ idOf = [c \in {} |-> 0]
      /\ embedded = [x \in {} |-> 0]
  BY DEF CorpusInit
<1>2. RowsNumbered
  BY <1>1, FS_EmptySet DEF RowsNumbered, IsInjective
<1>3. VersionsStored
  BY <1>1 DEF CorpusInit, VersionsStored, Statuses
<1>4. ModelsOK
  <2>1. Models \in Seq(ToSet(Models)) /\ Models # <<>>
    BY LayoutAssumption DEF IsSequence
  <2>2. Head(Models) \in ToSet(Models)
    BY <2>1
  <2> QED BY <1>1, <2>2 DEF CorpusInit, ModelsOK
<1> QED BY <1>2, <1>3, <1>4 DEF CorpusInit, CorpusInv

LEMMA CorpusInvTypes == CorpusInv => CorpusTypeOK
<1> SUFFICES ASSUME CorpusInv PROVE CorpusTypeOK
  OBVIOUS
<1>1. Range(embedded) \subseteq ToSet(Models)
  BY DEF CorpusInv, ModelsOK, Range
<1> QED BY <1>1 DEF CorpusInv, CorpusTypeOK, RowsNumbered, VersionsStored, ModelsOK

\* The versions a search may return exist, and their rows are stored.
LEMMA ServedStored ==
  ASSUME CorpusInv, NEW x \in Served
  PROVE  x \in Versions /\ Chunks(x) \subseteq DOMAIN idOf
BY DEF CorpusInv, VersionsStored, Served

\* A job's last statements: rows of a version that has none yet get the next numbers.
LEMMA StoreRows ==
  ASSUME CorpusInv, build # None, Store
  PROVE  /\ RowsNumbered' /\ build' = None
         /\ DOMAIN idOf' = DOMAIN idOf \cup Chunks(build.version)
         /\ \A c \in DOMAIN idOf : idOf'[c] = idOf[c]
         /\ DOMAIN embedded' \subseteq Versions
         /\ embedded' \in [DOMAIN embedded' -> ToSet(Models)]
<1> DEFINE x == build.version
           old == DOMAIN idOf
           n == Cardinality(old)
           k == Cardinality(Chunks(x))
<1>1. /\ x \in Versions /\ build.model \in ToSet(Models) /\ Chunks(x) \cap old = {}
      /\ IsFiniteSet(old) /\ old \subseteq AllChunks
      /\ idOf \in [old -> 1..n] /\ \A c, e \in old : idOf[c] = idOf[e] => c = e
  BY DEF CorpusInv, BuildOK, RowsNumbered, IsInjective
<1>2. /\ IsFiniteSet(Chunks(x)) /\ k \in Nat
      /\ \A c \in Chunks(x) : c = <<x[1], x[2], c[3]>> /\ c[3] \in 1..k
  BY <1>1, ChunksOfVersion
<1>3. n \in Nat
  BY <1>1, FS_CardinalityType
<1>4. IsFiniteSet(old \cup Chunks(x)) /\ Cardinality(old \cup Chunks(x)) = n + k
  <2>1. old \cap Chunks(x) = {}
    BY <1>1
  <2>2. Cardinality(old \cap Chunks(x)) = 0
    BY <2>1, FS_EmptySet
  <2>3. /\ IsFiniteSet(old \cup Chunks(x))
        /\ Cardinality(old \cup Chunks(x)) = n + k - Cardinality(old \cap Chunks(x))
    BY <1>1, <1>2, FS_Union
  <2> QED BY <2>2, <2>3, <1>2, <1>3
<1>5. idOf' = [c \in old \cup Chunks(x) |-> IF c \in old THEN idOf[c] ELSE n + c[3]]
  BY DEF Store, IdsFor
<1>6. DOMAIN idOf' = old \cup Chunks(x)
  BY <1>5
<1>7. \A c \in old : idOf'[c] = idOf[c]
  BY <1>5
<1>8. \A c \in Chunks(x) : idOf'[c] = n + c[3]
  BY <1>1, <1>5
<1> HIDE DEF n, k, old, x
<1>9. idOf' \in [old \cup Chunks(x) -> 1..(n + k)]
  BY <1>1, <1>2, <1>3, <1>5
<1>10. ASSUME NEW c \in old \cup Chunks(x), NEW e \in old \cup Chunks(x), idOf'[c] = idOf'[e]
       PROVE  c = e
  <2>1. CASE c \in old /\ e \in old
    BY <2>1, <1>1, <1>7, <1>10
  <2>2. CASE c \in Chunks(x) /\ e \in Chunks(x)
    <3>1. n + c[3] = n + e[3] /\ c[3] \in Nat /\ e[3] \in Nat
      BY <2>2, <1>2, <1>8, <1>10
    <3>2. c[3] = e[3]
      BY <3>1, <1>3
    <3> QED BY <3>2, <2>2, <1>2
  <2>3. CASE c \in old /\ e \in Chunks(x)
    <3>1. idOf[c] \in 1..n /\ idOf[c] = n + e[3] /\ e[3] \in 1..k
      BY <2>3, <1>1, <1>2, <1>7, <1>8, <1>10
    <3> QED BY <3>1, <1>2, <1>3
  <2>4. CASE e \in old /\ c \in Chunks(x)
    <3>1. idOf[e] \in 1..n /\ idOf[e] = n + c[3] /\ c[3] \in 1..k
      BY <2>4, <1>1, <1>2, <1>7, <1>8, <1>10
    <3> QED BY <3>1, <1>2, <1>3
  <2> QED BY <2>1, <2>2, <2>3, <2>4
<1>11. RowsNumbered'
  <2>1. Chunks(x) \subseteq AllChunks
    BY <1>1 DEF AllChunks
  <2>2. (DOMAIN idOf)' = old \cup Chunks(x)
    BY <1>6
  <2> QED BY <1>1, <1>4, <1>9, <1>10, <2>1, <2>2 DEF RowsNumbered, IsInjective
<1>12. /\ DOMAIN embedded' \subseteq Versions
       /\ embedded' \in [DOMAIN embedded' -> ToSet(Models)]
  <2>1. embedded' = [y \in DOMAIN embedded \cup {x} |->
                       IF y \in DOMAIN embedded THEN embedded[y] ELSE build.model]
    BY DEF Store, x
  <2>2. DOMAIN embedded \subseteq Versions /\ embedded \in [DOMAIN embedded -> ToSet(Models)]
    BY DEF CorpusInv, ModelsOK
  <2> QED BY <2>1, <2>2, <1>1
<1>13. build' = None
  BY DEF Store
<1> QED BY <1>6, <1>7, <1>11, <1>12, <1>13 DEF old, x

\* A request for a version, or for a deletion, changes a status only.
LEMMA RequestInv ==
  ASSUME CorpusInv, NEW d \in Docs, Request(d) \/ RequestDelete(d)
  PROVE  CorpusInv'
<1>1. UNCHANGED <<tries, embedded, idOf, snapshot, build, model>>
  BY DEF Request, RequestDelete
<1>2. doc' \in [Docs -> [st : Statuses, ver : Nat]] /\ \A e \in Docs : doc'[e].ver = doc[e].ver
  <2>1. doc \in [Docs -> [st : Statuses, ver : Nat]]
    BY DEF CorpusInv, VersionsStored
  <2>2. PICK s \in Statuses : doc' = [doc EXCEPT ![d].st = s]
    BY DEF Request, RequestDelete, Statuses
  <2> QED BY <2>1, <2>2
<1>3. VersionsStored'
  BY <1>1, <1>2 DEF CorpusInv, VersionsStored
<1>4. RowsNumbered' /\ ModelsOK'
  BY <1>1 DEF CorpusInv, RowsNumbered, ModelsOK, IsInjective
<1>5. (build # None => BuildOK)'
  BY <1>1 DEF CorpusInv, BuildOK
<1> QED BY <1>3, <1>4, <1>5 DEF CorpusInv

LEMMA BuildInv ==
  ASSUME CorpusInv, NEW d \in Docs, Build(d)
  PROVE  CorpusInv'
<1> DEFINE v == <<d, tries[d] + 1>>
           others == {x \in Served : x[1] # d /\ SameModel(x)}
           all == UNION {Indexable(x) : x \in others \cup {v}}
<1>1. /\ UNCHANGED <<doc, embedded, idOf, snapshot, model>>
      /\ tries' = [tries EXCEPT ![d] = @ + 1] /\ tries[d] < Len(Layout[d])
      /\ build' = [version |-> v, model |-> model,
                   chunks |-> IF Chunks(v) = {} THEN {} ELSE all]
  BY DEF Build
<1>2. tries \in [Docs -> Nat] /\ \A e \in Docs : tries[e] <= tries'[e]
  BY <1>1 DEF CorpusInv, VersionsStored
<1>3. v \in Versions
  <2>1. tries[d] + 1 \in 1..Len(Layout[d])
    BY <1>1, <1>2, VersionsOfLayout
  <2> QED BY <2>1, VersionsOfLayout
<1>4. all \subseteq AllChunks
  <2>1. others \subseteq Versions
    BY ServedStored
  <2>2. \A x \in Versions : Indexable(x) \subseteq AllChunks
    BY DEF Indexable, AllChunks
  <2> QED BY <2>1, <2>2, <1>3
<1>5. Chunks(v) \cap DOMAIN idOf = {}
  <2>1. SUFFICES ASSUME NEW c \in Chunks(v), c \in DOMAIN idOf PROVE FALSE
    OBVIOUS
  <2>2. c[1] = d /\ c[2] = tries[d] + 1
    <3>1. c = <<v[1], v[2], c[3]>>
      BY <1>3, <2>1, ChunksOfVersion
    <3> QED BY <3>1
  <2>3. c[2] <= tries[c[1]]
    BY <2>1 DEF CorpusInv, VersionsStored
  <2> QED BY <2>2, <2>3, <1>2
<1>6. (build # None => BuildOK)'
  <2>1. /\ build'.version = v /\ build'.model = model
        /\ build'.chunks = IF Chunks(v) = {} THEN {} ELSE all
    BY <1>1
  <2> HIDE DEF all
  <2>2. build'.chunks \subseteq AllChunks
    BY <2>1, <1>4
  <2>3. v[2] <= tries'[v[1]]
    BY <1>1, <1>2
  <2>4. model \in ToSet(Models)
    BY DEF CorpusInv, ModelsOK
  <2> HIDE DEF v
  <2> QED BY <2>1, <2>2, <2>3, <2>4, <1>1, <1>3, <1>5 DEF BuildOK
<1>7. VersionsStored'
  <2>1. tries' \in [Docs -> Nat]
    BY <1>1, <1>2
  <2>2. \A c \in DOMAIN idOf : c[2] <= tries'[c[1]]
    <3>1. ASSUME NEW c \in DOMAIN idOf PROVE c[2] <= tries'[c[1]]
      <4>1. c[1] \in Docs /\ c[2] \in Nat /\ c[2] <= tries[c[1]]
        BY ChunksAreOfVersions DEF CorpusInv, RowsNumbered, VersionsStored
      <4> QED BY <4>1, <1>2, <2>1
    <3> QED BY <3>1
  <2> QED BY <2>1, <2>2, <1>1 DEF CorpusInv, VersionsStored
<1>8. RowsNumbered' /\ ModelsOK'
  BY <1>1 DEF CorpusInv, RowsNumbered, ModelsOK, IsInjective
<1> QED BY <1>6, <1>7, <1>8 DEF CorpusInv

\* A job ends: its rows are stored, whether its version goes into service or not.
LEMMA CommitInv ==
  ASSUME CorpusInv, Activate \/ Reject
  PROVE  CorpusInv'
<1> DEFINE d == build.version[1]
           x == build.version
<1>1. build # None /\ Store /\ UNCHANGED <<tries, model>>
  BY DEF Activate, Reject
<1>2. /\ x \in Versions /\ build.model \in ToSet(Models) /\ build.chunks \subseteq AllChunks
      /\ x[2] <= tries[d]
  BY <1>1 DEF CorpusInv, BuildOK
<1>3. d \in Docs /\ x[2] \in Nat \ {0} /\ x = <<d, x[2]>>
  BY <1>2, VersionsOfLayout
<1>4. /\ RowsNumbered' /\ build' = None /\ DOMAIN idOf' = DOMAIN idOf \cup Chunks(x)
      /\ DOMAIN embedded' \subseteq Versions /\ embedded' \in [DOMAIN embedded' -> ToSet(Models)]
  BY <1>1, StoreRows
<1>5. /\ doc \in [Docs -> [st : Statuses, ver : Nat]] /\ tries \in [Docs -> Nat]
      /\ \A e \in Docs : doc[e].ver # 0 => /\ <<e, doc[e].ver>> \in Versions
                                           /\ Chunks(<<e, doc[e].ver>>) \subseteq DOMAIN idOf
      /\ \A c \in DOMAIN idOf : c[2] <= tries[c[1]]
  BY DEF CorpusInv, VersionsStored
<1>6. /\ doc' \in [Docs -> [st : Statuses, ver : Nat]]
      /\ \A e \in Docs : doc'[e].ver = doc[e].ver \/ <<e, doc'[e].ver>> = x
  <2>1. CASE Activate
    <3>1. doc' = [doc EXCEPT ![d] = [st |-> "ready", ver |-> x[2]]]
      BY <2>1 DEF Activate
    <3> HIDE DEF d, x
    <3> QED BY <3>1, <1>3, <1>5 DEF Statuses
  <2>2. CASE Reject
    <3>1. doc' = [doc EXCEPT ![d].st = IF doc[d].ver # 0 THEN "ready" ELSE "failed"]
      BY <2>2 DEF Reject
    <3> HIDE DEF d, x
    <3> QED BY <3>1, <1>3, <1>5 DEF Statuses
  <2> QED BY <2>1, <2>2
<1>7. VersionsStored'
  <2>1. ASSUME NEW e \in Docs, doc'[e].ver # 0
        PROVE  <<e, doc'[e].ver>> \in Versions /\ Chunks(<<e, doc'[e].ver>>) \subseteq DOMAIN idOf'
    BY <2>1, <1>2, <1>4, <1>5, <1>6
  <2>2. ASSUME NEW c \in DOMAIN idOf' PROVE c[2] <= tries[c[1]]
    <3>1. CASE c \in DOMAIN idOf
      BY <3>1, <1>5
    <3>2. CASE c \in Chunks(x)
      <4>1. c[1] = d /\ c[2] = x[2]
        <5>1. c = <<x[1], x[2], c[3]>>
          BY <3>2, <1>2, ChunksOfVersion
        <5> QED BY <5>1
      <4> QED BY <4>1, <1>2
    <3> QED BY <3>1, <3>2, <1>4
  <2>3. tries' = tries
    BY <1>1
  <2> QED BY <2>1, <2>2, <2>3, <1>5, <1>6 DEF VersionsStored
<1>8. ModelsOK'
  <2>1. model' = model /\ model \in ToSet(Models)
    BY <1>1 DEF CorpusInv, ModelsOK
  <2>2. snapshot' = snapshot \/ snapshot' = [chunks |-> build.chunks, model |-> build.model]
    BY DEF Activate, Reject
  <2>3. (snapshot # None => snapshot.chunks \subseteq AllChunks /\ snapshot.model \in ToSet(Models))'
    BY <2>2, <1>2 DEF CorpusInv, ModelsOK
  <2> QED BY <2>1, <2>3, <1>4 DEF ModelsOK
<1> QED BY <1>4, <1>7, <1>8 DEF CorpusInv

LEMMA ChangeModelInv ==
  ASSUME CorpusInv, ChangeModel
  PROVE  CorpusInv'
<1>1. UNCHANGED <<doc, tries, embedded, idOf, snapshot>> /\ build' = None
  BY DEF ChangeModel
<1>2. model' \in ToSet(Models)
  <2>1. PICK i \in 2..Len(Models) : model' = Models[i]
    BY DEF ChangeModel
  <2>2. Models \in Seq(ToSet(Models))
    BY LayoutAssumption DEF IsSequence
  <2> QED BY <2>1, <2>2
<1> QED BY <1>1, <1>2 DEF CorpusInv, RowsNumbered, VersionsStored, ModelsOK, IsInjective

\* Jobs and requests keep the rows numbered and those of active versions stored.
LEMMA CorpusInductive ==
  ASSUME CorpusInv, CorpusNext \/ UNCHANGED corpus
  PROVE  CorpusInv'
<1>1. CASE \E d \in Docs : Request(d) \/ Build(d) \/ RequestDelete(d)
  BY <1>1, RequestInv, BuildInv
<1>2. CASE Activate \/ Reject
  BY <1>2, CommitInv
<1>3. CASE ChangeModel
  BY <1>3, ChangeModelInv
<1>4. CASE UNCHANGED corpus
  BY <1>4 DEF corpus, CorpusInv, RowsNumbered, VersionsStored, ModelsOK, BuildOK, IsInjective
<1> QED BY <1>1, <1>2, <1>3, <1>4 DEF CorpusNext

-----------------------------------------------------------------------------
(* Lists *)

\* Min and Max pick the least and the greatest of some numbers.
LEMMA MinIsLeast ==
  ASSUME NEW S, S \subseteq Nat, S # {}
  PROVE  Min(S) \in S /\ \A n \in S : Min(S) <= n
<1>1. \E least \in S : \A n \in S : least <= n
  BY LeastMember
<1> QED BY <1>1 DEF Min

LEMMA MaxIsGreater ==
  ASSUME NEW a \in Nat, NEW b \in Nat
  PROVE  Max({a, b}) \in Nat /\ a <= Max({a, b}) /\ b <= Max({a, b})
<1>1. \E m \in {a, b} : \A n \in {a, b} : m >= n
  OBVIOUS
<1>2. Max({a, b}) \in {a, b} /\ \A n \in {a, b} : Max({a, b}) >= n
  BY <1>1 DEF Max
<1> QED BY <1>2

\* Take keeps the first n, or all.
LEMMA TakeFirst ==
  ASSUME NEW R, NEW s \in Seq(R), NEW n \in Nat
  PROVE  /\ Take(s, n) \in Seq(R) /\ ToSet(Take(s, n)) \subseteq ToSet(s)
         /\ Len(Take(s, n)) = IF n <= Len(s) THEN n ELSE Len(s)
         /\ Len(s) <= n => Take(s, n) = s
<1> DEFINE k == Min({n, Len(s)})
<1>1. Len(s) \in Nat
  OBVIOUS
<1>2. k \in {n, Len(s)} /\ \A i \in {n, Len(s)} : k <= i
  <2> HIDE DEF k
  <2> QED BY <1>1, MinIsLeast DEF k
<1>3. k \in Nat /\ k <= Len(s) /\ k = IF n <= Len(s) THEN n ELSE Len(s)
  BY <1>1, <1>2
<1>4. Take(s, n) = SubSeq(s, 1, k)
  BY DEF Take
<1> HIDE DEF k
<1>5. \A i \in 1..k : s[i] \in R
  BY <1>1, <1>3
<1>6. SubSeq(s, 1, k) = [i \in 1..k |-> s[i]]
  BY <1>3, <1>5
<1>7. Take(s, n) \in Seq(R) /\ Len(Take(s, n)) = k /\ DOMAIN Take(s, n) = 1..k
      /\ \A i \in 1..k : Take(s, n)[i] = s[i]
  BY <1>3, <1>4, <1>5, <1>6
<1>8. ToSet(Take(s, n)) \subseteq ToSet(s)
  BY <1>3, <1>7 DEF ToSet
<1>9. Len(s) <= n => Take(s, n) = s
  <2>1. Len(s) <= n => k = Len(s)
    BY <1>1, <1>3
  <2> QED BY <2>1, <1>4, <1>6
<1> QED BY <1>3, <1>7, <1>8, <1>9

\* Append adds one member.
LEMMA AppendMembers ==
  ASSUME NEW R, NEW s \in Seq(R), NEW c \in R
  PROVE  /\ Append(s, c) \in Seq(R) /\ Len(Append(s, c)) = Len(s) + 1
         /\ ToSet(Append(s, c)) = ToSet(s) \cup {c}
<1> DEFINE k == Len(s)
           t == Append(s, c)
<1>1. /\ k \in Nat /\ DOMAIN s = 1..k /\ DOMAIN t = 1..(k + 1)
      /\ \A i \in 1..k : t[i] = s[i]
      /\ t[k + 1] = c /\ t \in Seq(R) /\ Len(t) = k + 1
  OBVIOUS
<1> HIDE DEF k, t
<1>2. \A i : i \in 1..(k + 1) <=> i \in 1..k \/ i = k + 1
  BY <1>1
<1>3. ToSet(t) = ToSet(s) \cup {c}
  BY <1>1, <1>2 DEF ToSet
<1> QED BY <1>1, <1>3 DEF k, t

\* The order of numbers, as a set of pairs.
NumberOrder(P) == {pair \in P \X P : pair[1] < pair[2]}

\* At lists what stands at the places of P.
LEMMA AtPlaces ==
  ASSUME NEW R, NEW s \in Seq(R), NEW P \in SUBSET DOMAIN s
  PROVE  /\ At(s, P) \in Seq(R) /\ ToSet(At(s, P)) = {s[i] : i \in P}
         /\ IsFiniteSet(P) /\ Cardinality(P) \in Nat /\ Len(At(s, P)) = Cardinality(P)
<1> DEFINE n == Cardinality(P)
           before(i) == {j \in P : j < i}
           place == [k \in 1..n |-> CHOOSE i \in P : Cardinality(before(i)) = k - 1]
           order == NumberOrder(P)
<1>1. IsFiniteSet(P)
  <2>1. IsFiniteSet(1..Len(s))
    BY FS_Interval
  <2> QED BY <2>1, FS_Subset
<1>2. StrictOrder(order, P)
  BY DEF StrictOrder, NumberOrder
<1>3. \A i \in P : before(i) = Below(order, P, i)
  BY DEF Below, NumberOrder
<1>4. n \in Nat /\ \A k \in 1..n : \E i \in P : Cardinality(before(i)) = k - 1
  <2> HIDE DEF before, order
  <2> QED BY <1>1, <1>2, <1>3, EveryRankTaken
<1>5. At(s, P) = [k \in 1..n |-> s[place[k]]]
  BY DEF At
<1> HIDE DEF n, before, order
<1>10. \A k \in 1..n : place[k] \in P /\ Cardinality(before(place[k])) = k - 1
  BY <1>4
<1>11. place \in [1..n -> P] /\ \A k \in 1..n : Cardinality(Below(order, P, place[k])) = k - 1
  BY <1>3, <1>10
<1> HIDE DEF place
<1>12. IsListing(place, P, order)
  BY <1>1, <1>2, <1>11, ListedByRank DEF n
<1>6. /\ \A k \in 1..n : place[k] \in P
      /\ \A i \in P : \E k \in 1..n : place[k] = i
  BY <1>12 DEF IsListing, n
<1>7. /\ At(s, P) \in [1..n -> R] /\ DOMAIN At(s, P) = 1..n
      /\ \A k \in 1..n : At(s, P)[k] = s[place[k]]
  BY <1>5, <1>6
<1>8. ToSet(At(s, P)) = {s[i] : i \in P}
  BY <1>6, <1>7 DEF ToSet
<1>9. At(s, P) \in Seq(R) /\ Len(At(s, P)) = n
  BY <1>4, <1>7
<1> QED BY <1>1, <1>4, <1>8, <1>9 DEF n

\* Keys are three numbers.  What Precedes says of them.
Keys == Int \X Int \X Int

LEMMA PrecedesIsLexical ==
  ASSUME NEW k \in Keys, NEW l \in Keys
  PROVE  Precedes(k, l) <=> \/ k[1] < l[1]
                            \/ k[1] = l[1] /\ k[2] < l[2]
                            \/ k[1] = l[1] /\ k[2] = l[2] /\ k[3] < l[3]
<1>1. DOMAIN k = 1..3
  BY DEF Keys
<1>2. ASSUME Precedes(k, l)
      PROVE  \/ k[1] < l[1]
             \/ k[1] = l[1] /\ k[2] < l[2]
             \/ k[1] = l[1] /\ k[2] = l[2] /\ k[3] < l[3]
  <2>1. PICK i \in 1..3 : k[i] < l[i] /\ \A j \in 1..(i - 1) : k[j] = l[j]
    BY <1>1, <1>2 DEF Precedes
  <2>2. i = 1 \/ i = 2 \/ i = 3
    OBVIOUS
  <2> QED BY <2>1, <2>2
<1>3. ASSUME NEW i \in 1..3, k[i] < l[i], \A j \in 1..(i - 1) : k[j] = l[j]
      PROVE  Precedes(k, l)
  BY <1>1, <1>3 DEF Precedes
<1> QED BY <1>2, <1>3

\* InOrder lists each member, if the third numbers tell them apart.
KeyOrder(S, key) == {pair \in S \X S : Precedes(key[pair[1]], key[pair[2]])}

LEMMA InOrderLists ==
  ASSUME NEW S, IsFiniteSet(S), NEW key \in [S -> Keys],
         \A c, e \in S : key[c][3] = key[e][3] => c = e
  PROVE  /\ InOrder(S, key) \in Seq(S) /\ ToSet(InOrder(S, key)) = S
         /\ Cardinality(S) \in Nat /\ Len(InOrder(S, key)) = Cardinality(S)
<1> DEFINE order == KeyOrder(S, key)
           n == Cardinality(S)
           before(c) == {e \in S : Precedes(key[e], key[c])}
           list == InOrder(S, key)
<1>1. \A c, e \in S : <<c, e>> \in order <=> Precedes(key[c], key[e])
  BY DEF KeyOrder
<1>2. \A c \in S : key[c][1] \in Int /\ key[c][2] \in Int /\ key[c][3] \in Int
  BY DEF Keys
<1>3. ASSUME NEW c \in S PROVE ~Precedes(key[c], key[c])
  BY <1>2, PrecedesIsLexical
<1>4. ASSUME NEW c \in S, NEW e \in S, c # e
      PROVE  Precedes(key[c], key[e]) \/ Precedes(key[e], key[c])
  <2>1. key[c][3] # key[e][3]
    BY <1>4
  <2> QED BY <2>1, <1>2, PrecedesIsLexical
<1>5. ASSUME NEW c \in S, NEW e \in S, NEW f \in S,
             Precedes(key[c], key[e]), Precedes(key[e], key[f])
      PROVE  Precedes(key[c], key[f])
  BY <1>2, <1>5, PrecedesIsLexical
<1>6. StrictOrder(order, S)
  <2> HIDE DEF order
  <2> QED BY <1>1, <1>3, <1>4, <1>5 DEF StrictOrder
<1>7. \A c \in S : before(c) = Below(order, S, c)
  BY <1>1 DEF Below
<1>8. list = [k \in 1..n |-> CHOOSE c \in S : Cardinality(before(c)) = k - 1]
  BY DEF InOrder
<1> HIDE DEF order, list, before, n
<1>9. n \in Nat /\ \A k \in 1..n : \E c \in S : Cardinality(before(c)) = k - 1
  BY <1>6, <1>7, EveryRankTaken DEF n
<1>13. \A k \in 1..n : list[k] \in S /\ Cardinality(before(list[k])) = k - 1
  BY <1>8, <1>9
<1>14. list \in [1..n -> S] /\ \A k \in 1..n : Cardinality(Below(order, S, list[k])) = k - 1
  BY <1>7, <1>8, <1>13
<1>15. IsListing(list, S, order)
  BY <1>6, <1>14, ListedByRank DEF n
<1>10. list \in [1..n -> S] /\ \A c \in S : \E i \in 1..n : list[i] = c
  BY <1>15 DEF IsListing, n
<1>11. list \in Seq(S) /\ Len(list) = n /\ DOMAIN list = 1..n
  BY <1>9, <1>10
<1>12. ToSet(list) = S
  BY <1>10, <1>11 DEF ToSet
<1> QED BY <1>9, <1>11, <1>12 DEF n, list

\* Every ranking of a set names all its members.
LEMMA RankingsList ==
  ASSUME NEW S, IsFiniteSet(S), NEW s \in SetToSeqs(S)
  PROVE  s \in Seq(S) /\ ToSet(s) = S
<1> DEFINE n == Cardinality(S)
<1>1. n \in Nat
  BY FS_CardinalityType
<1>2. s \in [1..n -> S] /\ \A i, j \in 1..n : i # j => s[i] # s[j]
  BY DEF SetToSeqs
<1>3. s \in Injection(1..n, S)
  BY <1>2 DEF Injection, IsInjective
<1>4. IsFiniteSet(1..n) /\ Cardinality(1..n) = n
  BY <1>1, FS_Interval
<1>5. s \in Surjection(1..n, S)
  BY <1>3, <1>4, FS_Injection
<1>6. \A c \in S : \E i \in 1..n : s[i] = c
  BY <1>5 DEF Surjection
<1> HIDE DEF n
<1>7. s \in Seq(S) /\ DOMAIN s = 1..n
  BY <1>1, <1>2
<1> QED BY <1>2, <1>6, <1>7 DEF ToSet

\* The members of a list are finitely many.
LEMMA ToSetFinite ==
  ASSUME NEW R, NEW s \in Seq(R)
  PROVE  IsFiniteSet(ToSet(s)) /\ ToSet(s) \subseteq R /\ Cardinality(ToSet(s)) \in Nat
<1>1. s \in Surjection(1..Len(s), ToSet(s))
  BY DEF Surjection, ToSet
<1>2. IsFiniteSet(1..Len(s))
  BY FS_Interval
<1>3. IsFiniteSet(ToSet(s))
  BY <1>1, <1>2, FS_Surjection
<1> QED BY <1>3, FS_CardinalityType DEF ToSet

-----------------------------------------------------------------------------
(* Candidates and fusion *)

\* The request of a search, and the rows it has read.
RequestOK ==
  /\ q.request \in Requests
  /\ q.request.scope.type = "documents" => q.docs = q.request.scope.docs
RowsOK == IsFiniteSet(q.rows) /\ q.rows \subseteq DOMAIN idOf

\* There are places for the balanced documents.
LEMMA BalancedFit ==
  ASSUME RequestOK
  PROVE  /\ q.request.topK \in Nat \ {0}
         /\ IsFiniteSet(Balanced) /\ Cardinality(Balanced) \in 0..q.request.topK
         /\ Balanced # {} => Balanced = q.docs /\ q.request.topK >= 2
<1>1. q.request.topK \in Nat \ {0} /\ IsFiniteSet(q.request.scope.docs)
  BY SearchAssumption DEF RequestOK
<1>2. CASE Balanced = {}
  BY <1>1, <1>2, FS_EmptySet
<1>3. CASE Balanced # {}
  <2>1. /\ Balanced = q.docs /\ q.docs = q.request.scope.docs
        /\ Cardinality(q.docs) \in 2..q.request.topK
    BY <1>3 DEF Balanced, RequestOK
  <2> QED BY <1>1, <2>1
<1> QED BY <1>2, <1>3

\* A document that a list names has a first place in it.
LEMMA FirstPlace ==
  ASSUME NEW R, NEW s \in Seq(R), NEW c \in ToSet(s)
  PROVE  \E i \in DOMAIN s : s[i][1] = c[1] /\ FirstOfDoc(s, i)
<1> DEFINE S == {i \in DOMAIN s : s[i][1] = c[1]}
<1>1. S \subseteq Nat /\ S # {}
  BY DEF ToSet
<1>2. PICK i \in S : \A j \in S : i <= j
  BY <1>1, LeastMember
<1>3. ASSUME NEW j \in 1..(i - 1) PROVE s[j][1] # s[i][1]
  <2>1. j \in DOMAIN s /\ ~(i <= j)
    OBVIOUS
  <2> QED BY <2>1, <1>2
<1> QED BY <1>3 DEF FirstOfDoc

\* Among the candidates is the best, and a chunk of every balanced document found.
LEMMA CandidatesKept ==
  ASSUME NEW R, NEW ranked \in Seq(R), NEW n \in Nat \ {0}
  PROVE  /\ EnsureDocumentCandidates(ranked, n) \in Seq(R)
         /\ ToSet(EnsureDocumentCandidates(ranked, n)) \subseteq ToSet(ranked)
         /\ ranked # <<>> => ToSet(EnsureDocumentCandidates(ranked, n)) # {}
         /\ \A c \in ToSet(ranked) : c[1] \in Balanced =>
              \E e \in ToSet(EnsureDocumentCandidates(ranked, n)) : e[1] = c[1]
<1> DEFINE P == {i \in DOMAIN ranked :
                   i <= n \/ (ranked[i][1] \in Balanced /\ FirstOfDoc(ranked, i))}
           kept == EnsureDocumentCandidates(ranked, n)
<1>1. kept = At(ranked, P)
  BY DEF EnsureDocumentCandidates
<1>2. P \in SUBSET DOMAIN ranked
  OBVIOUS
<1> HIDE DEF P, kept
<1>3. kept \in Seq(R) /\ ToSet(kept) = {ranked[i] : i \in P}
  BY <1>1, <1>2, AtPlaces
<1>4. ToSet(kept) \subseteq ToSet(ranked)
  BY <1>2, <1>3 DEF ToSet
<1>5. ASSUME ranked # <<>> PROVE ToSet(kept) # {}
  <2>1. 1 \in DOMAIN ranked /\ 1 <= n
    BY <1>5
  <2> QED BY <2>1, <1>3 DEF P
<1>6. ASSUME NEW c \in ToSet(ranked), c[1] \in Balanced
      PROVE  \E e \in ToSet(kept) : e[1] = c[1]
  <2>1. PICK i \in DOMAIN ranked : ranked[i][1] = c[1] /\ FirstOfDoc(ranked, i)
    BY FirstPlace
  <2>2. i \in P
    BY <2>1, <1>6 DEF P
  <2> QED BY <2>1, <2>2, <1>3
<1> QED BY <1>3, <1>4, <1>5, <1>6 DEF kept

\* The common scale of the scores is a natural number: its recursive function exists.
LEMMA ScaleIsNat ==
  ASSUME RowsOK
  PROVE  Scale \in Nat
<1> DEFINE N == Cardinality(q.rows)
           step == [x \in Nat \X (1..N) |-> x[1] * (RRF_K + x[2])]
           Product(f) == f = [n \in 0..N |-> IF n = 0 THEN 1 ELSE f[n - 1] * (RRF_K + n)]
<1>1. N \in Nat
  BY FS_CardinalityType DEF RowsOK
<1> HIDE DEF N
<1>2. step \in Steps(Nat, N)
  <2>1. ASSUME NEW x \in Nat \X (1..N) PROVE x[1] * (RRF_K + x[2]) \in Nat
    <3>1. x[1] \in Nat /\ RRF_K + x[2] \in Nat
      BY <1>1 DEF RRF_K
    <3> QED BY <3>1
  <2> QED BY <2>1 DEF Steps
<1>3. PICK f : Iterates(f, N, Nat, 1, step)
  <2> HIDE DEF step
  <2> QED BY <1>1, <1>2, Recursion
<1>4. Product(f)
  <2>1. ASSUME NEW n \in 1..N PROVE f[n] = f[n - 1] * (RRF_K + n)
    <3>1. n - 1 \in 0..N
      BY <1>1
    <3>2. <<f[n - 1], n>> \in Nat \X (1..N)
      BY <3>1, <1>3 DEF Iterates
    <3> QED BY <3>2, <1>3 DEF Iterates
  <2> QED BY <1>1, <1>3, <2>1 DEF Iterates
<1>5. ASSUME NEW g, Product(g) PROVE g[N] \in Nat
  <2> DEFINE S == {n \in 0..N : g[n] \in Nat}
  <2>1. 0 \in S
    BY <1>1, <1>5
  <2>2. ASSUME NEW n \in 1..N, n - 1 \in S PROVE n \in S
    <3>1. g[n] = g[n - 1] * (RRF_K + n) /\ RRF_K + n \in Nat /\ g[n - 1] \in Nat
      BY <1>1, <1>5, <2>2 DEF RRF_K
    <3> QED BY <3>1
  <2> HIDE DEF S
  <2>3. 0..N \subseteq S
    BY <1>1, <2>1, <2>2, InductionUpTo
  <2> QED BY <1>1, <2>3 DEF S
<1> QED BY <1>4, <1>5 DEF Scale, N

\* The keys of fused candidates are numbers, and tell the candidates apart.
LEMMA FusionKeys ==
  ASSUME RowsNumbered, RowsOK, NEW dense \in Seq(q.rows), NEW sparse \in Seq(q.rows),
         NEW c \in ToSet(dense) \cup ToSet(sparse)
  PROVE  /\ FusionKey(c, dense, sparse) \in Keys
         /\ FusionKey(c, dense, sparse)[3] = idOf[c]
<1> DEFINE ranks == Ranks(c, dense) \cup Ranks(c, sparse)
<1>1. \A s \in {dense, sparse} : Ranks(c, s) \subseteq Nat
  BY DEF Ranks
<1>2. \A s \in {dense, sparse} : ReciprocalRank(c, s) \in Nat
  <2>1. ASSUME NEW s \in {dense, sparse}, Ranks(c, s) # {} PROVE ReciprocalRank(c, s) \in Nat
    <3>1. RRF_K + Min(Ranks(c, s)) \in Nat \ {0}
      BY <2>1, <1>1, MinIsLeast DEF RRF_K
    <3>2. Scale \div (RRF_K + Min(Ranks(c, s))) \in Nat
      BY <3>1, ScaleIsNat
    <3> QED BY <2>1, <3>2 DEF ReciprocalRank
  <2> QED BY <2>1 DEF ReciprocalRank
<1>3. -(ReciprocalRank(c, dense) + ReciprocalRank(c, sparse)) \in Int
  BY <1>2
<1>4. ranks \subseteq Nat /\ ranks # {}
  BY <1>1 DEF Ranks, ToSet
<1>5. Min(ranks) \in Int
  <2> HIDE DEF ranks
  <2>1. Min(ranks) \in ranks
    BY <1>4, MinIsLeast
  <2>2. Min(ranks) \in Nat
    BY <2>1, <1>4
  <2> QED BY <2>2
<1>6. idOf[c] \in Int
  <2>1. c \in DOMAIN idOf
    BY ToSetFinite DEF RowsOK
  <2> QED BY <2>1 DEF RowsNumbered
<1> QED BY <1>3, <1>5, <1>6 DEF FusionKey, Keys

\* Fusion keeps a candidate, and all of them if places are kept for documents.
LEMMA FusedList ==
  ASSUME RowsNumbered, RowsOK, NEW dense \in Seq(q.rows), NEW sparse \in Seq(q.rows)
  PROVE  /\ RrfFuse(dense, sparse) \in Seq(q.rows)
         /\ ToSet(RrfFuse(dense, sparse)) \subseteq ToSet(dense) \cup ToSet(sparse)
         /\ Balanced # {} => ToSet(RrfFuse(dense, sparse)) = ToSet(dense) \cup ToSet(sparse)
         /\ ToSet(dense) \cup ToSet(sparse) # {} => ToSet(RrfFuse(dense, sparse)) # {}
<1> DEFINE all == ToSet(dense) \cup ToSet(sparse)
           key == [c \in all |-> FusionKey(c, dense, sparse)]
           n == IF Balanced # {} THEN Max({FusedTopK, Cardinality(all)}) ELSE FusedTopK
           list == InOrder(all, key)
<1>1. IsFiniteSet(all) /\ all \subseteq q.rows
  <2>1. IsFiniteSet(ToSet(dense)) /\ IsFiniteSet(ToSet(sparse))
        /\ ToSet(dense) \subseteq q.rows /\ ToSet(sparse) \subseteq q.rows
    BY ToSetFinite
  <2> QED BY <2>1, FS_Union
<1>2. \A c \in all : FusionKey(c, dense, sparse) \in Keys /\ FusionKey(c, dense, sparse)[3] = idOf[c]
  BY FusionKeys
<1>3. RrfFuse(dense, sparse) = Take(list, n)
  BY DEF RrfFuse
<1> HIDE DEF all
<1>4. key \in [all -> Keys] /\ \A c, e \in all : key[c][3] = key[e][3] => c = e
  BY <1>1, <1>2 DEF RowsOK, RowsNumbered, IsInjective
<1> HIDE DEF key
<1>5. /\ list \in Seq(all) /\ ToSet(list) = all
      /\ Cardinality(all) \in Nat /\ Len(list) = Cardinality(all)
  BY <1>1, <1>4, InOrderLists
<1>6. FusedTopK \in Nat \ {0}
  BY SearchAssumption
<1>7. n \in Nat \ {0} /\ (Balanced # {} => Len(list) <= n)
  <2>1. /\ Max({FusedTopK, Cardinality(all)}) \in Nat
        /\ FusedTopK <= Max({FusedTopK, Cardinality(all)})
        /\ Cardinality(all) <= Max({FusedTopK, Cardinality(all)})
    BY <1>5, <1>6, MaxIsGreater
  <2> QED BY <1>5, <1>6, <2>1
<1> HIDE DEF n, list
<1>8. /\ Take(list, n) \in Seq(all) /\ ToSet(Take(list, n)) \subseteq all
      /\ Len(Take(list, n)) = IF n <= Len(list) THEN n ELSE Len(list)
      /\ Len(list) <= n => Take(list, n) = list
  BY <1>5, <1>7, TakeFirst
<1>9. ASSUME all # {} PROVE ToSet(Take(list, n)) # {}
  <2>1. Len(list) # 0 /\ Len(list) \in Nat
    BY <1>5, <1>9 DEF ToSet
  <2>2. Len(Take(list, n)) \in Nat \ {0}
    BY <1>7, <1>8, <2>1
  <2>3. 1 \in DOMAIN Take(list, n)
    BY <1>8, <2>2
  <2> QED BY <2>3 DEF ToSet
<1>10. Take(list, n) \in Seq(q.rows)
  BY <1>1, <1>8
<1> QED BY <1>3, <1>5, <1>7, <1>8, <1>9, <1>10 DEF all

-----------------------------------------------------------------------------
(* Selection *)

\* What repeats some chunks repeats more of them, and nothing repeats none.
LEMMA RepeatsMore ==
  ASSUME NEW kept, NEW more, kept \subseteq more, NEW c, Repeats(kept, c)
  PROVE  Repeats(more, c)
<1>1. CellsShown(kept, c) \subseteq CellsShown(more, c)
  BY DEF CellsShown
<1> QED BY <1>1 DEF Repeats, CellsCovered

LEMMA NothingRepeatsNone ==
  ASSUME NEW c
  PROVE  ~Repeats({}, c)
<1>1. CellsShown({}, c) = {}
  BY DEF CellsShown
<1> QED BY <1>1 DEF Repeats, CellsCovered

\* A chunk of a balanced document repeats another one of that document only.
LEMMA RepeatsOwnDocument ==
  ASSUME NEW kept, NEW c, c[1] \in Balanced, Repeats(kept, c)
  PROVE  \E e \in kept : e[1] = c[1]
<1>1. CASE \E e \in kept : HashKey(e) = HashKey(c)
  <2>1. PICK e \in kept : HashKey(e) = HashKey(c)
    BY <1>1
  <2>2. HashKey(c) = <<VersionOf(c), TableOf(c), TextOf(c)>>
    BY DEF HashKey
  <2>3. HashKey(e) # <<TextOf(e)>>
    BY <2>1, <2>2
  <2>4. HashKey(e) = <<VersionOf(e), TableOf(e), TextOf(e)>>
    BY <2>3 DEF HashKey
  <2>5. VersionOf(e) = VersionOf(c)
    BY <2>1, <2>2, <2>4
  <2> QED BY <2>5 DEF VersionOf
<1>2. CASE CellsCovered(kept, c)
  <2>1. PICK e \in kept : VersionOf(e) = VersionOf(c)
    BY <1>2 DEF CellsCovered, CellsShown
  <2> QED BY <2>1 DEF VersionOf
<1> QED BY <1>1, <1>2 DEF Repeats

\* Chunks are kept or repeat what is kept, up to the number wanted.
LEMMA DeduplicatedList ==
  ASSUME NEW R, NEW ranked \in Seq(R), NEW n \in Nat
  PROVE  LET kept == DeduplicateRanked(ranked, n)
         IN  /\ kept \in Seq(R) /\ ToSet(kept) \subseteq ToSet(ranked) /\ Len(kept) <= n
             /\ \A c \in ToSet(ranked) : \/ c \in ToSet(kept) \/ Repeats(ToSet(kept), c)
                                         \/ Len(kept) = n /\ n < Len(ranked)
<1> DEFINE N == Len(ranked)
           A == Seq(R)
           step == [x \in A \X (1..N) |-> KeepNew(x[1], ranked[x[2]], n)]
           Kept(f) == f = [i \in 0..N |-> IF i = 0 THEN <<>> ELSE KeepNew(f[i - 1], ranked[i], n)]
           Good(list, m) ==
             /\ list \in A /\ ToSet(list) \subseteq {ranked[i] : i \in 1..m}
             /\ Len(list) <= n /\ Len(list) <= m
             /\ \A i \in 1..m : \/ ranked[i] \in ToSet(list) \/ Repeats(ToSet(list), ranked[i])
                                \/ Len(list) = n /\ n < m
<1>1. N \in Nat /\ \A i \in 1..N : ranked[i] \in R
  OBVIOUS
<1>2. \A list \in A, c \in R : KeepNew(list, c, n) \in A
  BY DEF KeepNew
<1>3. <<>> \in A
  OBVIOUS
<1> HIDE DEF N
<1>4. step \in Steps(A, N)
  <2> HIDE DEF A
  <2> QED BY <1>1, <1>2 DEF Steps
<1>5. PICK f : Iterates(f, N, A, <<>>, step)
  <2> HIDE DEF step, A
  <2> QED BY <1>1, <1>3, <1>4, Recursion
<1>6. Kept(f)
  <2> HIDE DEF A
  <2>1. ASSUME NEW i \in 1..N PROVE f[i] = KeepNew(f[i - 1], ranked[i], n)
    <3>1. i - 1 \in 0..N
      BY <1>1
    <3>2. <<f[i - 1], i>> \in A \X (1..N)
      BY <3>1, <1>5 DEF Iterates
    <3> QED BY <3>2, <1>5 DEF Iterates
  <2> QED BY <1>1, <1>5, <2>1 DEF Iterates
<1>7. ASSUME NEW list, NEW m \in 1..N, Good(list, m - 1)
      PROVE  Good(KeepNew(list, ranked[m], n), m)
  <2> DEFINE c == ranked[m]
             new == KeepNew(list, c, n)
  <2>1. /\ list \in A /\ Len(list) \in Nat /\ m \in Nat /\ m - 1 \in Nat /\ c \in R
        /\ ToSet(list) \subseteq {ranked[i] : i \in 1..(m - 1)}
        /\ Len(list) <= n /\ Len(list) <= m - 1
        /\ \A i \in 1..(m - 1) : \/ ranked[i] \in ToSet(list) \/ Repeats(ToSet(list), ranked[i])
                                 \/ Len(list) = n /\ n < m - 1
    BY <1>1, <1>7
  <2>2. \A i \in 1..m : i = m \/ i \in 1..(m - 1)
    BY <2>1
  <2>3. 1..(m - 1) \subseteq 1..m /\ m \in 1..m
    BY <2>1
  <2>4. CASE Len(list) = n
    <3>1. new = list
      BY <2>4 DEF KeepNew
    <3>2. n < m
      BY <2>1, <2>4
    <3>3. Good(list, m)
      <4> HIDE DEF A
      <4> QED BY <2>1, <2>3, <2>4, <3>2
    <3> QED BY <3>1, <3>3
  <2>5. CASE Len(list) # n /\ Repeats(ToSet(list), c)
    <3>1. new = list
      BY <2>5 DEF KeepNew
    <3>2. \A i \in 1..m : ranked[i] \in ToSet(list) \/ Repeats(ToSet(list), ranked[i])
      BY <2>1, <2>2, <2>5
    <3>3. Len(list) <= m
      BY <2>1
    <3>4. Good(list, m)
      <4> HIDE DEF A
      <4> QED BY <2>1, <2>3, <3>2, <3>3
    <3> QED BY <3>1, <3>4
  <2>6. CASE Len(list) # n /\ ~Repeats(ToSet(list), c)
    <3>1. new = Append(list, c)
      BY <2>6 DEF KeepNew
    <3>2. /\ new \in A /\ Len(new) = Len(list) + 1
          /\ ToSet(new) = ToSet(list) \cup {c}
      <4> HIDE DEF new, c
      <4> QED BY <2>1, <3>1, AppendMembers
    <3>3. Len(new) <= n /\ Len(new) <= m
      BY <2>1, <2>6, <3>2
    <3> HIDE DEF new, A
    <3>4. \A i \in 1..m : ranked[i] \in ToSet(new) \/ Repeats(ToSet(new), ranked[i])
      <4>1. \A i \in 1..(m - 1) : Repeats(ToSet(list), ranked[i]) => Repeats(ToSet(new), ranked[i])
        BY <3>2, RepeatsMore
      <4>2. ~(Len(list) = n)
        BY <2>6
      <4> QED BY <2>1, <2>2, <3>2, <4>1, <4>2
    <3>5. ToSet(new) \subseteq {ranked[i] : i \in 1..m}
      BY <2>1, <2>3, <3>2
    <3>6. Good(new, m)
      <4> HIDE DEF A
      <4> QED BY <3>2, <3>3, <3>4, <3>5
    <3> QED BY <3>6 DEF new
  <2> QED BY <2>4, <2>5, <2>6
<1>8. Good(<<>>, 0)
  BY DEF ToSet
<1> HIDE DEF Good, A
<1>9. ASSUME NEW g, Kept(g) PROVE Good(g[N], N)
  <2> DEFINE S == {i \in 0..N : Good(g[i], i)}
  <2>1. 0 \in S
    <3>1. g[0] = <<>> /\ 0 \in 0..N
      BY <1>1, <1>9
    <3> QED BY <1>8, <3>1
  <2>2. ASSUME NEW i \in 1..N, i - 1 \in S PROVE i \in S
    <3>1. g[i] = KeepNew(g[i - 1], ranked[i], n) /\ i \in 0..N
      BY <1>1, <1>9
    <3>2. Good(g[i - 1], i - 1)
      BY <2>2
    <3> QED BY <1>7, <3>1, <3>2
  <2> HIDE DEF S
  <2>3. 0..N \subseteq S
    BY <1>1, <2>1, <2>2, InductionUpTo
  <2> QED BY <1>1, <2>3 DEF S
<1> DEFINE kept == DeduplicateRanked(ranked, n)
<1>10. Good(kept, N)
  BY <1>6, <1>9 DEF DeduplicateRanked, N
<1> HIDE DEF kept
<1>11. \A c \in ToSet(ranked) : \E i \in 1..N : ranked[i] = c
  BY DEF ToSet, N
<1>12. {ranked[i] : i \in 1..N} = ToSet(ranked)
  BY DEF ToSet, N
<1> QED BY <1>10, <1>11, <1>12 DEF Good, A, N, kept

\* No two mandatory places are of one document.
LEMMA MandatoryFit ==
  ASSUME RequestOK, NEW R, NEW pool \in Seq(R)
  PROVE  /\ Mandatory(pool) \in SUBSET (1..Len(pool)) /\ IsFiniteSet(Mandatory(pool))
         /\ Cardinality(Mandatory(pool)) \in 0..q.request.topK
<1> DEFINE M == Mandatory(pool)
           docOf == [i \in M |-> pool[i][1]]
<1>1. M \in SUBSET (1..Len(pool)) /\ \A i \in M : pool[i][1] \in Balanced /\ FirstOfDoc(pool, i)
  BY DEF Mandatory
<1> HIDE DEF M
<1>2. docOf \in Injection(M, Balanced)
  <2>1. ASSUME NEW i \in M, NEW j \in M, docOf[i] = docOf[j] PROVE i = j
    <3>1. ASSUME NEW k \in M, NEW l \in M, k < l PROVE docOf[k] # docOf[l]
      <4>1. k \in 1..(l - 1)
        BY <3>1, <1>1
      <4> QED BY <4>1, <1>1 DEF FirstOfDoc
    <3>2. i \in Nat /\ j \in Nat
      BY <1>1
    <3> QED BY <2>1, <3>1, <3>2
  <2>2. docOf \in [M -> Balanced]
    BY <1>1
  <2> QED BY <2>1, <2>2 DEF Injection, IsInjective
<1>3. IsFiniteSet(Balanced) /\ Cardinality(Balanced) \in 0..q.request.topK
      /\ q.request.topK \in Nat
  BY BalancedFit
<1>4. IsFiniteSet(M) /\ Cardinality(M) <= Cardinality(Balanced)
  BY <1>2, <1>3, FS_Injection
<1>5. Cardinality(M) \in Nat
  BY <1>4, FS_CardinalityType
<1> QED BY <1>1, <1>3, <1>4, <1>5 DEF M

\* The chosen places are top_k at most, and all there are if they are fewer.
LEMMA ChosenPlaces ==
  ASSUME RequestOK, NEW R, NEW pool \in Seq(R)
  PROVE  /\ Chosen(pool) \in SUBSET DOMAIN pool /\ Mandatory(pool) \subseteq Chosen(pool)
         /\ Cardinality(Chosen(pool)) \in 0..q.request.topK
         /\ Cardinality(Chosen(pool)) < q.request.topK => Chosen(pool) = DOMAIN pool
<1> DEFINE N == Len(pool)
           M == Mandatory(pool)
           K == q.request.topK
           free == K - Cardinality(M)
           before(i) == 1..i \ M
           count(i) == Cardinality(before(i))
           E == Extra(pool, free)
<1>1. /\ N \in Nat /\ DOMAIN pool = 1..N /\ K \in Nat
      /\ M \in SUBSET (1..N) /\ IsFiniteSet(M) /\ Cardinality(M) \in 0..K
  BY MandatoryFit, BalancedFit
<1>2. E = {i \in 1..N \ M : count(i) <= free}
  BY <1>1 DEF Extra
<1>3. Chosen(pool) = M \cup E
  BY DEF Chosen
<1> HIDE DEF N, M, K, E
<1>4. free \in Nat
  BY <1>1
<1>5. ASSUME NEW i \in 0..N PROVE IsFiniteSet(before(i)) /\ count(i) \in Nat
  <2>1. IsFiniteSet(1..i)
    BY FS_Interval
  <2>2. IsFiniteSet(before(i))
    BY <2>1, FS_Subset
  <2> QED BY <2>2, FS_CardinalityType
<1>6. count(0) = 0
  <2>1. before(0) = {}
    OBVIOUS
  <2> QED BY <2>1, FS_EmptySet
<1>7. ASSUME NEW i \in 1..N PROVE count(i) <= count(i - 1) + 1
  <2>1. i - 1 \in 0..N /\ i \in 0..N
    BY <1>1
  <2>2. IsFiniteSet(before(i - 1)) /\ count(i - 1) \in Nat /\ count(i) \in Nat
    BY <1>5, <2>1
  <2>3. before(i) \in SUBSET (before(i - 1) \cup {i})
    BY <1>1
  <2> HIDE DEF before
  <2>4. /\ IsFiniteSet(before(i - 1) \cup {i})
        /\ Cardinality(before(i - 1) \cup {i}) = IF i \in before(i - 1) THEN count(i - 1)
                                                 ELSE count(i - 1) + 1
    BY <2>2, FS_AddElement
  <2>5. count(i) <= Cardinality(before(i - 1) \cup {i})
    BY <2>3, <2>4, FS_Subset
  <2> QED BY <2>2, <2>4, <2>5
<1>8. IsFiniteSet(E) /\ Cardinality(E) \in Nat /\ E \subseteq 1..N
  <2>1. E \in SUBSET (1..N)
    BY <1>2
  <2>2. IsFiniteSet(1..N)
    BY <1>1, FS_Interval
  <2> QED BY <2>1, <2>2, FS_Subset, FS_CardinalityType
<1>9. Cardinality(E) <= free
  <2>1. CASE E = {}
    BY <2>1, <1>4, FS_EmptySet
  <2>2. CASE E # {}
    <3>1. E \subseteq 0..N
      BY <1>1, <1>8
    <3>2. PICK m \in E : \A i \in E : i <= m
      BY <2>2, <3>1, <1>1, GreatestMember
    <3>3. E \in SUBSET before(m)
      BY <3>2, <1>2, <1>8
    <3>4. m \in 0..N /\ count(m) <= free
      BY <3>1, <1>2
    <3>5. IsFiniteSet(before(m)) /\ count(m) \in Nat
      BY <3>4, <1>5
    <3> HIDE DEF before
    <3>6. Cardinality(E) <= count(m)
      BY <3>3, <3>5, FS_Subset
    <3> HIDE DEF free
    <3> QED BY <3>4, <3>5, <3>6, <1>4, <1>8
  <2> QED BY <2>1, <2>2
<1>10. ASSUME NEW i \in 1..N, i \notin M \cup E PROVE Cardinality(E) >= free
  <2> DEFINE late == {j \in 1..N : count(j) > free}
  <2>1. i \in late
    <3>1. i \in 0..N
      BY <1>1
    <3>2. ~(count(i) <= free)
      BY <1>2, <1>10
    <3>3. count(i) \in Nat
      BY <3>1, <1>5
    <3>4. count(i) > free
      <4> HIDE DEF count, free
      <4> QED BY <3>2, <3>3, <1>4
    <3> QED BY <3>4
  <2>2. late \subseteq Nat /\ late # {}
    <3>1. late \subseteq 1..N
      OBVIOUS
    <3> HIDE DEF late
    <3> QED BY <3>1, <2>1, <1>1
  <2> HIDE DEF late
  <2>3. PICK j \in late : \A k \in late : j <= k
    BY <2>2, LeastMember
  <2>4. j \in 1..N /\ count(j) > free
    BY DEF late
  <2>5. ASSUME NEW k \in 1..(j - 1) PROVE k \in 1..N /\ count(k) <= free
    <3>1. k \in 1..N /\ k \in 0..N /\ ~(j <= k)
      BY <1>1, <2>4
    <3>2. k \notin late
      BY <2>3, <3>1
    <3>3. ~(count(k) > free)
      BY <3>1, <3>2 DEF late
    <3>4. count(k) \in Nat
      BY <3>1, <1>5
    <3> HIDE DEF count, free
    <3> QED BY <3>1, <3>3, <3>4, <1>4
  <2>6. j - 1 \in 0..N /\ j \in 0..N
    BY <1>1, <2>4
  <2>7. free <= count(j - 1)
    <3>1. count(j) <= count(j - 1) + 1 /\ count(j) \in Nat /\ count(j - 1) \in Nat
      BY <1>5, <1>7, <2>4, <2>6
    <3> HIDE DEF count, free
    <3> QED BY <3>1, <2>4, <1>4
  <2>8. before(j - 1) \in SUBSET E
    BY <1>2, <2>5
  <2>9. count(j - 1) <= Cardinality(E)
    <3> HIDE DEF before
    <3> QED BY <2>8, <1>8, FS_Subset
  <2>10. count(j - 1) \in Nat
    BY <1>5, <2>6
  <2> HIDE DEF count, free
  <2> QED BY <2>7, <2>9, <2>10, <1>4, <1>8
<1>11. Cardinality(M \cup E) = Cardinality(M) + Cardinality(E)
  <2>1. M \cap E = {}
    BY <1>2
  <2>2. Cardinality(M \cap E) = 0
    BY <2>1, FS_EmptySet
  <2>3. Cardinality(M \cup E) = Cardinality(M) + Cardinality(E) - Cardinality(M \cap E)
    BY <1>1, <1>8, FS_Union
  <2> QED BY <2>2, <2>3, <1>1, <1>8
<1>12. Cardinality(M \cup E) \in 0..K
  BY <1>1, <1>8, <1>9, <1>11
<1>13. ASSUME Cardinality(M \cup E) < K PROVE M \cup E = 1..N
  <2>1. ~(Cardinality(E) >= free)
    BY <1>1, <1>8, <1>11, <1>13
  <2>2. \A i \in 1..N : i \in M \cup E
    BY <2>1, <1>10
  <2> QED BY <2>2, <1>1, <1>8
<1> QED BY <1>1, <1>3, <1>8, <1>12, <1>13 DEF M, K

\* What select_evidence promises of the ranked candidates.
LEMMA SelectedList ==
  ASSUME RequestOK, NEW R, NEW ranked \in Seq(R)
  PROVE  LET hits == SelectEvidence(ranked)
         IN  /\ hits \in Seq(R) /\ ToSet(hits) \subseteq ToSet(ranked)
             /\ Len(hits) <= q.request.topK
             /\ Len(hits) < q.request.topK =>
                  \A c \in ToSet(ranked) : c \in ToSet(hits) \/ Repeats(ToSet(hits), c)
             /\ \A c \in ToSet(ranked) : c[1] \in Balanced => \E e \in ToSet(hits) : e[1] = c[1]
             /\ ToSet(ranked) # {} => ToSet(hits) # {}
<1> DEFINE hits == SelectEvidence(ranked)
           K == q.request.topK
<1>1. K \in Nat \ {0}
  BY BalancedFit
<1>2. CASE Balanced = {}
  <2>1. hits = DeduplicateRanked(ranked, K)
    BY <1>2 DEF SelectEvidence
  <2> HIDE DEF hits, K
  <2>2. /\ hits \in Seq(R) /\ ToSet(hits) \subseteq ToSet(ranked) /\ Len(hits) <= K
        /\ \A c \in ToSet(ranked) : c \in ToSet(hits) \/ Repeats(ToSet(hits), c) \/ Len(hits) = K
    BY <1>1, <2>1, DeduplicatedList
  <2>3. Len(hits) \in Nat
    BY <2>2
  <2>4. Len(hits) < K =>
          \A c \in ToSet(ranked) : c \in ToSet(hits) \/ Repeats(ToSet(hits), c)
    BY <1>1, <2>2, <2>3
  <2>5. ASSUME NEW c \in ToSet(ranked), ToSet(hits) = {} PROVE FALSE
    <3>1. Len(hits) = 0
      <4>1. Len(hits) # 0 => hits[1] \in ToSet(hits)
        BY <2>2, <2>3 DEF ToSet
      <4> QED BY <4>1, <2>5
    <3>2. Repeats({}, c)
      BY <3>1, <1>1, <2>4, <2>5
    <3> QED BY <3>2, NothingRepeatsNone
  <2> QED BY <1>2, <2>2, <2>4, <2>5 DEF hits, K
<1>3. CASE Balanced # {}
  <2> DEFINE pool == DeduplicateRanked(ranked, Len(ranked))
  <2>1. hits = At(pool, Chosen(pool))
    BY <1>3 DEF SelectEvidence
  <2> HIDE DEF hits
  <2>2. /\ pool \in Seq(R) /\ ToSet(pool) \subseteq ToSet(ranked)
        /\ \A c \in ToSet(ranked) : c \in ToSet(pool) \/ Repeats(ToSet(pool), c)
    <3> DEFINE m == Len(ranked)
    <3>1. m \in Nat
      OBVIOUS
    <3>2. pool = DeduplicateRanked(ranked, m)
      OBVIOUS
    <3> HIDE DEF m, pool
    <3>3. /\ pool \in Seq(R) /\ ToSet(pool) \subseteq ToSet(ranked)
          /\ \A c \in ToSet(ranked) :
               \/ c \in ToSet(pool) \/ Repeats(ToSet(pool), c)
               \/ Len(pool) = m /\ m < Len(ranked)
      BY <3>1, <3>2, DeduplicatedList
    <3>4. ~(m < Len(ranked))
      BY <3>1 DEF m
    <3> QED BY <3>3, <3>4
  <2> HIDE DEF pool
  <2>3. /\ Chosen(pool) \in SUBSET DOMAIN pool /\ Mandatory(pool) \subseteq Chosen(pool)
        /\ Cardinality(Chosen(pool)) \in 0..K
        /\ Cardinality(Chosen(pool)) < K => Chosen(pool) = DOMAIN pool
    BY <2>2, ChosenPlaces
  <2>4. /\ hits \in Seq(R) /\ ToSet(hits) = {pool[i] : i \in Chosen(pool)}
        /\ Len(hits) = Cardinality(Chosen(pool))
    BY <2>1, <2>2, <2>3, AtPlaces
  <2> HIDE DEF K
  <2>5. Len(hits) <= K
    BY <1>1, <2>3, <2>4
  <2>6. ToSet(hits) \subseteq ToSet(pool)
    BY <2>3, <2>4 DEF ToSet
  <2>7. Len(hits) < K => ToSet(hits) = ToSet(pool)
    BY <2>3, <2>4 DEF ToSet
  <2>8. Len(hits) < K => \A c \in ToSet(ranked) : c \in ToSet(hits) \/ Repeats(ToSet(hits), c)
    BY <2>2, <2>7
  <2>9. ASSUME NEW c \in ToSet(ranked), c[1] \in Balanced PROVE \E e \in ToSet(hits) : e[1] = c[1]
    <3>1. PICK e \in ToSet(pool) : e[1] = c[1]
      BY <2>2, <2>9, RepeatsOwnDocument
    <3>2. PICK i \in DOMAIN pool : pool[i][1] = e[1] /\ FirstOfDoc(pool, i)
      BY <2>2, FirstPlace
    <3>3. i \in Chosen(pool)
      BY <2>3, <2>9, <3>1, <3>2 DEF Mandatory
    <3> QED BY <2>4, <3>1, <3>2, <3>3
  <2>10. ASSUME NEW c \in ToSet(ranked), ToSet(hits) = {} PROVE FALSE
    <3>1. Len(hits) = 0
      <4>1. Len(hits) # 0 => hits[1] \in ToSet(hits)
        BY <2>4 DEF ToSet
      <4> QED BY <4>1, <2>10
    <3>2. Repeats({}, c)
      BY <3>1, <1>1, <2>8, <2>10
    <3> QED BY <3>2, NothingRepeatsNone
  <2> QED BY <2>2, <2>4, <2>5, <2>6, <2>8, <2>9, <2>10 DEF hits, K
<1> QED BY <1>2, <1>3

-----------------------------------------------------------------------------
(* Context *)

\* The words of a chunk that the question has.
LEMMA OverlapIsNat ==
  ASSUME RequestOK, NEW c \in AllChunks
  PROVE  Overlap(c) \in Nat
<1>1. VersionOf(c) \in Versions /\ c \in Chunks(VersionOf(c))
  BY ChunksAreOfVersions
<1>2. c[1] \in Docs /\ c[2] \in DOMAIN Layout[c[1]] /\ c[3] \in DOMAIN Layout[c[1]][c[2]]
  BY <1>1, VersionsOfLayout DEF VersionOf, Chunks
<1>3. IsFiniteSet(TermsOf(c))
  BY <1>2, LayoutAssumption DEF TermsOf, PieceOf
<1>4. IsFiniteSet(TermsOf(c) \cap q.request.query)
  BY <1>3, FS_Subset
<1> QED BY <1>4, FS_CardinalityType DEF Overlap

\* The context of a hit is chunks of its version.
LEMMA ContextOfVersion ==
  ASSUME RequestOK, NEW c \in AllChunks
  PROVE  ExpandTableContext(c) \in Seq(Chunks(VersionOf(c)))
<1> DEFINE V == Chunks(VersionOf(c))
           rows == RelatedRows(c)
           key == [e \in rows |-> <<-Overlap(e), Distance(e[3], c[3]), e[3]>>]
           parent == <<c[1], c[2], TableOf(c)>>
           ordered == <<parent, c>> \o Take(InOrder(rows, key), MaxAdjacentRows)
           places == {i \in DOMAIN ordered :
                        \A j \in 1..(i - 1) : TextOf(ordered[j]) # TextOf(ordered[i])}
<1>1. /\ VersionOf(c) \in Versions /\ c \in V
      /\ c[1] \in Docs /\ c[2] \in Nat /\ c[3] \in Nat /\ c = <<c[1], c[2], c[3]>>
  BY ChunksAreOfVersions
<1>2. CASE ~IsRow(c)
  <2>1. ExpandTableContext(c) = <<c>>
    BY <1>2 DEF ExpandTableContext
  <2> HIDE DEF V
  <2> QED BY <1>1, <2>1 DEF V
<1>3. CASE IsRow(c)
  <2>1. ExpandTableContext(c) = At(ordered, places)
    BY <1>3 DEF ExpandTableContext
  <2>2. parent \in V
    <3>1. c[2] \in DOMAIN Layout[c[1]] /\ c[3] \in DOMAIN Layout[c[1]][c[2]]
      BY <1>1, VersionsOfLayout DEF VersionOf, Chunks
    <3>2. TableOf(c) \in 0..(c[3] - 1) /\ TableOf(c) # 0
      BY <1>1, <1>3, <3>1, LayoutAssumption DEF TableOf, PieceOf, IsRow
    <3>3. DOMAIN Layout[c[1]][c[2]] = 1..Len(Layout[c[1]][c[2]])
      BY <1>1, <3>1, LayoutAssumption DEF IsSequence
    <3>4. TableOf(c) \in DOMAIN Layout[c[1]][c[2]]
      BY <1>1, <3>1, <3>2, <3>3
    <3> QED BY <3>4 DEF Chunks, VersionOf
  <2>3. /\ IsFiniteSet(rows) /\ rows \subseteq V
        /\ \A e \in rows : e = <<c[1], c[2], e[3]>> /\ e[3] \in Nat /\ e \in AllChunks
    <3>1. rows \in SUBSET V
      BY DEF RelatedRows
    <3>2. IsFiniteSet(V) /\ \A e \in V : e = <<VersionOf(c)[1], VersionOf(c)[2], e[3]>> /\ e[3] \in Nat
      BY <1>1, ChunksOfVersion
    <3>3. IsFiniteSet(rows)
      BY <3>1, <3>2, FS_Subset
    <3>4. V \subseteq AllChunks
      BY <1>1 DEF AllChunks
    <3> QED BY <3>1, <3>2, <3>3, <3>4 DEF VersionOf
  <2> HIDE DEF rows, V
  <2>4. key \in [rows -> Keys] /\ \A e, f \in rows : key[e][3] = key[f][3] => e = f
    <3>1. ASSUME NEW e \in rows
          PROVE  -Overlap(e) \in Int /\ Distance(e[3], c[3]) \in Int /\ e[3] \in Int
      BY <1>1, <2>3, OverlapIsNat DEF Distance
    <3> QED BY <2>3, <3>1 DEF Keys
  <2> HIDE DEF key
  <2>5. InOrder(rows, key) \in Seq(V)
    BY <2>3, <2>4, InOrderLists
  <2>6. Take(InOrder(rows, key), MaxAdjacentRows) \in Seq(V)
    BY <2>5, TakeFirst DEF MaxAdjacentRows
  <2>7. <<parent, c>> \in Seq(V)
    BY <1>1, <2>2
  <2>8. ordered \in Seq(V)
    <3> DEFINE a == <<parent, c>>
               b == Take(InOrder(rows, key), MaxAdjacentRows)
    <3>1. a \in Seq(V) /\ b \in Seq(V)
      BY <2>6, <2>7
    <3> HIDE DEF a, b
    <3>2. a \o b \in Seq(V)
      BY <3>1
    <3> QED BY <3>2 DEF a, b
  <2> HIDE DEF ordered
  <2>9. At(ordered, places) \in Seq(V)
    BY <2>8, AtPlaces
  <2> QED BY <2>1, <2>9 DEF V
<1> QED BY <1>2, <1>3

-----------------------------------------------------------------------------
(* The inductive invariant *)

\* The search is a record of its request and of what it has read and found.
SearchOK ==
  /\ q = [pc |-> q.pc, request |-> q.request, snapshot |-> q.snapshot, docs |-> q.docs,
          rows |-> q.rows, results |-> q.results, pool |-> q.pool, degraded |-> q.degraded]
  /\ q.pc \in {"idle", "scope", "chunks", "ranking", "done", "failed"}
  /\ q.pc # "idle" => q.request \in Requests

\* The rows read are of documents in scope, of one version each that was in service; there
\* are none before they are read.
ReadsOK ==
  /\ q.pc \in {"scope", "chunks", "ranking"} => q.snapshot.chunks \subseteq AllChunks
  /\ q.pc \in {"chunks", "ranking", "done"} => RequestOK
  /\ q.docs \subseteq Docs /\ RowsOK
  /\ q.pc \notin {"ranking", "done"} => q.rows = {}
  /\ \A c \in q.rows : c[1] \in q.docs /\ VersionOf(c) \in seen
  /\ \A c, e \in q.rows : c[1] = e[1] => c[2] = e[2]

\* Until the chunks are read, what is in service is seen, and in a calm search it is what was
\* in service at its start; then the rows of the latter in scope have been read.
HistoryOK ==
  /\ start \subseteq Versions /\ seen \subseteq Versions /\ calm \in BOOLEAN
  /\ q.pc \in {"scope", "chunks"} => Served \subseteq seen /\ (calm => start = Served)
  /\ calm /\ q.pc \in {"ranking", "done"} =>
       \A c \in AllChunks : c[1] \in q.docs /\ VersionOf(c) \in start => c \in q.rows

\* A result is a row read, with a context of its version.
ResultsOK ==
  /\ q.pc # "done" => q.results = <<>> /\ q.pool = {}
  /\ \A r \in ToSet(q.results) : /\ r.chunk \in q.rows
                                 /\ r.context \in Seq(Chunks(VersionOf(r.chunk)))
  /\ ScopedPapersKept /\ NoPlaceWasted

SearchInv == CorpusInv /\ SearchOK /\ ReadsOK /\ HistoryOK /\ ResultsOK

\* What is in service are versions of the documents.
LEMMA ServedVersions == CorpusInv => Served \subseteq Versions
BY DEF CorpusInv, VersionsStored, Served

LEMMA InitInv == Init => SearchInv
<1> SUFFICES ASSUME Init PROVE SearchInv
  OBVIOUS
<1>1. CorpusInv
  BY CorpusInvInit DEF Init
<1>2. q = Idle /\ start = {} /\ seen = {} /\ calm = TRUE
  BY DEF Init
<1>3. SearchOK
  BY <1>2 DEF SearchOK, Idle
<1>4. ReadsOK
  BY <1>2, FS_EmptySet DEF ReadsOK, RowsOK, Idle
<1>5. HistoryOK
  BY <1>2 DEF HistoryOK, Idle
<1>6. ResultsOK
  BY <1>2 DEF ResultsOK, Idle, ToSet, ScopedPapersKept, NoPlaceWasted
<1> QED BY <1>1, <1>3, <1>4, <1>5, <1>6 DEF SearchInv

\* A commit keeps the rows there are.
LEMMA RowsStay ==
  ASSUME CorpusInv, CorpusNext
  PROVE  DOMAIN idOf \subseteq DOMAIN idOf'
<1>1. CASE \E d \in Docs : Request(d) \/ Build(d) \/ RequestDelete(d)
  BY <1>1 DEF Request, Build, RequestDelete
<1>2. CASE Activate \/ Reject
  <2>1. build # None /\ Store
    BY <1>2 DEF Activate, Reject
  <2> QED BY <2>1, StoreRows
<1>3. CASE ChangeModel
  BY <1>3 DEF ChangeModel
<1> QED BY <1>1, <1>2, <1>3 DEF CorpusNext

\* A commit changes nothing that the search has read, only what it may still read.
LEMMA CommitSearch ==
  ASSUME SearchInv, Commit
  PROVE  SearchInv'
<1>1. /\ UNCHANGED <<q, start>> /\ CorpusNext /\ q.pc \notin {"done", "failed"}
      /\ seen' = IF q.pc = "idle" THEN seen ELSE seen \cup Served'
      /\ calm' = (calm /\ ~(q.pc \in {"scope", "chunks"} /\ <<doc, snapshot>>' # <<doc, snapshot>>))
  BY DEF Commit
<1>2. CorpusInv'
  BY <1>1, CorpusInductive DEF SearchInv
<1>3. Served' \subseteq Versions
  BY <1>2 DEF CorpusInv, VersionsStored, Served
<1>4. SearchOK'
  BY <1>1 DEF SearchInv, SearchOK
<1>5. seen \subseteq seen' /\ (q.pc # "idle" => Served' \subseteq seen')
  BY <1>1
<1>6. ReadsOK'
  <2>1. DOMAIN idOf \subseteq DOMAIN idOf'
    BY <1>1, RowsStay DEF SearchInv
  <2>2. RequestOK' <=> RequestOK
    BY <1>1 DEF RequestOK
  <2> QED BY <1>1, <1>5, <2>1, <2>2 DEF SearchInv, ReadsOK, RowsOK
<1>7. HistoryOK'
  <2>1. start' \subseteq Versions /\ seen' \subseteq Versions
    BY <1>1, <1>3 DEF SearchInv, HistoryOK
  <2>2. calm' \in BOOLEAN /\ (calm' => calm)
    BY <1>1 DEF SearchInv, HistoryOK
  <2>3. ASSUME calm', q'.pc \in {"scope", "chunks"} PROVE start' = Served'
    <3>1. doc' = doc
      BY <1>1, <2>3
    <3>2. Served' = Served
      BY <3>1 DEF Served
    <3> QED BY <1>1, <2>2, <2>3, <3>2 DEF SearchInv, HistoryOK
  <2>4. ASSUME calm', q'.pc \in {"ranking", "done"}
        PROVE  \A c \in AllChunks : c[1] \in q'.docs /\ VersionOf(c) \in start' => c \in q'.rows
    BY <1>1, <2>2, <2>4 DEF SearchInv, HistoryOK
  <2> QED BY <1>1, <1>5, <2>1, <2>2, <2>3, <2>4 DEF HistoryOK
<1>8. ResultsOK'
  <2>1. q'.pc # "done" /\ q'.results = <<>> /\ q'.pool = {}
    BY <1>1 DEF SearchInv, SearchOK, ResultsOK
  <2> QED BY <2>1, <1>1 DEF ResultsOK, ToSet, ScopedPapersKept, NoPlaceWasted
<1> QED BY <1>2, <1>4, <1>6, <1>7, <1>8 DEF SearchInv

LEMMA BeginInv ==
  ASSUME SearchInv, NEW r \in Requests, Begin(r)
  PROVE  SearchInv'
<1> DEFINE pc == IF snapshot = None \/ snapshot.model # model THEN "failed" ELSE "scope"
<1>1. UNCHANGED corpus /\ start' = Served /\ seen' = Served /\ calm' = TRUE
  BY DEF Begin
<1>2. q' = [pc |-> pc, request |-> r, snapshot |-> snapshot, docs |-> {}, rows |-> {},
            results |-> <<>>, pool |-> {}, degraded |-> {}]
  BY DEF Begin, Idle
<1>3. CorpusInv'
  BY <1>1, CorpusInductive DEF SearchInv
<1>4. SearchOK'
  BY <1>2 DEF SearchOK
<1>5. ReadsOK'
  <2>1. pc = "scope" => snapshot.chunks \subseteq AllChunks
    BY DEF SearchInv, CorpusInv, ModelsOK
  <2> QED BY <1>2, <2>1, FS_EmptySet DEF ReadsOK, RowsOK
<1>6. HistoryOK'
  <2>1. Served' = Served /\ Served \subseteq Versions
    BY <1>1, ServedVersions DEF Served, corpus, SearchInv
  <2> QED BY <1>1, <1>2, <2>1 DEF HistoryOK
<1>7. ResultsOK'
  BY <1>2 DEF ResultsOK, ToSet, ScopedPapersKept, NoPlaceWasted
<1> QED BY <1>3, <1>4, <1>5, <1>6, <1>7 DEF SearchInv

LEMMA ResolveScopeInv ==
  ASSUME SearchInv, ResolveScope
  PROVE  SearchInv'
<1> DEFINE scope == q.request.scope
           found == CASE scope.type = "documents" -> scope.docs \cap ReadyDocs
                      [] scope.type = "collection" -> Member \cap ReadyDocs
                      [] scope.type = "all" -> ReadyDocs
           fails == scope.type = "documents" /\ found # scope.docs
<1>1. /\ UNCHANGED <<corpus, start, seen, calm>> /\ q.pc = "scope"
      /\ q' = IF fails THEN [q EXCEPT !.pc = "failed"]
              ELSE [q EXCEPT !.pc = "chunks", !.docs = found]
  BY DEF ResolveScope
<1>2. q.request \in Requests /\ scope \in Scopes
  BY <1>1, SearchAssumption DEF SearchInv, SearchOK
<1>3. found \subseteq Docs
  BY <1>2, SearchAssumption DEF Scopes, ReadyDocs
<1> HIDE DEF found, fails
<1>4. q' = [pc |-> IF fails THEN "failed" ELSE "chunks", request |-> q.request,
            snapshot |-> q.snapshot, docs |-> IF fails THEN q.docs ELSE found,
            rows |-> q.rows, results |-> q.results, pool |-> q.pool, degraded |-> q.degraded]
  BY <1>1 DEF SearchInv, SearchOK
<1>5. CorpusInv'
  BY <1>1, CorpusInductive DEF SearchInv
<1>6. SearchOK'
  BY <1>2, <1>4 DEF SearchOK
<1>7. q.rows = {}
  BY <1>1 DEF SearchInv, ReadsOK
<1>8. ReadsOK'
  <2>1. ~fails /\ q'.request.scope.type = "documents" => q'.docs = q'.request.scope.docs
    BY <1>4 DEF fails
  <2>2. ~fails => RequestOK'
    BY <1>2, <1>4, <2>1 DEF RequestOK
  <2> QED BY <1>1, <1>3, <1>4, <1>7, <2>2, FS_EmptySet DEF SearchInv, ReadsOK, RowsOK
<1>9. HistoryOK'
  <2>1. Served' = Served
    BY <1>1 DEF Served, corpus
  <2> QED BY <1>1, <1>4, <2>1 DEF SearchInv, HistoryOK
<1>10. ResultsOK'
  <2>1. q'.pc # "done" /\ q'.results = <<>> /\ q'.pool = {}
    BY <1>1, <1>4 DEF SearchInv, ResultsOK
  <2> QED BY <2>1 DEF ResultsOK, ToSet, ScopedPapersKept, NoPlaceWasted
<1> QED BY <1>5, <1>6, <1>8, <1>9, <1>10 DEF SearchInv

\* Every chunk in service of the scope is a row that is read.
LEMMA ReadChunksInv ==
  ASSUME SearchInv, ReadChunks
  PROVE  SearchInv'
<1>1. /\ UNCHANGED <<corpus, start, seen, calm>> /\ q.pc = "chunks"
      /\ q' = IF ActiveRows = {} THEN [q EXCEPT !.pc = "done", !.degraded = {"EMPTY_SCOPE"}]
              ELSE [q EXCEPT !.pc = "ranking", !.rows = ActiveRows]
  BY DEF ReadChunks
<1>2. /\ q.request \in Requests /\ RequestOK
      /\ q.rows = {} /\ q.results = <<>> /\ q.pool = {}
  BY <1>1 DEF SearchInv, SearchOK, ReadsOK, ResultsOK
<1>3. /\ q'.pc = (IF ActiveRows = {} THEN "done" ELSE "ranking")
      /\ q'.request = q.request /\ q'.snapshot = q.snapshot /\ q'.docs = q.docs
      /\ q'.rows = ActiveRows /\ q'.results = <<>> /\ q'.pool = {}
  BY <1>1, <1>2 DEF SearchInv, SearchOK
<1>4. CorpusInv'
  BY <1>1, CorpusInductive DEF SearchInv
<1>5. SearchOK'
  BY <1>1, <1>2 DEF SearchInv, SearchOK
<1>6. \A c \in ActiveRows : /\ c \in DOMAIN idOf /\ c \in AllChunks /\ c[1] \in q.docs
                            /\ VersionOf(c) \in Served
  BY DEF ActiveRows, SearchInv, CorpusInv, RowsNumbered
<1>7. ReadsOK'
  <2>1. IsFiniteSet(ActiveRows)
    <3>1. IsFiniteSet(DOMAIN idOf) /\ ActiveRows \in SUBSET DOMAIN idOf
      BY <1>6 DEF SearchInv, CorpusInv, RowsNumbered
    <3> QED BY <3>1, FS_Subset
  <2>2. RequestOK' <=> RequestOK
    BY <1>3 DEF RequestOK
  <2>3. \A c \in ActiveRows : VersionOf(c) \in seen
    BY <1>1, <1>6 DEF SearchInv, HistoryOK
  <2>4. ASSUME NEW c \in ActiveRows, NEW e \in ActiveRows, c[1] = e[1] PROVE c[2] = e[2]
    <3>1. <<c[1], c[2]>> \in Served /\ <<e[1], e[2]>> \in Served
      BY <1>6 DEF VersionOf
    <3>2. c[2] = doc[c[1]].ver /\ e[2] = doc[e[1]].ver
      BY <3>1 DEF Served
    <3> QED BY <3>2, <2>4
  <2>5. q.docs \subseteq Docs /\ idOf' = idOf /\ seen' = seen
    BY <1>1 DEF SearchInv, ReadsOK, corpus
  <2>6. RowsOK'
    BY <1>3, <1>6, <2>1, <2>5 DEF RowsOK
  <2>7. q'.pc \in {"done", "ranking"} /\ (q'.pc = "done" => q'.rows = {})
    BY <1>3
  <2>8. \A c \in q'.rows : c[1] \in q'.docs /\ VersionOf(c) \in seen'
    BY <1>3, <1>6, <2>3, <2>5
  <2>9. \A c, e \in q'.rows : c[1] = e[1] => c[2] = e[2]
    BY <1>3, <2>4
  <2>10. RequestOK' /\ q'.docs \subseteq Docs
    BY <1>2, <1>3, <2>2, <2>5
  <2> QED BY <1>1, <1>2, <1>3, <2>6, <2>7, <2>8, <2>9, <2>10 DEF ReadsOK, SearchInv
<1>8. ASSUME calm, NEW c \in AllChunks, c[1] \in q.docs, VersionOf(c) \in start
      PROVE  c \in ActiveRows
  <2>1. VersionOf(c) \in Served
    BY <1>1, <1>8 DEF SearchInv, HistoryOK
  <2>2. c \in DOMAIN idOf
    BY <2>1, ServedStored, ChunksAreOfVersions DEF SearchInv
  <2> QED BY <1>8, <2>1, <2>2 DEF ActiveRows
<1>9. HistoryOK'
  BY <1>1, <1>3, <1>8 DEF SearchInv, HistoryOK
<1>10. ResultsOK'
  <2>1. ToSet(<<>>) = {}
    BY DEF ToSet
  <2>2. q'.pc = "done" /\ calm' => Answerable' = {}
    <3>1. SUFFICES ASSUME q'.pc = "done", calm, NEW d \in Answerable' PROVE FALSE
      BY <1>1
    <3>2. d \in q.docs /\ \E c \in q.snapshot.chunks : c[1] = d /\ VersionOf(c) \in start
      BY <1>1, <1>3, <3>1 DEF Answerable
    <3>3. PICK c \in q.snapshot.chunks : c[1] \in q.docs /\ VersionOf(c) \in start
      BY <3>2
    <3>4. c \in AllChunks
      BY <1>1 DEF SearchInv, ReadsOK
    <3> QED BY <1>3, <1>8, <3>1, <3>3, <3>4
  <2>3. ScopedPapersKept'
    BY <2>2 DEF ScopedPapersKept
  <2>4. NoPlaceWasted'
    <3>1. Len(q'.results) = 0 /\ q'.request.topK \in Nat
      BY <1>2, <1>3, SearchAssumption
    <3> QED BY <1>3, <3>1 DEF NoPlaceWasted
  <2> QED BY <1>3, <2>1, <2>3, <2>4 DEF ResultsOK
<1> QED BY <1>4, <1>5, <1>7, <1>9, <1>10 DEF SearchInv

\* What the requests of two states have in common decides their selection.
LEMMA SameSelection ==
  ASSUME q'.request = q.request, q'.docs = q.docs
  PROVE  /\ Balanced' = Balanced
         /\ \A kept, c : Repeats(kept, c)' <=> Repeats(kept, c)
<1>1. Balanced' = Balanced
  BY DEF Balanced
<1>2. \A c : HashKey(c)' = HashKey(c)
  BY <1>1 DEF HashKey
<1>3. \A kept, c : CellsCovered(kept, c)' <=> CellsCovered(kept, c)
  BY DEF CellsCovered
<1> QED BY <1>1, <1>2, <1>3 DEF Repeats

\* The candidates that are ranked: rows read, one of every paper in scope that is found.
LEMMA RankedCandidates ==
  ASSUME SearchInv, q.pc = "ranking",
         NEW dense \in DenseRankings, NEW sparse \in SparseRankings,
         NEW r \in Reranked(RrfFuse(EnsureDocumentCandidates(dense, DenseTopK),
                                    EnsureDocumentCandidates(sparse, SparseTopK)))
  PROVE  /\ r.ranked \in Seq(q.rows)
         /\ \A c \in q.rows \cap q.snapshot.chunks :
              /\ ToSet(r.ranked) # {}
              /\ c[1] \in Balanced => \E e \in ToSet(r.ranked) : e[1] = c[1]
<1> DEFINE found == q.rows \cap q.snapshot.chunks
           d == EnsureDocumentCandidates(dense, DenseTopK)
           s == EnsureDocumentCandidates(sparse, SparseTopK)
           fused == RrfFuse(d, s)
<1>1. RowsNumbered /\ RowsOK /\ RequestOK
  BY DEF SearchInv, CorpusInv, ReadsOK
<1>2. IsFiniteSet(q.rows) /\ found \in SUBSET q.rows /\ IsFiniteSet(found)
  <2>1. IsFiniteSet(q.rows) /\ found \in SUBSET q.rows
    BY <1>1 DEF RowsOK
  <2> QED BY <2>1, FS_Subset
<1>3. dense \in Seq(q.rows) /\ ToSet(dense) = found
  <2>1. dense \in SetToSeqs(found)
    BY DEF DenseRankings
  <2> HIDE DEF found
  <2>2. dense \in Seq(found) /\ ToSet(dense) = found
    BY <2>1, <1>2, RankingsList
  <2> QED BY <2>2, <1>2
<1>4. sparse \in Seq(q.rows)
  <2> DEFINE n == IF Balanced # {} THEN Cardinality(q.rows) ELSE SparseTopK
  <2>1. PICK t \in SetToSeqs(Matching) : sparse = Take(t, n)
    BY DEF SparseRankings
  <2>2. Matching \in SUBSET q.rows /\ IsFiniteSet(Matching)
    <3>1. Matching \in SUBSET q.rows
      BY DEF Matching
    <3> QED BY <3>1, <1>2, FS_Subset
  <2>3. t \in Seq(q.rows)
    <3>1. t \in Seq(Matching)
      BY <2>1, <2>2, RankingsList
    <3> QED BY <3>1, <2>2
  <2>4. n \in Nat
    BY <1>2, FS_CardinalityType, SearchAssumption
  <2> HIDE DEF n
  <2> QED BY <2>1, <2>3, <2>4, TakeFirst
<1>5. DenseTopK \in Nat \ {0} /\ SparseTopK \in Nat \ {0}
  BY SearchAssumption
<1>6. /\ d \in Seq(q.rows) /\ ToSet(d) \subseteq found
      /\ dense # <<>> => ToSet(d) # {}
      /\ \A c \in found : c[1] \in Balanced => \E e \in ToSet(d) : e[1] = c[1]
  <2> HIDE DEF found
  <2>1. dense \in Seq(q.rows)
    BY <1>3
  <2>2. /\ d \in Seq(q.rows) /\ ToSet(d) \subseteq ToSet(dense)
        /\ dense # <<>> => ToSet(d) # {}
    BY <2>1, <1>5, CandidatesKept
  <2>3. \A c \in ToSet(dense) : c[1] \in Balanced => \E e \in ToSet(d) : e[1] = c[1]
    BY <2>1, <1>5, CandidatesKept
  <2> QED BY <2>2, <2>3, <1>3
<1>7. s \in Seq(q.rows)
  BY <1>4, <1>5, CandidatesKept
<1> HIDE DEF d, s
<1>8. /\ fused \in Seq(q.rows)
      /\ Balanced # {} => ToSet(fused) = ToSet(d) \cup ToSet(s)
      /\ ToSet(d) \cup ToSet(s) # {} => ToSet(fused) # {}
  BY <1>1, <1>6, <1>7, FusedList
<1>9. r \in Reranked(fused)
  BY DEF d, s
<1> HIDE DEF fused
<1>10. r.ranked \in Seq(q.rows) /\ ToSet(r.ranked) = ToSet(fused)
  <2>1. CASE \E t \in SetToSeqs(ToSet(fused)) : r = [ranked |-> t, degraded |-> {}]
    <3>1. IsFiniteSet(ToSet(fused)) /\ ToSet(fused) \subseteq q.rows
      BY <1>8, ToSetFinite
    <3>2. PICK t \in SetToSeqs(ToSet(fused)) : r.ranked = t
      BY <2>1
    <3>3. t \in Seq(ToSet(fused)) /\ ToSet(t) = ToSet(fused)
      BY <3>1, <3>2, RankingsList
    <3>4. t \in Seq(q.rows)
      BY <3>1, <3>3
    <3> QED BY <3>2, <3>3, <3>4
  <2>2. CASE r = [ranked |-> fused, degraded |-> {"RERANK_UNAVAILABLE"}]
    BY <2>2, <1>8
  <2> QED BY <1>9, <2>1, <2>2 DEF Reranked
<1>11. ASSUME NEW c \in found PROVE ToSet(d) # {}
  <2>1. dense # <<>>
    BY <1>3, <1>11 DEF ToSet
  <2> QED BY <2>1, <1>6
<1> QED BY <1>6, <1>8, <1>10, <1>11

\* The results are the selected candidates with their contexts; no paper with a candidate is
\* left out, and no candidate without a reason.
LEMMA RankInv ==
  ASSUME SearchInv, Rank
  PROVE  SearchInv'
<1>1. PICK dense \in DenseRankings, sparse \in SparseRankings :
        \E r \in Reranked(RrfFuse(EnsureDocumentCandidates(dense, DenseTopK),
                                  EnsureDocumentCandidates(sparse, SparseTopK))) :
          q' = [q EXCEPT !.pc = "done", !.degraded = r.degraded, !.pool = ToSet(r.ranked),
                         !.results = LET hits == SelectEvidence(r.ranked)
                                     IN  [i \in DOMAIN hits |->
                                            [chunk |-> hits[i],
                                             context |-> ExpandTableContext(hits[i])]]]
  BY DEF Rank
<1>2. PICK r \in Reranked(RrfFuse(EnsureDocumentCandidates(dense, DenseTopK),
                                  EnsureDocumentCandidates(sparse, SparseTopK))) :
          q' = [q EXCEPT !.pc = "done", !.degraded = r.degraded, !.pool = ToSet(r.ranked),
                         !.results = LET hits == SelectEvidence(r.ranked)
                                     IN  [i \in DOMAIN hits |->
                                            [chunk |-> hits[i],
                                             context |-> ExpandTableContext(hits[i])]]]
  BY <1>1
<1>3. UNCHANGED <<corpus, start, seen, calm>> /\ q.pc = "ranking"
  BY DEF Rank
<1> DEFINE ranked == r.ranked
           hits == SelectEvidence(ranked)
           results == [i \in DOMAIN hits |->
                         [chunk |-> hits[i], context |-> ExpandTableContext(hits[i])]]
<1>4. /\ q'.pc = "done" /\ q'.request = q.request /\ q'.snapshot = q.snapshot
      /\ q'.docs = q.docs /\ q'.rows = q.rows /\ q'.results = results
      /\ q'.pool = ToSet(ranked)
      /\ q' = [pc |-> q'.pc, request |-> q'.request, snapshot |-> q'.snapshot,
               docs |-> q'.docs, rows |-> q'.rows, results |-> q'.results,
               pool |-> q'.pool, degraded |-> q'.degraded]
  BY <1>2 DEF SearchInv, SearchOK
<1>5. /\ ranked \in Seq(q.rows)
      /\ \A c \in q.rows \cap q.snapshot.chunks :
           /\ ToSet(ranked) # {}
           /\ c[1] \in Balanced => \E e \in ToSet(ranked) : e[1] = c[1]
  BY <1>3, RankedCandidates
<1> HIDE DEF ranked
<1>6. RequestOK /\ q.request \in Requests /\ q.rows \subseteq AllChunks
  BY <1>3 DEF SearchInv, ReadsOK, RequestOK, RowsOK, CorpusInv, RowsNumbered
<1>7. /\ hits \in Seq(q.rows) /\ ToSet(hits) \subseteq ToSet(ranked)
      /\ Len(hits) <= q.request.topK
      /\ Len(hits) < q.request.topK =>
           \A c \in ToSet(ranked) : c \in ToSet(hits) \/ Repeats(ToSet(hits), c)
      /\ \A c \in ToSet(ranked) : c[1] \in Balanced => \E e \in ToSet(hits) : e[1] = c[1]
      /\ ToSet(ranked) # {} => ToSet(hits) # {}
  BY <1>5, <1>6, SelectedList
<1> HIDE DEF hits
<1>8. Shown' = ToSet(hits) /\ Len(q'.results) = Len(hits)
  <2>1. DOMAIN results = DOMAIN hits /\ \A i \in DOMAIN hits : results[i].chunk = hits[i]
    OBVIOUS
  <2>2. ToSet(results) = {results[i] : i \in DOMAIN hits}
    BY <2>1 DEF ToSet
  <2>3. Len(results) = Len(hits)
    BY <1>7
  <2> HIDE DEF results
  <2>4. {e.chunk : e \in ToSet(results)} = {hits[i] : i \in DOMAIN hits}
    BY <2>1, <2>2
  <2> QED BY <1>4, <2>3, <2>4 DEF Shown, ToSet
<1>9. \A e \in ToSet(results) : /\ e.chunk \in q.rows
                                /\ e.context \in Seq(Chunks(VersionOf(e.chunk)))
  <2>1. ASSUME NEW i \in DOMAIN hits
        PROVE  /\ results[i].chunk \in q.rows
               /\ results[i].context \in Seq(Chunks(VersionOf(results[i].chunk)))
    <3>1. hits[i] \in q.rows /\ hits[i] \in AllChunks
      BY <1>6, <1>7
    <3>2. ExpandTableContext(hits[i]) \in Seq(Chunks(VersionOf(hits[i])))
      BY <1>6, <3>1, ContextOfVersion
    <3> QED BY <3>1, <3>2
  <2>2. ToSet(results) = {results[i] : i \in DOMAIN hits}
    BY DEF ToSet
  <2> HIDE DEF results
  <2> QED BY <2>1, <2>2
<1> HIDE DEF results
<1>10. CorpusInv'
  BY <1>3, CorpusInductive DEF SearchInv
<1>11. SearchOK'
  BY <1>4, <1>6 DEF SearchOK
<1>12. ReadsOK'
  <2>1. RequestOK' /\ (RowsOK' <=> RowsOK)
    BY <1>3, <1>4, <1>6 DEF RequestOK, RowsOK, corpus
  <2> QED BY <1>3, <1>4, <2>1 DEF SearchInv, ReadsOK
<1>13. HistoryOK'
  BY <1>3, <1>4 DEF SearchInv, HistoryOK
<1>14. Balanced' = Balanced /\ \A kept, c : Repeats(kept, c)' <=> Repeats(kept, c)
  BY <1>4, SameSelection
<1>15. ScopedPapersKept'
  <2>1. SUFFICES ASSUME calm
                 PROVE  /\ (Balanced \cap Answerable)' \subseteq DocsShown'
                        /\ Answerable' # {} => Shown' # {}
    BY <1>3 DEF ScopedPapersKept
  <2>2. ASSUME NEW d \in Answerable'
        PROVE  d \in q.docs /\ \E c \in q.rows \cap q.snapshot.chunks : c[1] = d
    <3>1. PICK c \in q.snapshot.chunks : d \in q.docs /\ c[1] = d /\ VersionOf(c) \in start
      BY <1>3, <1>4, <2>2 DEF Answerable
    <3>2. c \in AllChunks
      BY <1>3 DEF SearchInv, ReadsOK
    <3>3. c \in q.rows
      BY <1>3, <2>1, <3>1, <3>2 DEF SearchInv, HistoryOK
    <3> QED BY <3>1, <3>3
  <2>3. ASSUME NEW d \in Answerable' PROVE Shown' # {}
    BY <2>2, <2>3, <1>5, <1>7, <1>8
  <2>4. ASSUME NEW d \in (Balanced \cap Answerable)' PROVE d \in DocsShown'
    <3>1. d \in Balanced /\ d \in Answerable'
      BY <1>14, <2>4
    <3>2. PICK c \in q.rows \cap q.snapshot.chunks : c[1] = d
      BY <2>2, <3>1
    <3>3. PICK e \in ToSet(ranked) : e[1] = d
      BY <1>5, <3>1, <3>2
    <3>4. \E f \in ToSet(hits) : f[1] = d
      BY <1>7, <3>1, <3>3
    <3> QED BY <3>4, <1>8 DEF DocsShown
  <2> QED BY <2>3, <2>4
<1>16. NoPlaceWasted'
  <2>1. \A c \in ToSet(ranked) : Repeats(ToSet(hits), c) => Repeats(Shown, c)'
    BY <1>8, <1>14
  <2> QED BY <1>4, <1>7, <1>8, <2>1 DEF NoPlaceWasted
<1>17. ResultsOK'
  BY <1>4, <1>9, <1>15, <1>16 DEF ResultsOK
<1> QED BY <1>10, <1>11, <1>12, <1>13, <1>17 DEF SearchInv

LEMMA RespondInv ==
  ASSUME SearchInv, Respond
  PROVE  SearchInv'
<1>1. UNCHANGED corpus /\ q' = Idle /\ start' = {} /\ seen' = {} /\ calm' = TRUE
  BY DEF Respond
<1>2. CorpusInv'
  BY <1>1, CorpusInductive DEF SearchInv
<1>3. SearchOK'
  BY <1>1 DEF SearchOK, Idle
<1>4. ReadsOK'
  BY <1>1, FS_EmptySet DEF ReadsOK, RowsOK, Idle
<1>5. HistoryOK'
  BY <1>1 DEF HistoryOK, Idle
<1>6. ResultsOK'
  BY <1>1 DEF ResultsOK, Idle, ToSet, ScopedPapersKept, NoPlaceWasted
<1> QED BY <1>2, <1>3, <1>4, <1>5, <1>6 DEF SearchInv

LEMMA StutterInv ==
  ASSUME SearchInv, UNCHANGED vars
  PROVE  SearchInv'
<1>1. UNCHANGED <<corpus, q, start, seen, calm>>
  BY DEF vars
<1>2. CorpusInv'
  BY <1>1, CorpusInductive DEF SearchInv
<1>3. SearchOK' /\ ReadsOK'
  BY <1>1 DEF SearchInv, SearchOK, ReadsOK, RequestOK, RowsOK, corpus
<1>4. HistoryOK'
  BY <1>1 DEF SearchInv, HistoryOK, Served, corpus
<1>5. Balanced' = Balanced /\ \A kept, c : Repeats(kept, c)' <=> Repeats(kept, c)
  BY <1>1, SameSelection
<1>6. ScopedPapersKept'
  BY <1>1, <1>5 DEF SearchInv, ResultsOK, ScopedPapersKept, Answerable, DocsShown, Shown
<1>7. NoPlaceWasted'
  <2>1. Shown' = Shown
    BY <1>1 DEF Shown
  <2>2. \A c \in q.pool : Repeats(Shown, c) => Repeats(Shown, c)'
    BY <2>1, <1>5
  <2> QED BY <1>1, <2>1, <2>2 DEF SearchInv, ResultsOK, NoPlaceWasted
<1>8. ResultsOK'
  BY <1>1, <1>6, <1>7 DEF SearchInv, ResultsOK
<1> QED BY <1>2, <1>3, <1>4, <1>8 DEF SearchInv

-----------------------------------------------------------------------------
(* Theorems *)

\* Every reachable state has the invariant: jobs commit, the search reads and ranks, and
\* neither disturbs what the other relies on.
THEOREM SearchInductive == Spec => []SearchInv
<1>1. ASSUME SearchInv, [Next]_vars PROVE SearchInv'
  <2>1. CASE Commit
    BY <1>1, <2>1, CommitSearch
  <2>2. CASE \E r \in Requests : Begin(r)
    BY <1>1, <2>2, BeginInv
  <2>3. CASE ResolveScope
    BY <1>1, <2>3, ResolveScopeInv
  <2>4. CASE ReadChunks
    BY <1>1, <2>4, ReadChunksInv
  <2>5. CASE Rank
    BY <1>1, <2>5, RankInv
  <2>6. CASE Respond
    BY <1>1, <2>6, RespondInv
  <2>7. CASE UNCHANGED vars
    BY <1>1, <2>7, StutterInv
  <2> QED BY <1>1, <2>1, <2>2, <2>3, <2>4, <2>5, <2>6, <2>7 DEF Next
<1> QED BY <1>1, InitInv, PTL DEF Spec

\* What a search has read and found, and what jobs have committed, is of its type.
THEOREM SearchTypeCorrect == Spec => []TypeOK
<1>1. SearchInv => TypeOK
  <2>1. SUFFICES ASSUME SearchInv PROVE TypeOK
    OBVIOUS
  <2>2. CorpusTypeOK
    BY <2>1, CorpusInvTypes DEF SearchInv
  <2>3. ASSUME NEW r \in ToSet(q.results) PROVE r.chunk \in q.rows /\ r.context \in Seq(AllChunks)
    <3>1. r.chunk \in q.rows /\ r.context \in Seq(Chunks(VersionOf(r.chunk)))
      BY <2>1 DEF SearchInv, ResultsOK
    <3>2. r.chunk \in AllChunks
      BY <2>1, <3>1 DEF SearchInv, ReadsOK, RowsOK, CorpusInv, RowsNumbered
    <3>3. Chunks(VersionOf(r.chunk)) \subseteq AllChunks
      BY <3>2, ChunksAreOfVersions DEF AllChunks
    <3> QED BY <3>1, <3>3
  <2> QED BY <2>1, <2>2, <2>3 DEF SearchInv, SearchOK, ReadsOK, RowsOK, HistoryOK, TypeOK
<1> QED BY <1>1, SearchInductive, PTL

\* Whatever jobs commit while a search runs, the hits and the contexts of tables it shows are
\* of versions that were in service meanwhile, and never of two versions of a document.
THEOREM ShownWasServed == Spec => []OnlyServedText
<1>1. SearchInv => OnlyServedText
  <2>1. SUFFICES ASSUME SearchInv PROVE OnlyServedText
    OBVIOUS
  <2> DEFINE shown == UNION {ToSet(r.context) : r \in ToSet(q.results)}
  <2>2. ASSUME NEW c \in shown
        PROVE  \E e \in q.rows : VersionOf(c) = VersionOf(e)
    <3>1. PICK r \in ToSet(q.results) : c \in ToSet(r.context)
      OBVIOUS
    <3>2. r.chunk \in q.rows /\ r.context \in Seq(Chunks(VersionOf(r.chunk)))
      BY <2>1 DEF SearchInv, ResultsOK
    <3>3. r.chunk \in AllChunks
      BY <2>1, <3>2 DEF SearchInv, ReadsOK, RowsOK, CorpusInv, RowsNumbered
    <3>4. c \in Chunks(VersionOf(r.chunk))
      BY <3>1, <3>2 DEF ToSet
    <3>5. VersionOf(r.chunk) \in Versions
      BY <3>3, ChunksAreOfVersions
    <3>6. VersionOf(c) = VersionOf(r.chunk)
      BY <3>4, <3>5, ChunksOfVersion
    <3> QED BY <3>2, <3>6
  <2>3. \A c, e \in q.rows : c[1] = e[1] => c[2] = e[2]
    BY <2>1 DEF SearchInv, ReadsOK
  <2>4. \A c \in q.rows : VersionOf(c) \in seen
    BY <2>1 DEF SearchInv, ReadsOK
  <2> HIDE DEF shown
  <2>5. ASSUME NEW c \in shown, NEW e \in shown, c[1] = e[1] PROVE c[2] = e[2]
    <3>1. PICK x \in q.rows : VersionOf(c) = VersionOf(x)
      BY <2>2
    <3>2. PICK y \in q.rows : VersionOf(e) = VersionOf(y)
      BY <2>2
    <3>3. c[1] = x[1] /\ c[2] = x[2] /\ e[1] = y[1] /\ e[2] = y[2]
      BY <3>1, <3>2 DEF VersionOf
    <3> QED BY <2>3, <2>5, <3>3
  <2>6. \A c \in shown : VersionOf(c) \in seen
    BY <2>2, <2>4
  <2> QED BY <2>5, <2>6 DEF OnlyServedText, shown
<1> QED BY <1>1, SearchInductive, PTL

\* If no job commits between its reads, a search shows every paper of an explicit scope that
\* fits in top_k and has an indexed chunk, whatever the vectors, the words and the reranker
\* make of it; a wider scope is never answered with nothing.
THEOREM PapersKeepPlaces == Spec => []ScopedPapersKept
<1>1. SearchInv => ScopedPapersKept
  BY DEF SearchInv, ResultsOK
<1> QED BY <1>1, SearchInductive, PTL

\* There are top_k results at most; a shorter list leaves out only what repeats it.
THEOREM PlacesCostNothing == Spec => []NoPlaceWasted
<1>1. SearchInv => NoPlaceWasted
  BY DEF SearchInv, ResultsOK
<1> QED BY <1>1, SearchInductive, PTL
=============================================================================
