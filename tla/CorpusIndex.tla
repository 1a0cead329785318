----------------------------- MODULE CorpusIndex -----------------------------
(***************************************************************************)
(* What an indexing job commits for searches to read: the chunk rows of a  *)
(* new version with their FAISS ids, the snapshot of the compatible corpus *)
(* and the pointers to both.  Ingestion models the job itself, its stages, *)
(* crashes and files; here a job is its reads (Build) and its commit.      *)
(***************************************************************************)
EXTENDS Integers, FiniteSets, Sequences, SequencesExt, FiniteSetsExt, Functions

CONSTANTS
  Docs,     \* document ids: numbers, since rows are ordered by them
  Layout,   \* document -> for each of its parses the chunks it is cut into
  Models,   \* embedding models (their signatures), in the order they are configured
  None

IsSequence(s) == s \in Seq(ToSet(s))

\* A chunk of a parse has a text (its digest) and words; it is indexed unless it is a table
\* parent or unindexed code; a part of a table has its parent's position, else 0; a row or a
\* group of rows has cells.
ASSUME LayoutAssumption ==
  /\ Docs \subseteq Nat
  /\ IsSequence(Models) /\ Models # <<>> /\ None \notin ToSet(Models)
  /\ DOMAIN Layout = Docs
  /\ \A d \in Docs :
       /\ IsSequence(Layout[d])
       /\ \A v \in DOMAIN Layout[d] :
            /\ IsSequence(Layout[d][v])
            /\ \A i \in DOMAIN Layout[d][v] :
                 /\ Layout[d][v][i].terms \subseteq Nat /\ IsFiniteSet(Layout[d][v][i].terms)
                 /\ Layout[d][v][i].indexed \in BOOLEAN
                 /\ Layout[d][v][i].parent \in 0..(i - 1)

VARIABLES
  doc,       \* document -> its status and active version (0 for none)
  tries,     \* document -> how many versions were begun
  embedded,  \* <<document, version>> -> the model of its vectors
  idOf,      \* chunk rows -> their FAISS ids
  snapshot,  \* the active snapshot: the chunks it indexes and their model
  build,     \* the job at work; the worker runs one at a time
  model      \* the configured embedding model

corpus == <<doc, tries, embedded, idOf, snapshot, build, model>>

Versions == UNION {{<<d, v>> : v \in DOMAIN Layout[d]} : d \in Docs}
Chunks(version) == {<<version[1], version[2], i>> : i \in DOMAIN Layout[version[1]][version[2]]}
AllChunks == UNION {Chunks(x) : x \in Versions}
VersionOf(c) == <<c[1], c[2]>>
PieceOf(c) == Layout[c[1]][c[2]][c[3]]
Indexable(version) == {c \in Chunks(version) : PieceOf(c).indexed}

Statuses == {"absent", "queued", "ready", "failed", "deleting"}

CorpusTypeOK ==
  /\ doc \in [Docs -> [st : Statuses, ver : Nat]]
  /\ tries \in [Docs -> Nat]
  /\ DOMAIN embedded \subseteq Versions /\ Range(embedded) \subseteq ToSet(Models)
  /\ DOMAIN idOf \subseteq AllChunks /\ IsInjective(idOf)
  /\ snapshot # None => snapshot.chunks \subseteq AllChunks /\ snapshot.model \in ToSet(Models)
  /\ model \in ToSet(Models)

CorpusInit ==
  /\ doc = [d \in Docs |-> [st |-> "absent", ver |-> 0]]
  /\ tries = [d \in Docs |-> 0]
  /\ embedded = <<>> /\ idOf = <<>>
  /\ snapshot = None /\ build = None
  /\ model = Head(Models)

\* The versions a search may return.
Served == {<<d, doc[d].ver>> : d \in {x \in Docs : doc[x].st = "ready" /\ doc[x].ver # 0}}

-----------------------------------------------------------------------------
(* FAISS ids *)

\* Mutant: the ids of a version begin anew.
IdsPerVersion(version) == [c \in Chunks(version) |-> c[3]]

\* Every chunk row takes the next number of faiss_id_seq, indexed or not; gaps do not matter.
IdsFor(version) == [c \in Chunks(version) |-> Cardinality(DOMAIN idOf) + c[3]]

-----------------------------------------------------------------------------
(* Jobs *)

\* An upload, or a reindex: the document leaves the searches until its job ends.
Request(d) ==
  /\ doc[d].st \in {"absent", "ready", "failed"} /\ tries[d] < Len(Layout[d])
  /\ doc' = [doc EXCEPT ![d].st = "queued"]
  /\ UNCHANGED <<tries, embedded, idOf, snapshot, build, model>>

SameModel(version) == embedded[version] = model

\* build_corpus_snapshot: the compatible versions in service, and the pending one; a
\* version without chunks gets no snapshot.
Build(d) ==
  LET v == <<d, tries[d] + 1>>
      others == {x \in Served : x[1] # d /\ SameModel(x)}
  IN  /\ build = None /\ doc[d].st = "queued" /\ tries[d] < Len(Layout[d])
      /\ tries' = [tries EXCEPT ![d] = @ + 1]
      /\ build' = [version |-> v, model |-> model,
                   chunks |-> IF Chunks(v) = {} THEN {}
                              ELSE UNION {Indexable(x) : x \in others \cup {v}}]
      /\ UNCHANGED <<doc, embedded, idOf, snapshot, model>>

EmptyCorpus == Chunks(build.version) # {} /\ build.chunks = {}

Store ==
  /\ embedded' = [x \in DOMAIN embedded \cup {build.version} |->
                    IF x \in DOMAIN embedded THEN embedded[x] ELSE build.model]
  /\ idOf' = [c \in DOMAIN idOf \cup Chunks(build.version) |->
                IF c \in DOMAIN idOf THEN idOf[c] ELSE IdsFor(build.version)[c]]
  /\ build' = None

Activate ==
  /\ build # None /\ ~EmptyCorpus
  /\ Store
  /\ doc' = [doc EXCEPT ![build.version[1]] = [st |-> "ready", ver |-> build.version[2]]]
  /\ snapshot' = IF Chunks(build.version) = {} THEN snapshot
                 ELSE [chunks |-> build.chunks, model |-> build.model]
  /\ UNCHANGED <<tries, model>>

\* A failure after the chunk rows were written keeps them, with their version marked failed.
Reject ==
  /\ build # None
  /\ Store
  /\ doc' = [doc EXCEPT ![build.version[1]].st =
              IF doc[build.version[1]].ver # 0 THEN "ready" ELSE "failed"]
  /\ UNCHANGED <<tries, snapshot, model>>

\* The job at work holds its document's row; a request for it waits.
RequestDelete(d) ==
  /\ build # None => build.version[1] # d
  /\ doc[d].st \in Statuses \ {"absent", "deleting"}
  /\ doc' = [doc EXCEPT ![d].st = "deleting"]
  /\ UNCHANGED <<tries, embedded, idOf, snapshot, build, model>>

\* Another model is configured and the processes restart; open jobs are lost.
ChangeModel ==
  /\ \E i \in 2..Len(Models) : model = Models[i - 1] /\ model' = Models[i]
  /\ build' = None
  /\ UNCHANGED <<doc, tries, embedded, idOf, snapshot>>

CorpusNext ==
  \/ \E d \in Docs : Request(d) \/ Build(d) \/ RequestDelete(d)
  \/ Activate \/ Reject \/ ChangeModel
=============================================================================
