# paper_agent in TLA+

This directory is a verification development of *paper_agent*, a service that ingests
papers, indexes them and answers questions about them with citations: TLA+ modules
translated from `src/app`, TLC runs on small instances, and TLAPS proofs for all
instances. Paths below are relative to `src/`.

## 1. The system

| Component | State it keeps | Operations |
| --- | --- | --- |
| Documents, jobs and dispatch (`app/services/document.py`, `app/main.py`, `app/db/session.py`) | rows of `documents` and `ingestion_jobs`; files in `storage/uploads` | upload, reindex, delete, retry; commit at the session dependency; enqueue in the http middleware |
| Worker (`app/workers`) | the arq queue in Redis | start, take a message, retry, time out, crash |
| Ingestion pipeline (`app/services/ingestion.py`) | `document_versions`, `active_document_version_id` | `run_ingest` with its failure handlers, `run_delete_cleanup` |
| IR artifacts (`app/services/ir_artifacts.py`) | directories `storage/ir/{building,versions,...}` | stage, activate, fail, remove, quarantine |
| Corpus snapshots (`app/index`) | `index_snapshots`, `system_state`, `storage/indexes/versions` | build, publish, activate, restore |
| Recovery (`app/services/consistency.py`) | none of its own | reconciliation and quarantine at worker start |
| Collections (`app/services/collection.py`) | `collections`, `collection_documents` | create, rename, add and remove documents |
| Chat (`app/api/chat.py`, `app/api/sessions.py`, `app/llm`) | `sessions`, `messages`; the event stream | a turn: rewrite, search, stream, store; delete a session |
| Evidence workflow (`app/services/evidence_workflow.py`) | none | plan, bounded retrieval rounds, merge |
| Retrieval (`app/services/retrieval.py`, `app/retrieval`, `app/context`) | caches of the loaded indexes | scope, recall, fusion, rerank, quotas, context |
| Chunking, document IR, loaders | none (pure functions) | parse, validate, pack into chunks |
| Web client (`frontend/src`) | the open chat | reduce the event stream |

**How they interact.** A request writes the rows of a document and of a job in one
transaction; the middleware then sends an arq message that names the job. A worker loads
the job, runs it in *one* database transaction and commits; arq deletes the message after
the task has returned. The API and the worker share the database and `storage/`, nothing
else. Search reads the document rows, the active snapshot and the chunks; chat calls search
(through the evidence workflow) and the language model, and writes the messages of the
session.

**What is hard.** The document row is read before the advisory lock and is not refreshed
(`workers/tasks.py:45`). The lock is per document but the pointer to the active snapshot is
global. Files are moved before the transaction commits. A run that fails must restore what
it switched, from values it read earlier. Messages are duplicated, redelivered after a
crash, lost when Redis is down, and may be overtaken by the worker. The API never takes the
lock, and `run_ingest` never looks at the document's status. The full list, with the line
where each one bites, is under `hazards` in `PROJECT.json`.

**What makes each part correct.** Documents: what is served is a good version, failures
change nothing that is served, deletes are final, every job ends. Snapshots: one is active,
it can be loaded, it names only committed versions. Artifacts: a served version keeps its
files. Chat: a finished answer is stored, complete, after its question, and cites only
sources that were shown. Evidence workflow: rounds are bounded and never lose what the first
search found. Retrieval: one search answers from one snapshot. Chunking and IR: nothing of
the text is lost, limits are kept, what validates can be chunked.

## 2. Plan

Done, in this order:

1. **`Ingestion`**: API, queue, workers, pipeline, snapshots and artifacts in one
   module, since the properties relate their states; **`VersionRegister`**, what a reader
   of a document is promised; proofs in **`IngestionProofs`** (section 3).
2. **`ChatTurn`**: a turn from request to stored messages; **`ChatLog`**, the log of
   questions and answers that a session promises; **`ChatTurnProofs`** (section 4).
3. **`EvidenceMerge`** (pure operators) and **`EvidenceWorkflow`** (the rounds and their
   failures against a changing corpus and collection); **`DataInduction`** and
   **`EvidenceProofs`** (section 5).
4. **`AnswerGate`**: the text of an answer, the refusal gate over any split into deltas, and how
   citation markers are found and removed; **`AnswerGateProofs`** (section 6).
5. **`CorpusIndex`**: chunks, their ids and the snapshot that indexes them; **`Search`** on top of
   it: one search against concurrent jobs, with candidates, fusion, selection and table
   context; **`SearchProofs`** (section 7).
6. **`Sentences`** and **`Chunking`**: text formats from the file to its chunks;
   **`DocumentIR`**, the form every PDF parser produces, with **`PyMuPdf`**, **`Docling`**,
   **`MinerU`** (one adapter each) and **`IRChunks`**; **`PdfIngestion`** composes all of them;
   **`TextProofs`** and **`ChunkingProofs`** (section 8).

The proofs cover every safety property that the runs of sections 3 to 7 check, and in section 8
those of uploaded text files. To do:

7. Proofs about the chunks of papers.
8. The web client's reducer of the event stream against several open sessions.

## 3. Ingestion

### State and code

| Variable | In the code |
| --- | --- |
| `doc` | committed `documents` rows: `status`, `active_document_version_id` |
| `job` | committed `ingestion_jobs` rows: `status`, `document_id`, `kind` |
| `ver` | committed `document_versions` rows: `status`, `document_id`, embedded or not |
| `snap`, `pointer` | `index_snapshots` rows and `system_state.active_index_snapshot_id` |
| `uploads`, `ir`, `idx` | `storage/uploads`, `storage/ir/*`, `storage/indexes/versions` |
| `queue` | arq messages; `copy` tells two messages of one job apart, `tries` is arq's job_try |
| `req` | requests between their reads and their end |
| `wk` | per worker: where its run is, what it read of the document, what it has flushed |

`session_scope` wraps the whole task (`workers/tasks.py`), so RUNNING jobs, BUILDING versions
and the statuses `parsing` to `indexing` are never committed: they are only in `wk`. As a
consequence the reconciliation of RUNNING jobs and BUILDING rows at worker start has nothing
to find, and only the quarantine of orphan directories is left of `Startup`. SQLAlchemy
writes only the attributes whose value changed: `StatusWrite`, `ActiveAfterFailure` and
`RetiredActive` say what that leaves in a row another transaction has changed since.

`Upload`, `RequestReindex`, `RequestDelete` and `RetryJob` are the reads of a request;
`CommitRequest` its commit, `Dispatch` the middleware. FastAPI up to 0.117 commits before the
middleware continues, from 0.118 after it; `pyproject.toml` allows both and `uv.lock` pins
0.119.1, so the order is the constant `DispatchOrders`. `Take`, `Discard` and `ReadDocument`
lead to the lock; `Begin` to `CommitIngest` are `run_ingest`, `Fail` and `CommitFailure` its
handlers; `BeginDelete` to `CommitDeleteFailure` are `run_delete_cleanup`. `Abort` is
`job_timeout` or an exception outside the handlers (rollback, message dropped), `Crash` the
death of the process (rollback, message kept).

### Runs

| Run | Instance | What it shows |
| --- | --- | --- |
| `one_worker` | 2 documents (1 PDF), 3 jobs, 3 versions, 1 worker, both dispatch orders, one fault of any kind | one active snapshot; a document nobody deletes keeps its file, its IR and its version; a delete is final; a failed run changes nothing that is served; a succeeded job never runs again; a new snapshot covers every ready document |
| `two_workers` | the same with 2 workers, no faults | served versions are READY; the active snapshot is loadable; nothing is published after its file was removed; `VersionRegister` is implemented |
| `jobs_finish` | 1 PDF document, 2 jobs, a crash, duplicate messages | every committed job ends |

Two further runs are refuted; each states a sentence of the documentation or of a comment
that the code does not keep (`findings` in `PROJECT.json`): with the pinned FastAPI a message
can precede its row, and the job stays queued for ever (`dispatch_before_commit`); a document
whose reindex failed may be in no active snapshot (`failed_reindex_unsearchable`).

Two more disagreements can be seen in the model and have no run of their own. `docs/spec.md:621`
answers a conflicting reindex with 409, but two requests that overlap both pass the check at
`app/services/document.py:185` and both create a job. `docs/spec.md:284` draws no transition out
of `deleted`, but `run_ingest` never looks at the status (`app/services/ingestion.py:494`), so an
ingest that runs after the clean-up gives the document status `failed` again. What the runs do
show is that neither harms what is served (`ActiveVersionReady`, `DeleteIsFinal`).

**Bounds.** Two documents are needed for a snapshot that is built while another document is
busy, three jobs for ingest, ingest and a third that reindexes, deletes or retries; a run
draws one version. One fault is placed at every step of every behaviour; what it leaves
behind (rows, files, message) is the starting point of at least one further run. `one_worker`
and `two_workers` divide the questions the way the deployment does: `docs/architecture.md`
calls for one serial worker, and the properties under the heading "a deployment with one
worker process" need it. With two workers the pointer can leave two ACTIVE snapshot rows and a
starting worker quarantines a live build; that is why these properties are not checked there.

**Deadlock** is not checked: ids are drawn from finite sets, and the system rests when they
are used up.

**Fairness** (`jobs_finish` and `dispatch_before_commit`): a worker process that is up polls
Redis and goes on with its task (the arq loop), an open request commits, and its
middleware runs. The weak fairness is on `WorkerStep(w)` as a whole: it does not favour the
success of a run over its failure. Crashes are bounded below `MaxTries`, and there is no
job_timeout and no failed enqueue: after either, the job stays queued for ever, since nothing
looks for queued jobs without a message.

### Proofs

All of them hold for any sets of documents, jobs, versions and requests and any bounds, from
`ConstantsAssumption` and `NoneAssumption` (`None` is no status; it is the value of a row that is
not there).

**`IngestionProofs`**, for any number of workers: `TypeCorrect` (`[]TypeOK`),
`ServedVersionIsReady` (`[]ActiveVersionReady`), `ImplementsRegister` (`RefinesVersionRegister`).
`ActiveVersionReady` is not inductive: a run
writes the version it drew and the version it read as prior, so `IInv` adds what a run may
rely on. `WorkersOK`: the version of a run is uncommitted until its commit, and the prior
version was published for the same document. `RunsDistinct`: no two runs share a version.
`RequestsOK`, `InsertsDistinct` and `JobRowsOK`: a busy worker's job row exists and does not
change its document. One lemma per action shows that it keeps `IInv`; the refinement then
needs `IInv` and `IInv'` only at the steps that commit. The argument does not use the advisory
lock.

Its second part, also for any number of workers: `SnapshotIsLoadable`
(`[]ActiveSnapshotLoadable`) and `PublishesWithUpload` (`NoPublishAfterRemoval`, an action
property). These do need the lock. `SInv` adds to `IInv` that runs exclude each other by document
(`LocksExclude`), that a run past its parser has its upload (only a clean-up of the same document
removes it, and that would be a second run), and that every snapshot that is or was served is on
disk and names published versions only, but for the one that its run is about to publish.

The last part of `IngestionProofs`, under the hypothesis `OneWorker` (`docs/architecture.md` asks for
one serial worker): `PointedSnapshotIsActive` (`[]OneActiveSnapshot`), `DataIsDurable`
(`[]ServedDataDurable`), `DeletionIsFinal`, `FailuresKeepService`, `SuccessesAreFinal` and
`SnapshotsCoverReady` (action properties). The code reads the prior version, the old snapshot and
the other documents' versions early and writes them back on failure without looking again. `OInv`
says that what was read is still so: while the worker runs, only requests commit, and they write
statuses and jobs (`ReadsOK`, `BuildOK`); the files of a run are where its next step
expects them (`RunFilesOK`); a document that was cleaned up has no file and serves nothing
(`CleanedUp`). The hypothesis is needed: two workers break these properties in the model, see the
bounds above.

Only model-checked: the refuted properties, and liveness, which the prover does not reach.

### Not modelled in this part

The content of files and chunks, hashes and manifests' checks; an `os.replace` or `rmtree`
that fails inside an error handler (the code logs it and goes on); the `collection_documents`
rows a clean-up removes; a non-PostgreSQL database; the two reads of `retry_job` and of the
other requests are one step (the interval between reads and commit is kept).

## 4. Chat turns

`ChatTurn` models `POST /chat` and `POST /chat/stream` (`app/api/chat.py`) with the session
dependency (`app/db/session.py`) and `DELETE /sessions/{id}`.

| Variable | In the code |
| --- | --- |
| `live` | rows of `sessions` |
| `msgs` | committed rows of `messages`; `created` is `created_at`, `deltas` how much of the answer the row holds |
| `clock` | transactions started, which orders `created_at` (PostgreSQL's `now()`) |
| `turn` | per turn: where it is, its transaction, the rows it has added and not inserted (`pending`), what the client was shown and told, how the provider ended the answer (`last`) |

`Open`, `Prepared` and `PrepareFails` are `_prepare`; `Generate` to `Reply` are `chat`; `Delta`,
`StreamEnds`, `StreamFails`, `StreamBreaks`, `Store`, `Report` are the generator of `chat_stream`; `CommitQuestion`,
`CommitTurn`, `Leave` the exit code of the dependency. The sessionmaker has
`autoflush=False`, so that added rows stay in memory until a flush or a commit. As in `Ingestion`,
FastAPI up to 0.117 leaves the dependency before the response is sent (the question is
committed apart) and from 0.118 after it (question and answer share a transaction, and so
`created_at`, and a random id orders them): `ExitOrders`. A client that disconnects cancels
the generator at any await (`Disconnect`); `Crash` rolls back every open transaction.

A provider's stream ends in four ways (`ProviderEnds`): `stop`; `cut`, a body that ends without
`[DONE]`; `error`, an exception that `app/llm/openai_compatible.py:181` makes an `LLMError`; and
`raise`, any other one, such as the `AttributeError` of a chunk with `"usage": null` or
`"delta": null` (lines 166 to 178). Neither that line nor `app/api/chat.py:226` handles the last: the
connected client's stream breaks off with no terminal event, what is pending is rolled back, the
question too if it was not committed before (`StreamBreaks`). `docs/spec.md:673` wants exactly one of
`done` and `error` as the last event. `StreamEndsWithVerdict` says what the code keeps: a verdict
that agrees with how the provider ended, and without one no answer, after nothing but such an
exception.

| Run | Instance | What it shows |
| --- | --- | --- |
| `chat_turns` | 2 turns, 2 sessions, 1 delta, a history of 4 messages, both orders, provider ends by `stop`, `error` or `raise` | the verdict the client got (done, error) is what is stored; a complete answer is whole; a connected stream ends with the verdict its provider's end deserves, and breaks off only after `raise`; no answer precedes its question in the history when they were committed apart; sessions implement `ChatLog` |
| `chat_cut` | 1 turn, and the provider's body may end without `[DONE]` | refuted: the part that arrived is stored as complete and reported as done |

Two turns are needed for turns of one session that overlap, two sessions for the deletion of
one while the other's turn runs; longer answers repeat `Delta`. A turn may stop anywhere and no
fairness is assumed: the properties are all safety. Deadlock is not checked, since the turns are
finitely many.

**Proofs** (`ChatTurnProofs`), for any turns, sessions, orders of leaving the dependency, window and
bounds: `ChatTypeCorrect`, `VerdictHolds`, `StoredAnswersWhole`, `VerdictIsSent`,
`HistoryInOrder`, and `ImplementsChatLog`, the refinement. `IInv` says for each point of the handler
which rows are pending, which are stored and what the client may have been told
(`RecordOK`, `TurnOK`), which end of the provider leads to that point (`LastAt`, from which
`VerdictIsSent` follows), and that a row stands and falls with its session (`RowOK`).
`HistoryInOrder` (`[]QuestionBeforeAnswer`) needs more: a history is sorted by `created_at` and id,
and a sort has a definite result only if the order is total. `TInv` says that it is: no two
transactions have one time, so that rows with equal `created_at` are the two rows of one turn,
and their ids decide; under a total order the sorted position of a row is the number of rows
before it (`EveryRankTaken`). `StoredAnswersWhole` has the hypothesis `"cut" \notin ProviderEnds`:
without it `chat_cut` refutes the property. Nothing of this part is model-checked only.

Not modelled here: what an answer says (section 6), rewrite and search inside
`Prepared` (section 5), message listing by cursor, a database that fails while the API lives (a
commit fails here only on the foreign key), the heartbeat of the stream. `MessageStatus.INTERRUPTED` exists in
the code and nothing ever writes it, so a turn that was cut off by the client leaves its question
at most.

## 5. Evidence workflow

`EvidenceMerge` holds the pure part, `merge_search_responses`: ranks are fused to exact
fractions (`Scale` clears the denominators), equal scores are broken by best rank, first query
and id, duplicates are dropped in that order, and places are given to routed documents. The sort
is written by ranks and the loops as recursive functions, so that both can be reasoned about.
`EvidenceWorkflow` is `gather_chat_evidence` around it: one action per awaited call and its
outcome. `ready` and `members` are the document rows the searches read, `run` the local state of
one run. A search returns *any* ranking of the chunks it may see that `select_evidence` could
return (`Selected`), a planner *any* plan or an error. `StatusChanges` stands for the jobs of
section 3; `AddDocument`, `RemoveDocument` and `DeleteCollection` are the requests of
`app/services/collection.py` that change what a session's collection holds.

| Run | Instance | What it shows |
| --- | --- | --- |
| `evidence` | 5 chunks of 3 documents, `TopK` 2, at most 2 routes, plans of up to 3 documents, every workflow, selection and scope, one change of the corpus | evidence comes from the scope as it was resolved; a router that fails costs nothing; the best primary chunk survives refinement; nothing new is left out for something worse; routed documents keep a place |

`RoutedDocumentsKept` excepts one case, which `docs/spec.md` section 14.8 does not: places are kept
after duplicates were removed, and under `legacy`, the default, the key of a duplicate is the
text alone, so a routed document whose text a better chunk of another document repeats has
no candidate left.

The instance has chunks of two documents with one text and a table whose rows overlap in their
cells, which are the cases the duplicate rules tell apart. With `TopK` 2 the primary and one
refined list can fill every place, and two routes and an unrouted document compete for two
places. A plan may name more documents than allowed, or one outside the catalog. Deadlock is not
checked: a run ends. Not modelled: scores of the search itself and its places for scoped
documents (section 7; the refinement's merge does not keep those places), the text of plans and
queries, float rounding of fused scores, names and descriptions of collections.

**Proofs.** Everything the run checks is proved for any chunks, documents, scopes and bounds:
`EvidenceTypeCorrect`, `EvidenceIsInScope`, `RouterFailureIsHarmless`, `NewEvidenceIsKept`,
`RoutedDocumentsArePlaced` and `BestEvidenceSurvives` in `EvidenceProofs`. The assumptions are
those of the two modules: scopes are of the three kinds of the code, `MaxRoutes` is at least 1
(`app/core/config.py:62`, `ge=1`), chunk ids are comparable, `TopK` is positive.

- `DataInduction` has induction over the natural numbers as a statement about *sets*, derived from
  the existence of least elements (`WFMin`), since the library's induction theorems take an operator.
  `Recursion` says that a recursion over `0..N` has a solution; each recursive function of the model
  is shown to exist by it before its equation is used. `EveryRankTaken`: under a strict total
  order the elements of a finite set have the ranks 1 to its size.
- The first part of `EvidenceProofs` follows the code through fusion, sort, duplicates and places. The order of sort keys is
  strict and total (`BetterIsOrder`), so that the sort is one; every chunk is eligible or repeats
  better eligible ones; giving a place to a routed document takes it from a chunk of a document that
  has another one or is not routed. `Picks` sums up what a merge returns.
- The second part has the invariant: what was gathered at each stage (`StageOK`), lists that name
  a chunk once and only documents that the run resolved (`ListOK`), and results that are the primary
  list or the merge of all. The invariant was checked by TLC on the instance of the run first.
- `BestEvidenceSurvives` has an argument of its own: no chunk that only the refined list has can beat
  the first of the primary list, since its share is at most equal and the tie goes to the earlier
  query (`BetterThanFirst`). What beats it is in the primary list too, and these are fewer than
  `TopK` chunks, so that a place is left for it unless the results repeat it.

Nothing of this part is model-checked only.

## 6. The text of an answer

`AnswerGate` is `app/llm/citations.py` with the loop of `chat_stream` around it. `output` is what the
model generates, `fed` what the provider has sent of it, `mode` and `buffer` are the gate's fields,
`shown` is what the client has got, `answer` and `cited` are stored at the end. `Feed` is one delta of
any length, `Finish` the end of the stream with `finalize_answer`; a provider error, after which
nothing is stored, is in `ChatTurn`.

A text is a sequence of characters, brackets and digits among them. `Markers` is what the pattern
`\[(\d+)\]` matches and `Number` is `int()`. As in the code, the text is parsed *once*; then each number
without a source, in ascending order, is written out again and replaced as a string in what the
removals before it left (`Cleaned`). So a marker with leading zeros, or with digits that are not
ASCII, is parsed but not found again, and a removal may put a marker together that was never parsed.
`casefold` works character by character here.

| Run | Instance | What it shows |
| --- | --- | --- |
| `answer_gate` | a refusal of two letters, one with two cases; 1 has a source, 7 has none. All texts of up to 5 letters, blanks, brackets and sevens, of up to 7 brackets, ones and sevens, of up to 5 with zeros or with a seven that is not ASCII; up to four markers, refusals and blanks in a row. Each in every split | the client's text does not depend on the split; what is stored is what `POST /chat` stores of the same answer; a citation keeps its marker, and a plain marker has its citation unless brackets were nested |

A text of five characters holds a blank, the whole refusal and two characters after it, and every
place where it can differ from the refusal; the gate has no memory beyond the text. Seven
characters hold `[[7]1]`, `[7][7]1` and `[1[7]1]`, in which removals meet other markers; the rows of
pieces hold a marker twice, which tells `replace` from one with a count.

Two disagreements with `docs/spec.md` bound what the properties can say.

- A refusal with nothing after it: lines 578-580 say that what is stored agrees with what the client
  sees, but `feed` is still undecided at the end of the stream (`app/llm/citations.py:87`), so that
  the client sees the model's blanks and case, and the fixed sentence is stored. `StoredAsUnstreamed`
  says what holds.
- A dangling marker: of `[[7]1]` without a source 7 the stored answer keeps a `[1]` that has no
  citation, even when 1 has a source, and of `[07]` everything stays, where line 63 rules dangling
  citations out. `MarkersResolve` is therefore not "in both directions": a stored citation always
  keeps its marker; a marker of the stored answer has its citation if it is written plainly and
  the model opened no bracket among the digits of another (`Nested`).

**Proofs** (`AnswerGateProofs`), for every alphabet, refusal sentence and set of answers, of any length:
`GateTypeCorrect`, `GateIgnoresSplits` (`[]SplitIndependent`), `StreamStoresAsPost`
(`[]StoredAsUnstreamed`), `CitationsHaveMarkers` (`[]MarkersResolve`). `GateAssumption` has of the
characters what Python and the refusal sentence give: brackets are not digits, no two ASCII digits
have one value, and the opening bracket is neither a blank nor, in any case, a character of the
refusal.

- The invariant says that the mode is what the two tests of the gate say of *all* that was fed. It is
  kept because a text that is no beginning of the refusal does not become one when it grows
  (`UndecidedShrinks`), and the answer to whether it begins with the refusal stays the same from then
  on (`RefusalDecided`).
- A removal moves the characters it keeps together and changes neither them nor their order
  (`Ascending`). What is before the first bracket stays in place (`BeginningStays`), so that the
  stored answer, made from what passed the gate, is that of `POST /chat`, made from the whole text: a
  refusal is still one after any removals (`RefusalStays`).
- Two markers never overlap, so that a marker with another number survives a removal
  (`MarkersApart`, `MarkerStays`): a citation keeps its marker. A marker of the result was one before,
  unless a bracket was opened within another (`NoNewMarker`), and a removal nests none
  (`NotNestedStays`). `OnePass` is the induction over the numbers to remove.

Nothing of this part is model-checked only.

## 7. Search

`CorpusIndex` is the data that jobs and searches share, and a job in two steps: `Build` is
`build_corpus_snapshot` with the new version's chunks, `Activate` or `Reject` its end; the
failures inside a job are section 3. `Search` is `search_corpus`
(`app/services/retrieval.py`) with every statement as a step of its own.

| Variable | In the code |
| --- | --- |
| `corpus` (`doc`, `tries`, `embedded`, `idOf`, `snapshot`, `build`, `model`) | status and active version of documents, versions begun and the model of their vectors, chunk rows with their `faiss_id`, the active snapshot with the chunks it indexes, the job at work, the embedding model of the settings |
| `q` | the local variables of one search: request, snapshot, documents in scope, chunk rows, results |
| `start`, `seen`, `calm` | history: versions in service when the search began and until it ended; whether a job committed between its reads |

A chunk is a document, a version and a position; the layout of the instance says its text, its
words, its table and its cells. The vectors may rank the chunks of the snapshot in *any* order, and so
may the reranker, or it fails and the fused order stays; BM25 ranks any way those chunks that
share enough words. Fusion uses exact fractions. `Begin` reads the snapshot, `ResolveScope` the
documents, `ReadChunks` the rows; `Rank` is the rest, which reads nothing that a job changes.

| Run | Instance | What it shows |
| --- | --- | --- |
| `search` | 2 documents with up to 2 versions (a table that a second parse loses, a note with a text of the other), 5 kinds of request, 2 models, any job between any two steps | every paper of an explicit scope that fits keeps a place; the places cost no result; what is shown, context rows included, was in service during the search, one version per document; FAISS ids are never used twice |

The candidate limits are below the number of chunks of the instance, so each of them cuts; `top_k`
ranges from one to three, so that scopes fit or do not. Deadlock is not checked: versions
run out.

`ScopedPapersKept` excepts a search between whose reads a job commits (`calm`), and `README.md:8-9`
does not: the snapshot is read first (`retrieval.py:40`), the chunk rows of the documents' *active*
versions later (`retrieval.py:55`); a reindex that commits in between leaves a paper with rows that
the snapshot does not know, and the paper is missing without an error. FAISS ids come from the
sequence that is the column's default (`models/chunk.py:28`); the allocation at
`index/manager.py:81` is reached only on databases without sequences, as in the SQLite tests,
and is not modelled.

**Proofs** (`SearchProofs`), for any documents, layouts, models, requests and limits, with no
hypothesis beyond `LayoutAssumption` and `SearchAssumption`: `SearchTypeCorrect` (`[]TypeOK`),
`ShownWasServed` (`[]OnlyServedText`), `PapersKeepPlaces` (`[]ScopedPapersKept`) and
`PlacesCostNothing` (`[]NoPlaceWasted`). They follow from `SearchInductive` (`[]SearchInv`),
which TLC checked on the run's instance first.

- `CorpusInv`: chunk rows are numbered without repetition and belong to a version that was begun;
  the rows of an active version are stored; the chunks of a build are no rows yet, so that
  activating it takes fresh numbers (`IdsFor`) and leaves the old ones as they are. The snapshot
  may name numbers whose rows are of a version no longer active, and does, after a reject.
- `ReadsOK` and `HistoryOK` say what the reads of a search still mean when a job has committed after
  them: each version read was in service at some moment of the search, and if none committed
  (`calm`) then snapshot, documents and rows are of one corpus. `ResultsOK` is the invariant of the end.
- Candidates, fusion and selection are one chain of lists, each of which names a chunk once. A paper
  of an explicit scope gets a candidate of its own (`EnsureDocumentCandidates`), fusion keeps one of
  each list under the places (`Take`), deduplication drops a chunk only for a kept one of its document,
  and the selection cuts extra rows before mandatory ones. Whatever rankings vectors, BM25 and
  reranker give, the argument is the same.
- Sorts are lists by rank (`At`, `InOrder`; `ListedByRank` of `DataInduction` shows that they list
  every element once) and loops are recursive functions with an invariant each, for instance that of
  the kept chunks in `KeepNew`.

Nothing of this part is model-checked only.

## 8. From a file to its chunks

`PdfIngestion` starts where `ingestion_task` has chosen a parser: a file of a text format is
loaded and chunked by `Chunking`, a PDF is a *paper*, parsed by the parser of the settings into a
`DocumentIR` and chunked by `IRChunks`. The tools' output is input: a scan (PyMuPDF's blocks,
lines and tables), an export (Docling's tree), a list (MinerU's items). A text is a sequence of
characters; each has a role (letter, digit, period, blank, line break, NUL, replacement
character, the mark a bullet, caption or formula begins with) and knows where in the file it stood, so
that "nothing is lost or doubled" can be said.

| Module | Code | What it is |
| --- | --- | --- |
| `Sentences` | `chunking/sentence.py`, `_add_text_chunks` | ends of sentences, splits of overlong ones, packing |
| `Chunking` | `chunking/pipeline.py`, `heading_tree.py`, the loaders | one action per step of `chunk_document`: title chunks, text runs, tables, code |
| `DocumentIR` | `document_ir/*` | elements, spans and tables; normalisation; `Issues` is `validate_document_ir` |
| `PyMuPdf` | `loaders/pymupdf_adapter.py` | columns, repeated headers, paragraphs, headings, table repair, the gate of the fast path |
| `Docling` | `loaders/docling_adapter.py` | the tree walk, one node per step, tables, and the merge of PyMuPDF's tables |
| `MinerU` | `loaders/mineru_adapter.py` | items, the placement of spanning cells |
| `IRChunks` | `chunk_document_ir`, `chunking/table.py` | the chunks of one element; parent, row and group chunks of a table |
| `PdfIngestion` | `loaders/pdf_router.py`, `V2PDFDocumentParser` | which parser runs, how it fails, validation, chunking |

| Variable | In the code |
| --- | --- |
| `file`, `state` | what is indexed and how far, or the error code the job ends with |
| `paras`, `next`, `run`, `chunks` | the loader's paragraphs, the position in them, the text run not yet flushed, the results |
| `todo`, `heads` | the references `visit` has still to read, `heading_stack` |
| `ir` | the parsed document |
| `leftover` | whether `storage/tmp/mineru/<document_id>` exists |

| Run | Instance | What it shows |
| --- | --- | --- |
| `documents` | all files of up to 3 of 8 blocks (2 of 17 on the pages of a PDF) in three text formats, 8 page layouts with 10 tables, 15 kinds of Docling nodes in trees with dangling and cyclic references, lists of up to 2 of 12 MinerU items, every parser setting, every failure of a tool | `WordsKept`, `ChunksFit`, `PagesAreOfTheWords`: loaded words are all in chunks, once, in order, within the limits and on their pages; `PageTextKept`: the same of a paper's text; `TableValuesOnce`, `OneTableSourcePerPage`: table values are neither lost nor doubled by row and group chunks or by the merge; `FastPathClean`: what the router's gate lets through is stored without damaged text, but in the raw text of a table, and with at most one unlabelled number in twenty; `DocumentsTypeOK`: parents of chunks exist (no `CHUNK_PARENT_INVALID`) |
| `table_value_lost` | Docling tables with a label that spans two rows | refuted: `docs/pdf-ingestion-v2-spec.md:668` wants a row chunk for every data row, but the second row's only value is taken for its label and is in no chunk |

**Bounds.** The limits are `MaxChars` 6, `MergeMax` 3, `SmallLimit` 5: texts of six and of eighteen
characters pass each of them, at a sentence end, inside a number and with no end at all. A page is
8 by 20 with bands of 2; three pages would only repeat what two show, since headers compare pages
with each other. Tables have up to three rows and columns, enough for spans in both directions,
headers of two levels, ragged rows and overlaps. Wider ones stand at the limit of the gate: one
unlabelled number among 19, 20 and, over two tables, 19 and 20 (`TablesAtTheLimit`), and a table
with a damaged line that its repair drops. Deadlock is not checked: a job ends.

**Proofs** (`TextProofs`, `ChunkingProofs`), for any uploaded files, any limits and any places to cut,
from `FilesAssumption` and `LimitsAssumption` (types of blocks, positive limits): `CitedPages`
(`[]PagesAreOfTheWords`), `SizesFit` (`[]ChunksFit`), `NoWordLost` (`[]WordsKept`) and `ParentsOfFiles`
(`ParentsMade`, the last part of `DocumentsTypeOK`, and no job that ends with `CHUNK_PARENT_INVALID`).
They follow from `DocumentsInductive`, whose invariant TLC checked on the instance of the run first.

- `TextProofs` shows of each operator that it keeps the words of its text, in order, and makes pieces
  that fit: blanks and separators are no words, cuts are at ascending places up to the end
  (`CutKeepsWords`), and the loops over parts, sentences and table lines are recursive functions with
  an invariant each (`AddPartKeepsWords`, `AddSentenceKeepsWords`, `AddLineKeepsWords`).
- A loader lists each block at most once whatever the places of the blocks on the pages are
  (`LoadedWell`), so that no two paragraphs share a word. This is what lets the invariant grow:
  `UploadInv` says that the chunks made so far *tell* the words before the run that is not yet cut,
  each at its first use (`Tell`), and the first uses in two lists of chunks that share no word are
  those of the first, then of the second (`TellConcat`).
- `PagesAreOfTheWords` holds because a run is of one page (`RunOf`); the one chunk of a small
  document cites them all. A part of a table that has its first two lines and one more is the only
  table chunk over the limit (`TableTells`).
- `ParentsInv` adds that, while a larger document is cut, the chunks are those of the titles and then
  chunks *under titles*: none empty but code, and each with the index of a title of its path
  (`TitleIndexFound`) or none. The titles come first, so every parent is made before its chunks
  (`SectionParents`), and no later step touches it (`CutUnderTitles`).

**Where the properties stop.** `TableValuesOnce` is about rows that begin with a cell of their own
(`table_value_lost` has the others). With Docling, `PageTextKept` is about texts without
children: `visit` does not emit a node that has children (`docling_adapter.py:523`), so that a table
or picture with its caption below it is lost. `FastPathClean` is about the router: papers of
`docling` are not held to its limits. It excepts the raw text of tables, and counts over all tables
of a paper, as the gate does; the limit of one in twenty is the default of the settings
(`app/core/config.py:87`). `WordsKept` excepts a table of a text file that is over the limit and has no
line below its first two: `_add_table_chunk` emits nothing of it (`chunking/pipeline.py:304-315`), so
that its words are lost.

**Other disagreements met while modelling**, in the model and without a run:

- `docs/pdf-ingestion-v2-spec.md:602` lets no *table* with more than one orphan in twenty numbers
  become active. The gate counts over all tables of the paper, so that a table of nothing but
  orphans passes beside large clean ones (`count_orphan_numeric_cells`).
- The gate counts damaged characters in the table as repaired. A damaged line that the repair drops
  is still in `raw_table_text` and becomes a chunk, which nobody counts
  (`pymupdf_adapter.py:640-660`).
- The merge sorts everything by page and upper edge and takes tables whose geometry nobody
  checked (`docling_adapter.py:594`), where `docs/pdf-ingestion-v2-spec.md:454` speaks of verified
  structure; two columns lose their order then.
- Heading sizes are never forgotten (`pymupdf_adapter.py:618`): a heading can be put below one of
  an earlier section.
- MinerU's directory is named after the document and never removed (`mineru_adapter.py:466`), so
  the next indexing of the same document fails with `PDF_PARSE_FAILED` (`leftover`). A heading
  without text ends with `INTERNAL_ERROR`.
- `docs/spec.md:360` packs six sentences and 800 characters, the code up to twelve
  (`chunking/models.py`) and one character more at a join.
- Markdown tables are read one cell per line (`loaders/markdown.py:182`), where
  `docs/spec.md:377` keeps rows whole.
- Two sections with one path share a title chunk: the later one is the parent of both.
- A code node without text makes a chunk without text (`docling_adapter.py:462`,
  `chunking/pipeline.py:349`); every other chunk has one (`ParentsMade`).
- Each chunk of a split element is embedded with the text of the whole element
  (`chunk_document_ir`), where `docs/spec.md:363` embeds the chunk's own.

**Abstracted**: captions, titles, the embedded text (`retrieval_content`), hashes, JSON and HTML
of tables, hyphens and ligatures, fonts beyond their size, warnings, confidences other than the
one the gate reads, numeric limits that only sort data into cases the input has anyway (the length of a
heading, caption or formula, geometric tolerances), and the checks of reading order, references and parents, which hold of every
document the adapters build. `PdfLoader`, which the registry still offers, is a format of
`Chunking`; uploads of PDF files are papers.

## 9. What is model-checked only, and what is not modelled

Every safety property of sections 3 to 7 is a theorem, and so are those of section 8 that are
about uploaded text files, their parents included. Left to TLC are liveness
(`EveryJobFinishes`), which is out of the prover's reach, and of section 8 what is said of papers.
The modules of the parsers compute with
`SelectSeq` and `FoldLeft`, which the prover has no definitions of, and what they return
for every page, tree and list is induction over data of many kinds. One property moreover depends
on the instance and is no theorem as it stands: `OneTableSourcePerPage` holds since no page of the
instance has two PyMuPDF tables one of which is blank. The violated properties of the four
findings are refuted by their runs, and nothing is proved of them.

Not modelled: **the context builder** (`app/context`), which the application never calls;
**the web client**; **migrations**, whose constraints are those of the models; **health and
configuration**, **command line tools** and **the evaluation harness**, which have no state that
the service depends on; **embedding and reranking** beyond signature, order and failure;
**the FAISS library**; the JSON form of the IR and its hashes.
