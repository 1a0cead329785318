------------------------------- MODULE Ingestion -------------------------------
(***************************************************************************)
(* Documents, ingestion jobs and the active index snapshot: the HTTP API   *)
(* writes documents and jobs, arq carries one message per enqueue, and     *)
(* worker processes run each job inside ONE database transaction.          *)
(*                                                                         *)
(* The shared variables are the COMMITTED database rows, the directories   *)
(* below storage/ and the Redis queue.  What a transaction has flushed but *)
(* not committed (the statuses parsing ... indexing, a RUNNING job, a      *)
(* BUILDING version) is visible to nobody else, so it lives in the local   *)
(* record of the worker that runs it and reaches the rows at its commit.   *)
(***************************************************************************)
EXTENDS Naturals, FiniteSets

CONSTANTS
  Docs,            \* document ids
  PdfDocs,         \* the documents whose extension is pdf: they have IR artifacts
  Jobs,            \* job ids
  Vers,            \* ids drawn by runs; the snapshot of a run is named by its version
  Workers,         \* arq worker processes (max_jobs = 1 each)
  Reqs,            \* HTTP requests in flight at once
  None,            \* no version / no job / no status
  DispatchOrders,  \* does a request commit before or after the middleware enqueues?
  MaxTries,        \* WorkerSettings.max_tries
  Copies,          \* messages of one job that can wait in Redis together
  Faults,          \* the kinds of fault that happen: "crash" of a worker, "abort" of a
                   \* run, "lost" request or message
  MaxFaults        \* bound: how many faults happen

ASSUME ConstantsAssumption ==
  /\ PdfDocs \subseteq Docs
  /\ None \notin Docs \cup Jobs \cup Vers
  /\ DispatchOrders \subseteq {"commit_first", "dispatch_first"}
  /\ Copies \subseteq Nat
  /\ Faults \subseteq {"crash", "abort", "lost"}
  /\ MaxTries \in Nat /\ MaxFaults \in Nat

VARIABLES
  doc,      \* documents: status and active_document_version_id
  job,      \* ingestion_jobs: status, document_id, kind
  ver,      \* document_versions: status, document_id, has embedded chunks
  snap,     \* index_snapshots: status and manifest.document_versions
  pointer,  \* system_state.active_index_snapshot_id
  uploads,  \* documents whose file is in storage/uploads
  ir,       \* where the IR directory of a version is
  idx,      \* snapshots whose directory is in storage/indexes/versions
  queue,    \* arq messages in Redis
  req,      \* the API's requests in flight
  wk,       \* the workers
  faults    \* how many faults have happened

dbVars == <<doc, job, ver, snap, pointer>>
fsVars == <<uploads, ir, idx>>
vars == <<doc, job, ver, snap, pointer, uploads, ir, idx, queue, req, wk, faults>>

-----------------------------------------------------------------------------
(* Types *)

DocStatus == {"absent", "queued", "ready", "failed", "deleting", "deleted"}
JobStatus == {"absent", "queued", "succeeded", "failed"}
JobKind == {"ingest", "reindex", "delete_cleanup"}
VersionStatus == {"absent", "ready", "superseded", "failed"}
SnapshotStatus == {"absent", "active", "superseded", "failed"}
IrPlace == {"none", "building", "versions", "failed", "orphans", "removed"}

\* What is not written is not a status.
ASSUME NoneAssumption == None \notin DocStatus

VersOrNone == Vers \cup {None}
Manifest == [Docs -> VersOrNone]
EmptyManifest == [d \in Docs |-> None]

DocRow == [st : DocStatus, active : VersOrNone]
JobRow == [st : JobStatus, doc : Docs \cup {None}, kind : JobKind \cup {None}]
VersionRow == [st : VersionStatus, doc : Docs \cup {None}, embedded : BOOLEAN]
SnapshotRow == [st : SnapshotStatus, docs : Manifest]
Message == [job : Jobs, copy : Copies, tries : 0..MaxTries]

\* A request: the row it inserts (or only enqueues again) and the status it writes.
Request ==
  [pc : {"idle", "open", "committed", "sent"}, job : Jobs \cup {None},
   doc : Docs \cup {None}, kind : JobKind \cup {None}, insert : BOOLEAN,
   write : DocStatus \cup {None}]
IdleRequest ==
  [pc |-> "idle", job |-> None, doc |-> None, kind |-> None, insert |-> FALSE, write |-> None]

IngestPcs ==
  {"parsing", "chunking", "activating", "switching", "pointing", "finalizing", "failing"}
DeletePcs == {"cleaning", "unlinking", "removed", "undoing"}
BusyPcs == {"taken", "loaded", "committed"} \cup IngestPcs \cup DeletePcs

\* A worker: its message, what it read of the document row before the lock, and
\* the uncommitted part of its run.
Worker ==
  [pc : {"down", "idle"} \cup BusyPcs, job : Jobs \cup {None}, copy : Copies \cup {None},
   st : DocStatus \cup {None}, prior : VersOrNone, v : VersOrNone,
   embedded : BOOLEAN, built : BOOLEAN, docs : Manifest,
   oldSnap : VersOrNone, oldWasActive : BOOLEAN, switched : BOOLEAN, retired : BOOLEAN]
RestingWorker(pc) ==
  [pc |-> pc, job |-> None, copy |-> None, st |-> None, prior |-> None, v |-> None,
   embedded |-> FALSE, built |-> FALSE, docs |-> EmptyManifest,
   oldSnap |-> None, oldWasActive |-> FALSE, switched |-> FALSE, retired |-> FALSE]

TypeOK ==
  /\ doc \in [Docs -> DocRow]
  /\ job \in [Jobs -> JobRow]
  /\ ver \in [Vers -> VersionRow]
  /\ snap \in [Vers -> SnapshotRow]
  /\ pointer \in VersOrNone
  /\ uploads \subseteq Docs
  /\ ir \in [Vers -> IrPlace]
  /\ idx \subseteq Vers
  /\ queue \subseteq Message
  /\ req \in [Reqs -> Request]
  /\ wk \in [Workers -> Worker]
  /\ faults \in 0..MaxFaults

Init ==
  /\ doc = [d \in Docs |-> [st |-> "absent", active |-> None]]
  /\ job = [j \in Jobs |-> [st |-> "absent", doc |-> None, kind |-> None]]
  /\ ver = [v \in Vers |-> [st |-> "absent", doc |-> None, embedded |-> FALSE]]
  /\ snap = [v \in Vers |-> [st |-> "absent", docs |-> EmptyManifest]]
  /\ pointer = None
  /\ uploads = {}
  /\ ir = [v \in Vers |-> "none"]
  /\ idx = {}
  /\ queue = {}
  /\ req = [r \in Reqs |-> IdleRequest]
  /\ wk = [w \in Workers |-> RestingWorker("down")]
  /\ faults = 0

\* A fault of this kind happens.
Fault(kind) ==
  /\ kind \in Faults /\ faults < MaxFaults
  /\ faults' = faults + 1

-----------------------------------------------------------------------------
(* Locks and rows *)

DocOf(w) == job[wk[w].job].doc
KindOf(w) == job[wk[w].job].kind

\* Mutant: the lock is skipped, as on a database that is not PostgreSQL.
LockSkipped(d) == FALSE
\* pg_advisory_xact_lock(document id) is held from the start of the run to its end.
Locked(d) == \E w \in Workers : wk[w].pc \in IngestPcs \cup DeletePcs /\ DocOf(w) = d

\* The documents row is locked once an UPDATE of it has been flushed.
HoldsRow(w) ==
  \/ wk[w].pc \in IngestPcs
  \/ /\ wk[w].pc \in DeletePcs /\ wk[w].retired
     /\ wk[w].st # "deleted" \/ wk[w].prior # None
RowLocked(d) == \E w \in Workers : HoldsRow(w) /\ DocOf(w) = d

\* _find_active_job: RUNNING is never committed, so QUEUED is all a request can see.
ActiveJobs(d, kinds) == {j \in Jobs : job[j].st = "queued" /\ job[j].doc = d /\ job[j].kind \in kinds}

FreshJobs == {j \in Jobs : /\ job[j].st = "absent"
                           /\ \A r \in Reqs : req[r].job # j
                           /\ \A m \in queue : m.job # j}
FreshDocs == {d \in Docs : doc[d].st = "absent" /\ d \notin uploads}
FreshVers == {v \in Vers : /\ ver[v].st = "absent" /\ ir[v] = "none" /\ v \notin idx
                           /\ \A w \in Workers : wk[w].v # v}

-----------------------------------------------------------------------------
(* The API.  A request reads, then commits at the dependency boundary, and  *)
(* the http middleware enqueues the job; a request that loses the race with *)
(* another one acts on what it read.  Which comes first depends on FastAPI: *)
(* to 0.117 a dependency ends before the response starts, from 0.118 after  *)
(* it was sent; pyproject.toml allows both and uv.lock has 0.119.1.         *)

OpenRequest(r, j, d, kind, insert, write) ==
  /\ req[r].pc = "idle"
  /\ req' = [req EXCEPT ![r] = [pc |-> "open", job |-> j, doc |-> d, kind |-> kind,
                                insert |-> insert, write |-> write]]

\* ORM: no UPDATE is emitted for an attribute set to the value that was loaded.
StatusWrite(read, new) == IF read = new THEN None ELSE new

\* ingest_upload: the file is moved into uploads/ before any row is committed.
Upload(r) ==
  \E d \in FreshDocs, j \in FreshJobs :
    /\ OpenRequest(r, j, d, "ingest", TRUE, "queued")
    /\ uploads' = uploads \cup {d}
    /\ UNCHANGED <<dbVars, ir, idx, queue, wk, faults>>

Gettable(d) == doc[d].st \notin {"absent", "deleted"}

\* request_reindex: 404, then 409 while any write job of the document is active.
RequestReindex(r) ==
  \E d \in Docs, j \in FreshJobs :
    /\ Gettable(d)
    /\ ActiveJobs(d, JobKind) = {}
    /\ OpenRequest(r, j, d, "reindex", TRUE, StatusWrite(doc[d].st, "queued"))
    /\ UNCHANGED <<dbVars, fsVars, queue, wk, faults>>

\* request_delete: an active clean-up job is returned (and enqueued) again.
RequestDelete(r) ==
  \E d \in Docs :
    /\ Gettable(d)
    /\ LET existing == ActiveJobs(d, {"delete_cleanup"}) IN
         \/ \E j \in existing : OpenRequest(r, j, d, "delete_cleanup", FALSE, None)
         \/ /\ existing = {}
            /\ \E j \in FreshJobs :
                 OpenRequest(r, j, d, "delete_cleanup", TRUE, StatusWrite(doc[d].st, "deleting"))
    /\ UNCHANGED <<dbVars, fsVars, queue, wk, faults>>

\* retry_job: only of a failed job; no look at the document's other jobs.
RetryJob(r) ==
  \E old \in Jobs, j \in FreshJobs :
    /\ job[old].st = "failed"
    /\ LET d == job[old].doc IN
         OpenRequest(r, j, d, job[old].kind, TRUE,
                     IF doc[d].st = "deleted" THEN None ELSE StatusWrite(doc[d].st, "queued"))
    /\ UNCHANGED <<dbVars, fsVars, queue, wk, faults>>

\* get_session commits; an UPDATE of the document waits for the row lock.
CommitRequest(r) ==
  LET q == req[r] IN
    /\ q.pc \in {"open", "sent"}
    /\ q.pc = "open" => "commit_first" \in DispatchOrders
    /\ q.write = None \/ ~RowLocked(q.doc)
    /\ job' = IF q.insert THEN [job EXCEPT ![q.job] = [st |-> "queued", doc |-> q.doc, kind |-> q.kind]]
                          ELSE job
    /\ doc' = IF q.write = None THEN doc ELSE [doc EXCEPT ![q.doc].st = q.write]
    /\ req' = [req EXCEPT ![r] = IF q.pc = "sent" THEN IdleRequest ELSE [q EXCEPT !.pc = "committed"]]
    /\ UNCHANGED <<ver, snap, pointer, fsVars, queue, wk, faults>>

\* The request has run its middleware: it ends if it is committed too.
Dispatched(r) ==
  \/ req[r].pc = "committed" /\ req' = [req EXCEPT ![r] = IdleRequest]
  \/ req[r].pc = "open" /\ "dispatch_first" \in DispatchOrders /\ req' = [req EXCEPT ![r].pc = "sent"]

\* enqueue_after_commit: no _job_id is given, so every enqueue is a new message.
Dispatch(r) ==
  /\ Dispatched(r)
  /\ LET free == {c \in Copies : \A m \in queue : m.job # req[r].job \/ m.copy # c} IN
       \E c \in free :
         /\ \A other \in free : c <= other
         /\ queue' = queue \cup {[job |-> req[r].job, copy |-> c, tries |-> 0]}
  /\ UNCHANGED <<dbVars, fsVars, wk, faults>>

\* Redis is down: the error is logged and the job stays queued.
DispatchFails(r) ==
  /\ Dispatched(r)
  /\ Fault("lost")
  /\ UNCHANGED <<dbVars, fsVars, queue, wk>>

\* An unknown collection, a lost connection or a killed API process before the
\* commit: the rows roll back, the uploaded file and a sent message do not.
RequestFails(r) ==
  /\ req[r].pc \in {"open", "sent"}
  /\ req' = [req EXCEPT ![r] = IdleRequest]
  /\ Fault("lost")
  /\ UNCHANGED <<dbVars, fsVars, queue, wk>>

-----------------------------------------------------------------------------
(* A worker: from the message to the lock *)

Own(w) == {m \in queue : m.job = wk[w].job /\ m.copy = wk[w].copy}
Held(m) == \E u \in Workers : /\ wk[u].pc \in BusyPcs
                              /\ wk[u].job = m.job /\ wk[u].copy = m.copy
Goto(w, pc) == wk' = [wk EXCEPT ![w].pc = pc]
Rest(w, pc) == wk' = [wk EXCEPT ![w] = RestingWorker(pc)]

\* Mutant: the known ids never compare equal to the directory names.
AllArtifacts == {v \in Vers : ir[v] \in {"building", "versions"}}
\* quarantine_orphans: directories whose version has no committed row.
Orphans == {v \in Vers : ir[v] \in {"building", "versions"} /\ ver[v].st = "absent"}

\* on_startup: no RUNNING job and no BUILDING row was ever committed, so of the
\* reconciliation only quarantine_orphans has an effect.
Startup(w) ==
  /\ wk[w].pc = "down"
  /\ ir' = [v \in Vers |-> IF v \in Orphans THEN "orphans" ELSE ir[v]]
  /\ Rest(w, "idle")
  /\ UNCHANGED <<dbVars, uploads, idx, queue, req, faults>>

\* Mutant: only the job's presence is checked.
AnyCommitted(j) == job[j].st # "absent"
\* A committed job that has not succeeded is run; a failed one is run again.
Runnable(j) == job[j].st \in {"queued", "failed"}

\* Mutant: the last try is not given.
OffByOne(m) == m.tries + 1 >= MaxTries
\* arq refuses a job whose job_try exceeds max_tries.
Exhausted(m) == m.tries = MaxTries

\* arq hands a message nobody holds to an idle worker, which loads the job row.
Take(w) ==
  \E m \in queue :
    /\ wk[w].pc = "idle" /\ ~Held(m)
    /\ ~Exhausted(m) /\ Runnable(m.job)
    /\ queue' = (queue \ {m}) \cup {[m EXCEPT !.tries = @ + 1]}
    /\ wk' = [wk EXCEPT ![w] = [RestingWorker("taken") EXCEPT !.job = m.job, !.copy = m.copy]]
    /\ UNCHANGED <<dbVars, fsVars, req, faults>>

\* The message is consumed without a run: it was tried max_tries times, the job
\* has succeeded ("noop"), or no such job is committed (RuntimeError).
Discard(w) ==
  \E m \in queue :
    /\ wk[w].pc = "idle" /\ ~Held(m)
    /\ Exhausted(m) \/ ~Runnable(m.job)
    /\ queue' = queue \ {m}
    /\ UNCHANGED <<dbVars, fsVars, req, wk, faults>>

\* The document row is loaded before the advisory lock and never refreshed.
ReadDocument(w) ==
  /\ wk[w].pc = "taken"
  /\ wk' = [wk EXCEPT ![w] = [@ EXCEPT !.pc = "loaded", !.st = doc[DocOf(w)].st,
                                       !.prior = doc[DocOf(w)].active]]
  /\ UNCHANGED <<dbVars, fsVars, queue, req, faults>>

-----------------------------------------------------------------------------
(* run_ingest *)

\* The lock is granted; the statuses parsing and RUNNING are flushed and a
\* BUILDING version is inserted.  doc.status is not looked at.
Begin(w) ==
  /\ wk[w].pc = "loaded" /\ KindOf(w) # "delete_cleanup"
  /\ ~Locked(DocOf(w))
  /\ \E v \in FreshVers : wk' = [wk EXCEPT ![w] = [@ EXCEPT !.pc = "parsing", !.v = v]]
  /\ UNCHANGED <<dbVars, fsVars, queue, req, faults>>

\* The parser reads the upload; of a PDF the IR is staged in ir/building.
Parse(w) ==
  LET v == wk[w].v IN
    /\ wk[w].pc = "parsing"
    /\ DocOf(w) \in uploads
    /\ ir' = IF DocOf(w) \in PdfDocs THEN [ir EXCEPT ![v] = "building"] ELSE ir
    /\ Goto(w, "chunking")
    /\ UNCHANGED <<dbVars, uploads, idx, queue, req, faults>>

\* Mutant: the snapshot holds the pending document alone.
NothingElse(d) == FALSE
\* The rows build_corpus_snapshot selects: committed, READY, with this embedding.
Compatible(d) ==
  /\ doc[d].st = "ready" /\ doc[d].active # None
  /\ ver[doc[d].active].st = "ready" /\ ver[doc[d].active].embedded

\* build_corpus_snapshot: the files are moved to indexes/versions before the row exists.
Index(w) ==
  LET d == DocOf(w)
      v == wk[w].v
  IN  /\ wk[w].pc = "chunking"
      /\ wk' = [wk EXCEPT ![w] =
                 [@ EXCEPT !.pc = "activating", !.embedded = TRUE, !.built = TRUE,
                           !.docs = [x \in Docs |-> IF x = d THEN v
                                                    ELSE IF Compatible(x) THEN doc[x].active
                                                    ELSE None]]]
      /\ idx' = idx \cup {v}
      /\ UNCHANGED <<dbVars, uploads, ir, queue, req, faults>>

\* A PDF whose IR yields no chunk (only headers, footers, figures) has no snapshot.
SkipIndex(w) ==
  /\ wk[w].pc = "chunking" /\ DocOf(w) \in PdfDocs
  /\ Goto(w, "activating")
  /\ UNCHANGED <<dbVars, fsVars, queue, req, faults>>

\* IRArtifactManager.activate needs the staged directory; without it, see Fail.
ActivateArtifact(w) ==
  LET v == wk[w].v IN
    /\ wk[w].pc = "activating"
    /\ DocOf(w) \in PdfDocs => ir[v] = "building"
    /\ ir' = IF DocOf(w) \in PdfDocs THEN [ir EXCEPT ![v] = "versions"] ELSE ir
    /\ Goto(w, IF wk[w].built THEN "switching" ELSE "finalizing")
    /\ UNCHANGED <<dbVars, uploads, idx, queue, req, faults>>

\* activate_snapshot_record, the reads ...
ReadPointer(w) ==
  /\ wk[w].pc = "switching"
  /\ wk' = [wk EXCEPT ![w] =
             [@ EXCEPT !.pc = "pointing", !.oldSnap = pointer,
                       !.oldWasActive = pointer # None /\ snap[pointer].st = "active"]]
  /\ UNCHANGED <<dbVars, fsVars, queue, req, faults>>

\* ... and the flush, which waits for the system_state row.
SwitchPointer(w) ==
  /\ wk[w].pc = "pointing"
  /\ \A u \in Workers : wk[u].switched => wk[u].pc = "committed"
  /\ wk' = [wk EXCEPT ![w] = [@ EXCEPT !.pc = "finalizing", !.switched = TRUE]]
  /\ UNCHANGED <<dbVars, fsVars, queue, req, faults>>

\* Mutant: the statement that supersedes is not restricted to the document.
EveryReadyVersion(w) == {x \in Vers : ver[x].st = "ready"}
\* The version a successful run replaces, and the snapshot it replaces.
Superseded(w) == {wk[w].prior} \ {None}
\* Mutant: the snapshot that was active keeps its status.
NoSnapshot(w) == {}
Deactivated(w) == IF wk[w].switched /\ wk[w].oldWasActive THEN {wk[w].oldSnap} ELSE {}

\* The transaction of a successful run commits.
CommitIngest(w) ==
  LET d == DocOf(w)
      me == wk[w]
  IN  /\ me.pc = "finalizing"
      /\ doc' = [doc EXCEPT ![d] = [st |-> "ready", active |-> me.v]]
      /\ job' = [job EXCEPT ![me.job].st = "succeeded"]
      /\ ver' = [x \in Vers |->
                  IF x = me.v THEN [st |-> "ready", doc |-> d, embedded |-> me.embedded]
                  ELSE IF x \in Superseded(w) THEN [ver[x] EXCEPT !.st = "superseded"]
                  ELSE ver[x]]
      /\ snap' = [x \in Vers |->
                   IF ~me.built THEN snap[x]
                   ELSE IF x = me.v THEN [st |-> "active", docs |-> me.docs]
                   ELSE IF x \in Deactivated(w) THEN [snap[x] EXCEPT !.st = "superseded"]
                   ELSE snap[x]]
      /\ pointer' = IF me.built THEN me.v ELSE pointer
      /\ Goto(w, "committed")
      /\ UNCHANGED <<fsVars, queue, req, faults>>

\* A PipelineError or another exception reaches a handler: the IR directory goes
\* to tmp/failed.
Fail(w) ==
  LET v == wk[w].v IN
    /\ wk[w].pc \in {"parsing", "chunking", "activating", "switching", "finalizing"}
    /\ ir' = IF ir[v] \in {"building", "versions"} THEN [ir EXCEPT ![v] = "failed"] ELSE ir
    /\ Goto(w, "failing")
    /\ UNCHANGED <<dbVars, uploads, idx, queue, req, faults>>

\* _restore_prior_activation: what was read before the run is put back.  ORM: the
\* document's active version was not changed by the run, so nothing is written.
\* Mutant: the version read before the lock is written.
PriorVersion(w) == wk[w].prior
ActiveAfterFailure(w) == doc[DocOf(w)].active
\* Mutant: the pointer stays on the new snapshot.
KeptPointer(w) == IF wk[w].switched THEN wk[w].v ELSE pointer
PointerAfterFailure(w) == IF wk[w].switched THEN wk[w].oldSnap ELSE pointer
\* Mutant: the snapshot the pointer returns to stays superseded.
NotReactivated(w) == {}
Reactivated(w) == IF wk[w].switched THEN {wk[w].oldSnap} ELSE {}
\* Mutant: a first ingest that fails keeps the status it had flushed.
StatusKept(w) == IF wk[w].prior # None THEN "ready" ELSE "parsing"
StatusAfterFailure(w) == IF wk[w].prior # None THEN "ready" ELSE "failed"

\* The handler's rows commit: the new version and snapshot are FAILED.
CommitFailure(w) ==
  LET d == DocOf(w)
      me == wk[w]
  IN  /\ me.pc = "failing"
      /\ doc' = [doc EXCEPT ![d] = [st |-> StatusAfterFailure(w), active |-> ActiveAfterFailure(w)]]
      /\ job' = [job EXCEPT ![me.job].st = "failed"]
      /\ ver' = [x \in Vers |->
                  IF x = me.v THEN [st |-> "failed", doc |-> d, embedded |-> me.embedded]
                  ELSE IF x = me.prior THEN [ver[x] EXCEPT !.st = "ready"]
                  ELSE ver[x]]
      /\ snap' = [x \in Vers |->
                   IF me.built /\ x = me.v THEN [st |-> "failed", docs |-> me.docs]
                   ELSE IF x \in Reactivated(w) THEN [snap[x] EXCEPT !.st = "active"]
                   ELSE IF x \in Deactivated(w) THEN [snap[x] EXCEPT !.st = "superseded"]
                   ELSE snap[x]]
      /\ pointer' = PointerAfterFailure(w)
      /\ Goto(w, "committed")
      /\ UNCHANGED <<fsVars, queue, req, faults>>

-----------------------------------------------------------------------------
(* run_delete_cleanup *)

BeginDelete(w) ==
  /\ wk[w].pc = "loaded" /\ KindOf(w) = "delete_cleanup"
  /\ ~Locked(DocOf(w))
  /\ Goto(w, "cleaning")
  /\ UNCHANGED <<dbVars, fsVars, queue, req, faults>>

Artifacts(d) == {v \in Vers : ver[v].st # "absent" /\ ver[v].doc = d
                              /\ ir[v] \in {"building", "versions"}}
RemoveDirs(S) == ir' = [v \in Vers |-> IF v \in S THEN "removed" ELSE ir[v]]

\* Every version's directory is removed, then DELETED is flushed.
RemoveArtifacts(w) ==
  /\ wk[w].pc = "cleaning"
  /\ RemoveDirs(Artifacts(DocOf(w)))
  /\ wk' = [wk EXCEPT ![w] = [@ EXCEPT !.pc = "unlinking", !.retired = TRUE]]
  /\ UNCHANGED <<dbVars, uploads, idx, queue, req, faults>>

\* rmtree raises after some of the directories.
RemoveArtifactsFails(w) ==
  /\ wk[w].pc = "cleaning"
  /\ \E S \in SUBSET Artifacts(DocOf(w)) : RemoveDirs(S)
  /\ Goto(w, "undoing")
  /\ UNCHANGED <<dbVars, uploads, idx, queue, req, faults>>

\* A file that is already gone is no error.
Unlink(w) ==
  /\ wk[w].pc = "unlinking"
  /\ uploads' = uploads \ {DocOf(w)}
  /\ Goto(w, "removed")
  /\ UNCHANGED <<dbVars, ir, idx, queue, req, faults>>

UnlinkFails(w) ==
  /\ wk[w].pc = "unlinking"
  /\ Goto(w, "undoing")
  /\ UNCHANGED <<dbVars, fsVars, queue, req, faults>>

\* Mutant: the active version is not cleared.
ActiveKept(w) == doc[DocOf(w)].active
\* What the transaction leaves in active_document_version_id.
RetiredActive(w) ==
  IF wk[w].retired /\ wk[w].prior # None THEN None ELSE doc[DocOf(w)].active

CommitDelete(w) ==
  LET d == DocOf(w) IN
    /\ wk[w].pc = "removed"
    /\ doc' = [doc EXCEPT ![d] = [st |-> IF wk[w].st = "deleted" THEN @.st ELSE "deleted",
                                  active |-> RetiredActive(w)]]
    /\ job' = [job EXCEPT ![wk[w].job].st = "succeeded"]
    /\ Goto(w, "committed")
    /\ UNCHANGED <<ver, snap, pointer, fsVars, queue, req, faults>>

\* The document stays in deleting; active_document_version_id is not put back.
CommitDeleteFailure(w) ==
  LET d == DocOf(w)
      unwritten == ~wk[w].retired /\ wk[w].st = "deleting"
  IN  /\ wk[w].pc = "undoing"
      /\ doc' = [doc EXCEPT ![d] = [st |-> IF unwritten THEN @.st ELSE "deleting",
                                    active |-> RetiredActive(w)]]
      /\ job' = [job EXCEPT ![wk[w].job].st = "failed"]
      /\ Goto(w, "committed")
      /\ UNCHANGED <<ver, snap, pointer, fsVars, queue, req, faults>>

-----------------------------------------------------------------------------
(* The end of a run *)

\* arq deletes the message after the task has returned.
Ack(w) ==
  /\ wk[w].pc = "committed"
  /\ queue' = queue \ Own(w)
  /\ Rest(w, "idle")
  /\ UNCHANGED <<dbVars, fsVars, req, faults>>

\* job_timeout, or an exception no handler catches: the transaction rolls back
\* and arq does not deliver the message again.
Abort(w) ==
  /\ wk[w].pc \in BusyPcs \ {"committed"}
  /\ queue' = queue \ Own(w)
  /\ Rest(w, "idle")
  /\ Fault("abort")
  /\ UNCHANGED <<dbVars, fsVars, req>>

\* The process dies or is shut down: what is not committed rolls back, and the
\* message, if it was not deleted, is delivered again.
Crash(w) ==
  /\ wk[w].pc # "down"
  /\ Rest(w, "down")
  /\ Fault("crash")
  /\ UNCHANGED <<dbVars, fsVars, queue, req>>

-----------------------------------------------------------------------------
ApiStep(r) ==
  \/ Upload(r) \/ RequestReindex(r) \/ RequestDelete(r) \/ RetryJob(r)
  \/ CommitRequest(r) \/ Dispatch(r) \/ DispatchFails(r) \/ RequestFails(r)

IngestStep(w) ==
  \/ Begin(w) \/ Parse(w) \/ Index(w) \/ SkipIndex(w) \/ ActivateArtifact(w)
  \/ ReadPointer(w) \/ SwitchPointer(w) \/ CommitIngest(w) \/ Fail(w) \/ CommitFailure(w)

DeleteStep(w) ==
  \/ BeginDelete(w) \/ RemoveArtifacts(w) \/ RemoveArtifactsFails(w) \/ Unlink(w)
  \/ UnlinkFails(w) \/ CommitDelete(w) \/ CommitDeleteFailure(w)

WorkerStep(w) ==
  \/ Startup(w) \/ Take(w) \/ Discard(w) \/ ReadDocument(w)
  \/ IngestStep(w) \/ DeleteStep(w) \/ Ack(w)

Next ==
  \/ \E r \in Reqs : ApiStep(r)
  \/ \E w \in Workers : WorkerStep(w) \/ Abort(w) \/ Crash(w)

Spec == Init /\ [][Next]_vars

\* A worker process that is up keeps polling and running; an open request ends.
Fairness ==
  /\ \A w \in Workers : WF_vars(WorkerStep(w))
  /\ \A r \in Reqs : WF_vars(CommitRequest(r)) /\ WF_vars(Dispatch(r))

FairSpec == Spec /\ Fairness

-----------------------------------------------------------------------------
(* Properties, for any number of workers *)

\* Whatever a document serves is a READY version of that very document: the
\* pointer, the version rows and the failure handlers never disagree.
ActiveVersionReady ==
  \A d \in Docs : doc[d].active # None =>
    /\ ver[doc[d].active].st = "ready"
    /\ ver[doc[d].active].doc = d

\* The active snapshot's files are in place and its manifest names only versions
\* that were committed as good, never one of a run that rolled back or failed.
ActiveSnapshotLoadable ==
  pointer # None =>
    /\ pointer \in idx
    /\ \A d \in Docs : LET v == snap[pointer].docs[d] IN
         v # None => ver[v].st \in {"ready", "superseded"} /\ ver[v].doc = d

\* A version is published only while the file it was parsed from still exists:
\* no run overtakes the clean-up that removes the upload.
NoPublishAfterRemoval ==
  [][\A d \in Docs : doc'[d].active \notin {None, doc[d].active} => d \in uploads]_vars

\* The documents implement VersionRegister: a served version is never one that
\* was served before.
Register == INSTANCE VersionRegister
              WITH cur <- [d \in Docs |-> doc[d].active],
                   published <- {v \in Vers : ver[v].st \in {"ready", "superseded"}}
RefinesVersionRegister == Register!RegSpec

(* Properties of a deployment with one worker process *)

DeleteJobs(d) == {j \in Jobs : job[j].doc = d /\ job[j].kind = "delete_cleanup"}

\* Exactly the snapshot system_state points to is ACTIVE.
OneActiveSnapshot == \A s \in Vers : snap[s].st = "active" <=> pointer = s

\* The snapshot a run activates serves every document that is READY with
\* embedded chunks at that moment, at its active version.
NewSnapshotCoversReady ==
  [][pointer' # pointer =>
       \A d \in Docs : doc'[d].st = "ready" /\ doc'[d].active # None
                       /\ ver'[doc'[d].active].embedded
                       => snap'[pointer'].docs[d] = doc'[d].active]_vars

\* A run that fails leaves what is served as it was: every document's version,
\* the system pointer, and the status of the snapshot it points to.
FailureKeepsService ==
  [][(\E j \in Jobs : /\ job[j].kind \in {"ingest", "reindex"}
                      /\ job[j].st # "failed" /\ job'[j].st = "failed")
     => /\ pointer' = pointer
        /\ \A d \in Docs : doc'[d].active = doc[d].active
        /\ pointer # None => snap'[pointer] = snap[pointer]]_vars

\* Idempotence: a job that succeeded is not run again by a duplicate or late message.
SuccessIsFinal == [][\A j \in Jobs : job[j].st = "succeeded" => job'[j] = job[j]]_vars

\* Until somebody asks to delete it, a document keeps its file, the IR of the
\* version it serves, and that version is its only READY one.
ServedDataDurable ==
  \A d \in Docs : DeleteJobs(d) = {} /\ doc[d].st # "absent" =>
    /\ d \in uploads
    /\ doc[d].active # None /\ d \in PdfDocs => ir[doc[d].active] = "versions"
    /\ \A v \in Vers : ver[v].st = "ready" /\ ver[v].doc = d => v = doc[d].active

\* Once a clean-up has succeeded the document never serves a version again,
\* whatever ingest or retry still arrives.
DeleteIsFinal ==
  \A d \in Docs : (\E j \in DeleteJobs(d) : job[j].st = "succeeded") => doc[d].active = None

(* What the documentation says and the code does not do; refuted by a run *)

\* architecture.md section 4.3: a document that is READY with embedded chunks is
\* in the active snapshot, whatever happened to its reindex.
ReadyIsSearchable ==
  \A d \in Docs : doc[d].st = "ready" /\ doc[d].active # None /\ ver[doc[d].active].embedded
    => pointer # None /\ snap[pointer].docs[d] = doc[d].active

(* Liveness *)

\* Every committed job is eventually finished (reliable dispatch, fewer crashes
\* than tries, no timeouts).
EveryJobFinishes == \A j \in Jobs : job[j].st = "queued" ~> job[j].st \in {"succeeded", "failed"}
=============================================================================
