---------------------------- MODULE IngestionProofs ----------------------------
(***************************************************************************)
(* Proofs about Ingestion for any sets of documents, jobs, versions,       *)
(* workers and requests, and any bounds.                                   *)
(*                                                                         *)
(* The inductive invariant IInv says what a run knows of rows it has not   *)
(* locked: its version is uncommitted and its own until its commit, and    *)
(* what it read as the prior version stays published for its document.     *)
(* It does not use the advisory lock: ActiveVersionReady and the           *)
(* refinement of VersionRegister hold for any number of workers because of *)
(* what the transactions write, not because of who waits for whom.         *)
(***************************************************************************)
EXTENDS Ingestion, TLAPS

Published == {"ready", "superseded"}
Uncommitted == {"open", "sent"}

\* A committed job names a document and a kind.
JobRowsOK ==
  \A j \in Jobs : job[j].st # "absent" => job[j].doc \in Docs /\ job[j].kind \in JobKind

\* A request names rows; the job it will insert is not there yet.
RequestOK(q) ==
  q.pc # "idle" =>
    /\ q.job \in Jobs /\ q.doc \in Docs /\ q.kind \in JobKind
    /\ q.pc \in Uncommitted /\ q.insert => job[q.job].st = "absent"
RequestsOK == \A r \in Reqs : RequestOK(req[r])
InsertsDistinct ==
  \A r, q \in Reqs :
    /\ r # q
    /\ req[r].pc \in Uncommitted /\ req[r].insert
    /\ req[q].pc \in Uncommitted /\ req[q].insert
    => req[r].job # req[q].job

\* A busy worker runs a committed job; the version of its run is not committed; what
\* it read as the prior version was published for its document.
WorkerOK(m) ==
  m.pc \in BusyPcs =>
    /\ m.job \in Jobs /\ job[m.job].st # "absent"
    /\ m.pc \in IngestPcs => m.v \in Vers /\ ver[m.v].st = "absent"
    /\ m.prior # None => /\ m.prior \in Vers
                         /\ ver[m.prior].st \in Published
                         /\ ver[m.prior].doc = job[m.job].doc
WorkersOK == \A w \in Workers : WorkerOK(wk[w])

\* No two runs share a version.
RunsDistinct ==
  \A w, u \in Workers :
    w # u /\ wk[w].pc \in IngestPcs /\ wk[u].pc \in IngestPcs => wk[w].v # wk[u].v

IInv ==
  /\ TypeOK
  /\ JobRowsOK
  /\ RequestsOK
  /\ InsertsDistinct
  /\ WorkersOK
  /\ RunsDistinct
  /\ ActiveVersionReady

-----------------------------------------------------------------------------
(* Types *)

\* A resting worker and a worker that moves on are records of a worker.
LEMMA RestingTyped ==
  ASSUME NEW p \in {"down", "idle"} \cup BusyPcs
  PROVE  RestingWorker(p) \in Worker
  BY DEF RestingWorker, Worker, VersOrNone, EmptyManifest, Manifest

LEMMA PcTyped ==
  ASSUME NEW m \in Worker, NEW p \in {"down", "idle"} \cup BusyPcs
  PROVE  [m EXCEPT !.pc = p] \in Worker
  BY DEF Worker

LEMMA PcSets ==
  /\ IngestPcs \subseteq BusyPcs /\ DeletePcs \subseteq BusyPcs
  /\ {"taken", "loaded", "committed"} \subseteq BusyPcs
  /\ "committed" \notin IngestPcs /\ "down" \notin BusyPcs /\ "idle" \notin BusyPcs
  BY DEF BusyPcs, IngestPcs, DeletePcs

\* The document of a busy worker's job.
LEMMA DocOfBusy ==
  ASSUME IInv, NEW w \in Workers, wk[w].pc \in BusyPcs
  PROVE  DocOf(w) \in Docs /\ KindOf(w) \in JobKind /\ wk[w].job \in Jobs
  BY DEF IInv, WorkersOK, WorkerOK, JobRowsOK, DocOf, KindOf

FilesTyped ==
  /\ uploads \subseteq Docs /\ idx \subseteq Vers /\ ir \in [Vers -> IrPlace]
  /\ queue \subseteq Message /\ faults \in 0..MaxFaults

\* A worker record may be replaced by another worker record.
LEMMA WorkerTyped ==
  ASSUME TypeOK, NEW w \in Workers, NEW m \in Worker, wk' = [wk EXCEPT ![w] = m],
         UNCHANGED <<dbVars, req>>, FilesTyped'
  PROVE  TypeOK'
  BY DEF TypeOK, dbVars, FilesTyped

-----------------------------------------------------------------------------
(* Steps of a worker that change no row *)

\* Only the worker's own record matters to the invariant.
LEMMA WorkerMoves ==
  ASSUME IInv, TypeOK', NEW w \in Workers, NEW m \in Worker,
         wk' = [wk EXCEPT ![w] = m], UNCHANGED <<doc, job, ver, req>>,
         WorkerOK(m),
         m.pc \in IngestPcs =>
           \A u \in Workers \ {w} : wk[u].pc \in IngestPcs => wk[u].v # m.v
  PROVE  IInv'
<1>1. /\ wk'[w] = m
      /\ \A u \in Workers \ {w} : wk'[u] = wk[u]
  BY DEF IInv, TypeOK
<1>2. WorkersOK'
  BY <1>1 DEF IInv, WorkersOK, WorkerOK
<1>3. RunsDistinct'
  BY <1>1 DEF IInv, RunsDistinct
<1>4. (JobRowsOK /\ RequestsOK /\ InsertsDistinct /\ ActiveVersionReady)'
  BY DEF IInv, JobRowsOK, RequestsOK, RequestOK, InsertsDistinct, ActiveVersionReady
<1> QED
  BY <1>2, <1>3, <1>4 DEF IInv

\* A busy worker moves on with the same job, version and prior version; only its
\* record, files, messages and budgets change.
LEMMA KeepMoves ==
  ASSUME IInv, NEW w \in Workers, NEW m \in Worker, wk' = [wk EXCEPT ![w] = m],
         m.job = wk[w].job, m.v = wk[w].v, m.prior = wk[w].prior,
         wk[w].pc \in BusyPcs, m.pc \in IngestPcs => wk[w].pc \in IngestPcs,
         UNCHANGED <<dbVars, req>>, FilesTyped'
  PROVE  IInv'
<1>1. WorkerOK(m)
  BY DEF IInv, WorkersOK, WorkerOK
<1>2. m.pc \in IngestPcs => \A u \in Workers \ {w} : wk[u].pc \in IngestPcs => wk[u].v # m.v
  BY DEF IInv, RunsDistinct
<1>3. TypeOK'
  BY WorkerTyped DEF IInv
<1> QED
  BY <1>1, <1>2, <1>3, WorkerMoves DEF dbVars

LEMMA GotoMoves ==
  ASSUME IInv, NEW w \in Workers, NEW p \in BusyPcs, Goto(w, p),
         wk[w].pc \in BusyPcs, p \in IngestPcs => wk[w].pc \in IngestPcs,
         UNCHANGED <<dbVars, req>>, FilesTyped'
  PROVE  IInv'
<1> DEFINE m == [wk[w] EXCEPT !.pc = p]
<1>1. wk[w] \in Worker
  BY DEF IInv, TypeOK
<1>2. m \in Worker
  BY <1>1, PcTyped
<1>3. wk' = [wk EXCEPT ![w] = m]
  BY DEF Goto
<1>4. m.pc = p /\ m.job = wk[w].job /\ m.v = wk[w].v /\ m.prior = wk[w].prior
  BY <1>1 DEF Worker
<1> HIDE DEF m
<1> QED
  BY <1>2, <1>3, <1>4, KeepMoves

\* A worker goes idle or down; only files, messages and budgets change.
LEMMA RestMoves ==
  ASSUME IInv, NEW w \in Workers, NEW p \in {"down", "idle"}, Rest(w, p),
         UNCHANGED <<dbVars, req>>, FilesTyped'
  PROVE  IInv'
<1> DEFINE m == RestingWorker(p)
<1>1. m \in Worker
  BY RestingTyped
<1>2. wk' = [wk EXCEPT ![w] = m]
  BY DEF Rest
<1>3. m.pc = p
  BY DEF RestingWorker
<1>4. p \notin BusyPcs /\ p \notin IngestPcs
  BY DEF BusyPcs, IngestPcs, DeletePcs
<1>5. WorkerOK(m)
  BY <1>3, <1>4 DEF WorkerOK
<1>6. TypeOK'
  BY <1>1, <1>2, WorkerTyped DEF IInv
<1> HIDE DEF m
<1> QED
  BY <1>1, <1>2, <1>3, <1>4, <1>5, <1>6, WorkerMoves DEF dbVars

\* The files, messages and budgets of a state are typed, and what is taken from
\* the queue or added to a budget stays so.
LEMMA FilesTypedNow ==
  ASSUME IInv
  PROVE  FilesTyped
  BY DEF IInv, TypeOK, FilesTyped

LEMMA FaultTyped ==
  ASSUME IInv, NEW kind, Fault(kind)
  PROVE  faults' \in 0..MaxFaults
  BY ConstantsAssumption DEF IInv, TypeOK, Fault, ConstantsAssumption

LEMMA RestSteps ==
  ASSUME IInv, NEW w \in Workers, Startup(w) \/ Ack(w) \/ Abort(w) \/ Crash(w)
  PROVE  IInv'
<1>1. CASE Startup(w)
  <2>1. ir' \in [Vers -> IrPlace]
    BY <1>1 DEF Startup, IInv, TypeOK, IrPlace
  <2> QED
    BY <1>1, <2>1, FilesTypedNow, RestMoves DEF Startup, FilesTyped
<1>2. CASE Ack(w)
  BY <1>2, FilesTypedNow, RestMoves DEF Ack, FilesTyped, fsVars
<1>3. CASE Abort(w)
  BY <1>3, FilesTypedNow, FaultTyped, RestMoves DEF Abort, FilesTyped, fsVars
<1>4. CASE Crash(w)
  BY <1>4, FilesTypedNow, FaultTyped, RestMoves DEF Crash, FilesTyped, fsVars
<1> QED
  BY <1>1, <1>2, <1>3, <1>4

LEMMA GotoSteps ==
  ASSUME IInv, NEW w \in Workers,
         \/ Parse(w) \/ SkipIndex(w) \/ ActivateArtifact(w) \/ Fail(w)
         \/ BeginDelete(w) \/ RemoveArtifactsFails(w) \/ Unlink(w) \/ UnlinkFails(w)
  PROVE  IInv'
<1>. USE FilesTypedNow, GotoMoves DEF FilesTyped, fsVars, BusyPcs, IngestPcs, DeletePcs
<1>0. ir \in [Vers -> IrPlace]
  BY DEF IInv, TypeOK
<1>1. CASE Parse(w)
  <2>1. ir' \in [Vers -> IrPlace]
    BY <1>0, <1>1 DEF Parse, IrPlace
  <2> QED
    BY <1>1, <2>1 DEF Parse
<1>2. CASE SkipIndex(w)
  BY <1>2 DEF SkipIndex
<1>3. CASE ActivateArtifact(w)
  <2>1. ir' \in [Vers -> IrPlace]
    BY <1>0, <1>3 DEF ActivateArtifact, IrPlace
  <2> QED
    BY <1>3, <2>1 DEF ActivateArtifact
<1>4. CASE Fail(w)
  <2>1. ir' \in [Vers -> IrPlace]
    BY <1>0, <1>4 DEF Fail, IrPlace
  <2> QED
    BY <1>4, <2>1 DEF Fail
<1>5. CASE BeginDelete(w)
  BY <1>5 DEF BeginDelete
<1>6. CASE RemoveArtifactsFails(w)
  <2>1. ir' \in [Vers -> IrPlace]
    BY <1>0, <1>6 DEF RemoveArtifactsFails, RemoveDirs, IrPlace
  <2> QED
    BY <1>6, <2>1 DEF RemoveArtifactsFails
<1>7. CASE Unlink(w)
  BY <1>7 DEF Unlink
<1>8. CASE UnlinkFails(w)
  BY <1>8 DEF UnlinkFails
<1> QED
  BY <1>1, <1>2, <1>3, <1>4, <1>5, <1>6, <1>7, <1>8

\* A message is taken and the job row, not the document, is read.
LEMMA TakeStep ==
  ASSUME IInv, NEW w \in Workers, Take(w)
  PROVE  IInv'
<1>1. PICK msg \in queue :
        /\ msg.tries # MaxTries
        /\ Runnable(msg.job)
        /\ queue' = (queue \ {msg}) \cup {[msg EXCEPT !.tries = @ + 1]}
        /\ wk' = [wk EXCEPT ![w] = [RestingWorker("taken") EXCEPT !.job = msg.job, !.copy = msg.copy]]
        /\ UNCHANGED <<dbVars, fsVars, req, faults>>
  BY DEF Take, Exhausted
<1> DEFINE m == [RestingWorker("taken") EXCEPT !.job = msg.job, !.copy = msg.copy]
<1>2. msg \in Message
  BY DEF IInv, TypeOK
<1>3. RestingWorker("taken") \in Worker
  BY RestingTyped DEF BusyPcs
<1>4. m \in Worker
  BY <1>2, <1>3 DEF Worker, Message
<1>5. m.pc = "taken" /\ m.job = msg.job /\ m.prior = None
  BY DEF RestingWorker
<1>6. WorkerOK(m)
  BY <1>1, <1>2, <1>5 DEF WorkerOK, Runnable, Message, IngestPcs
<1>7. [msg EXCEPT !.tries = @ + 1] \in Message
  BY <1>1, <1>2, ConstantsAssumption DEF Message
<1>8. FilesTyped'
  BY <1>1, <1>7, FilesTypedNow DEF FilesTyped, fsVars
<1>9. TypeOK'
  BY <1>1, <1>4, <1>8, WorkerTyped DEF IInv
<1>10. m.pc \notin IngestPcs
  BY <1>5 DEF IngestPcs
<1> HIDE DEF m
<1> QED
  BY <1>1, <1>4, <1>6, <1>9, <1>10, WorkerMoves DEF dbVars, m

LEMMA DiscardStep ==
  ASSUME IInv, NEW w \in Workers, Discard(w)
  PROVE  IInv'
<1>1. queue' \subseteq queue /\ UNCHANGED <<dbVars, fsVars, req, wk, faults>>
  BY DEF Discard
<1> QED
  BY <1>1 DEF IInv, TypeOK, JobRowsOK, RequestsOK, RequestOK, InsertsDistinct, WorkersOK,
              WorkerOK, RunsDistinct, ActiveVersionReady, dbVars, fsVars

\* The prior version is what the document serves when it is read.
LEMMA ReadDocumentStep ==
  ASSUME IInv, NEW w \in Workers, ReadDocument(w)
  PROVE  IInv'
<1> DEFINE d == DocOf(w)
           m == [wk[w] EXCEPT !.pc = "loaded", !.st = doc[d].st, !.prior = doc[d].active]
<1>0. wk[w] \in Worker /\ wk[w].pc \in BusyPcs /\ doc \in [Docs -> DocRow]
  BY DEF IInv, TypeOK, ReadDocument, BusyPcs
<1>1. d \in Docs
  BY <1>0, DocOfBusy
<1>2. doc[d].st \in DocStatus /\ doc[d].active \in VersOrNone
  BY <1>0, <1>1 DEF DocRow
<1>3. m \in Worker
  BY <1>0, <1>2 DEF Worker, BusyPcs
<1>4. wk' = [wk EXCEPT ![w] = m]
  BY DEF ReadDocument
<1>5. m.pc = "loaded" /\ m.job = wk[w].job /\ m.prior = doc[d].active
  BY <1>0 DEF Worker
<1>6. wk[w].job \in Jobs /\ job[wk[w].job].st # "absent"
  BY <1>0 DEF IInv, WorkersOK, WorkerOK
<1>7. m.prior # None => /\ m.prior \in Vers
                        /\ ver[m.prior].st \in Published
                        /\ ver[m.prior].doc = job[m.job].doc
  BY <1>1, <1>2, <1>5 DEF IInv, ActiveVersionReady, Published, DocOf, VersOrNone
<1>8. m.pc \notin IngestPcs
  BY <1>5 DEF IngestPcs
<1>9. WorkerOK(m)
  BY <1>5, <1>6, <1>7, <1>8 DEF WorkerOK
<1>10. TypeOK'
  BY <1>3, <1>4, FilesTypedNow, WorkerTyped DEF ReadDocument, IInv, FilesTyped, fsVars
<1> HIDE DEF m
<1> QED
  BY <1>3, <1>4, <1>8, <1>9, <1>10, WorkerMoves DEF ReadDocument, dbVars

\* The run draws a version nobody else has.
LEMMA BeginStep ==
  ASSUME IInv, NEW w \in Workers, Begin(w)
  PROVE  IInv'
<1>1. PICK v \in FreshVers : wk' = [wk EXCEPT ![w] = [@ EXCEPT !.pc = "parsing", !.v = v]]
  BY DEF Begin
<1> DEFINE m == [wk[w] EXCEPT !.pc = "parsing", !.v = v]
<1>2. wk[w] \in Worker /\ wk[w].pc \in BusyPcs
  BY DEF IInv, TypeOK, Begin, BusyPcs
<1>3. v \in Vers /\ ver[v].st = "absent" /\ \A u \in Workers : wk[u].v # v
  BY DEF FreshVers
<1>4. m \in Worker
  BY <1>2, <1>3 DEF Worker, BusyPcs, IngestPcs, VersOrNone
<1>5. wk' = [wk EXCEPT ![w] = m]
  BY <1>1
<1>6. m.pc = "parsing" /\ m.v = v /\ m.job = wk[w].job /\ m.prior = wk[w].prior
  BY <1>2 DEF Worker
<1>7. WorkerOK(m)
  BY <1>2, <1>3, <1>6 DEF IInv, WorkersOK, WorkerOK
<1>8. TypeOK'
  BY <1>4, <1>5, FilesTypedNow, WorkerTyped DEF Begin, IInv, FilesTyped, fsVars
<1> HIDE DEF m
<1> QED
  BY <1>3, <1>4, <1>5, <1>6, <1>7, <1>8, WorkerMoves DEF Begin, dbVars

\* The manifest names the run's version and versions that documents serve.
LEMMA IndexStep ==
  ASSUME IInv, NEW w \in Workers, Index(w)
  PROVE  IInv'
<1> DEFINE docs == [x \in Docs |-> IF x = DocOf(w) THEN wk[w].v
                                   ELSE IF Compatible(x) THEN doc[x].active ELSE None]
           m == [wk[w] EXCEPT !.pc = "activating", !.embedded = TRUE, !.built = TRUE, !.docs = docs]
<1>1. wk[w] \in Worker /\ wk[w].pc \in IngestPcs /\ wk[w].pc \in BusyPcs
  BY DEF IInv, TypeOK, Index, BusyPcs, IngestPcs
<1>2. wk[w].v \in Vers /\ \A x \in Docs : doc[x].active \in VersOrNone
  BY <1>1 DEF IInv, TypeOK, WorkersOK, WorkerOK, DocRow
<1>3. docs \in Manifest
  BY <1>2 DEF Manifest, VersOrNone
<1> HIDE DEF docs
<1>4. m \in Worker
  BY <1>1, <1>3 DEF Worker, BusyPcs, IngestPcs
<1>5. wk' = [wk EXCEPT ![w] = m]
  BY DEF Index, docs
<1>6. m.job = wk[w].job /\ m.v = wk[w].v /\ m.prior = wk[w].prior
  BY <1>1 DEF Worker
<1>7. FilesTyped'
  BY <1>2, FilesTypedNow DEF Index, FilesTyped
<1> HIDE DEF m
<1> QED
  BY <1>1, <1>4, <1>5, <1>6, <1>7, KeepMoves DEF Index

LEMMA PointerSteps ==
  ASSUME IInv, NEW w \in Workers, ReadPointer(w) \/ SwitchPointer(w)
  PROVE  IInv'
<1>1. wk[w] \in Worker /\ wk[w].pc \in IngestPcs /\ wk[w].pc \in BusyPcs /\ pointer \in VersOrNone
  BY DEF IInv, TypeOK, ReadPointer, SwitchPointer, BusyPcs, IngestPcs
<1>2. CASE ReadPointer(w)
  <2> DEFINE active == pointer # None /\ snap[pointer].st = "active"
             m == [wk[w] EXCEPT !.pc = "pointing", !.oldSnap = pointer, !.oldWasActive = active]
  <2>1. active \in BOOLEAN
    OBVIOUS
  <2> HIDE DEF active
  <2>2. m \in Worker
    BY <1>1, <2>1 DEF Worker, BusyPcs, IngestPcs
  <2>3. wk' = [wk EXCEPT ![w] = m]
    BY <1>2 DEF ReadPointer, active
  <2>4. m.job = wk[w].job /\ m.v = wk[w].v /\ m.prior = wk[w].prior
    BY <1>1 DEF Worker
  <2> HIDE DEF m
  <2> QED
    BY <1>1, <1>2, <2>2, <2>3, <2>4, KeepMoves, FilesTypedNow DEF ReadPointer, FilesTyped, fsVars
<1>3. CASE SwitchPointer(w)
  <2> DEFINE m == [wk[w] EXCEPT !.pc = "finalizing", !.switched = TRUE]
  <2>1. m \in Worker
    BY <1>1 DEF Worker, BusyPcs, IngestPcs
  <2>2. wk' = [wk EXCEPT ![w] = m]
    BY <1>3 DEF SwitchPointer
  <2>3. m.job = wk[w].job /\ m.v = wk[w].v /\ m.prior = wk[w].prior
    BY <1>1 DEF Worker
  <2> HIDE DEF m
  <2> QED
    BY <1>1, <1>3, <2>1, <2>2, <2>3, KeepMoves, FilesTypedNow DEF SwitchPointer, FilesTyped, fsVars
<1> QED
  BY <1>2, <1>3

LEMMA RemoveArtifactsStep ==
  ASSUME IInv, NEW w \in Workers, RemoveArtifacts(w)
  PROVE  IInv'
<1> DEFINE m == [wk[w] EXCEPT !.pc = "unlinking", !.retired = TRUE]
<1>1. wk[w] \in Worker /\ wk[w].pc \in BusyPcs /\ ir \in [Vers -> IrPlace]
  BY DEF IInv, TypeOK, RemoveArtifacts, BusyPcs, DeletePcs
<1>2. m \in Worker
  BY <1>1 DEF Worker, BusyPcs, DeletePcs
<1>3. wk' = [wk EXCEPT ![w] = m]
  BY DEF RemoveArtifacts
<1>4. m.pc = "unlinking" /\ m.job = wk[w].job /\ m.v = wk[w].v /\ m.prior = wk[w].prior
  BY <1>1 DEF Worker
<1>5. ir' \in [Vers -> IrPlace]
  BY <1>1 DEF RemoveArtifacts, RemoveDirs, IrPlace
<1>6. FilesTyped'
  BY <1>5, FilesTypedNow DEF RemoveArtifacts, FilesTyped
<1>7. m.pc \notin IngestPcs
  BY <1>4 DEF IngestPcs
<1> HIDE DEF m
<1> QED
  BY <1>1, <1>2, <1>3, <1>4, <1>6, <1>7, KeepMoves DEF RemoveArtifacts

-----------------------------------------------------------------------------
(* Steps of a request *)

\* Only the request's own record, files, messages and budgets change.
LEMMA RequestMoves ==
  ASSUME IInv, NEW r \in Reqs, NEW q \in Request, req' = [req EXCEPT ![r] = q],
         UNCHANGED <<dbVars, wk>>, FilesTyped',
         RequestOK(q),
         q.pc \in Uncommitted /\ q.insert =>
           \A o \in Reqs \ {r} : req[o].pc \in Uncommitted /\ req[o].insert => req[o].job # q.job
  PROVE  IInv'
<1>1. TypeOK'
  BY DEF IInv, TypeOK, dbVars, FilesTyped
<1>2. req'[r] = q /\ \A o \in Reqs \ {r} : req'[o] = req[o]
  BY DEF IInv, TypeOK
<1>3. RequestsOK'
  BY <1>2 DEF IInv, RequestsOK, RequestOK, dbVars
<1>4. InsertsDistinct'
  BY <1>2 DEF IInv, InsertsDistinct
<1>5. (JobRowsOK /\ WorkersOK /\ RunsDistinct /\ ActiveVersionReady)'
  BY DEF IInv, JobRowsOK, WorkersOK, WorkerOK, RunsDistinct, ActiveVersionReady, dbVars
<1> QED
  BY <1>1, <1>3, <1>4, <1>5 DEF IInv

LEMMA OpenMoves ==
  ASSUME IInv, NEW r \in Reqs, NEW j \in Jobs, NEW d \in Docs, NEW k \in JobKind,
         NEW i \in BOOLEAN, NEW s \in DocStatus \cup {None}, OpenRequest(r, j, d, k, i, s),
         i => j \in FreshJobs, UNCHANGED <<dbVars, wk>>, FilesTyped'
  PROVE  IInv'
<1> DEFINE q == [pc |-> "open", job |-> j, doc |-> d, kind |-> k, insert |-> i, write |-> s]
<1>1. q \in Request
  BY DEF Request
<1>2. req' = [req EXCEPT ![r] = q]
  BY DEF OpenRequest
<1>3. q.job = j /\ q.doc = d /\ q.kind = k /\ q.insert = i
  OBVIOUS
<1>4. RequestOK(q)
  BY <1>3 DEF RequestOK, FreshJobs
<1>5. q.insert => \A o \in Reqs : req[o].job # q.job
  BY <1>3 DEF FreshJobs
<1> HIDE DEF q
<1> QED
  BY <1>1, <1>2, <1>4, <1>5, RequestMoves

LEMMA IdleTyped == IdleRequest \in Request /\ IdleRequest.pc = "idle"
  BY DEF IdleRequest, Request

\* A request is over.
LEMMA IdleMoves ==
  ASSUME IInv, NEW r \in Reqs, req' = [req EXCEPT ![r] = IdleRequest],
         UNCHANGED <<dbVars, wk>>, FilesTyped'
  PROVE  IInv'
  BY IdleTyped, RequestMoves DEF RequestOK, Uncommitted

LEMMA OpenSteps ==
  ASSUME IInv, NEW r \in Reqs,
         Upload(r) \/ RequestReindex(r) \/ RequestDelete(r) \/ RetryJob(r)
  PROVE  IInv'
<1>. USE FilesTypedNow DEF FilesTyped, fsVars
<1>0. /\ \A d \in Docs : doc[d].st \in DocStatus
      /\ \A d \in Docs : \A s \in DocStatus : StatusWrite(doc[d].st, s) \in DocStatus \cup {None}
      /\ FreshJobs \subseteq Jobs /\ FreshDocs \subseteq Docs
      /\ {"queued", "deleting"} \subseteq DocStatus
      /\ {"ingest", "reindex", "delete_cleanup"} \subseteq JobKind
  BY DEF IInv, TypeOK, DocRow, StatusWrite, FreshJobs, FreshDocs, DocStatus, JobKind
<1>1. CASE Upload(r)
  BY <1>0, <1>1, OpenMoves DEF Upload
<1>2. CASE RequestReindex(r)
  BY <1>0, <1>2, OpenMoves DEF RequestReindex
<1>3. CASE RequestDelete(r)
  <2>1. PICK d \in Docs :
          \/ \E j \in ActiveJobs(d, {"delete_cleanup"}) : OpenRequest(r, j, d, "delete_cleanup", FALSE, None)
          \/ \E j \in FreshJobs :
               OpenRequest(r, j, d, "delete_cleanup", TRUE, StatusWrite(doc[d].st, "deleting"))
    BY <1>3 DEF RequestDelete
  <2>2. UNCHANGED <<dbVars, fsVars, queue, wk, faults>>
    BY <1>3 DEF RequestDelete
  <2> QED
    BY <1>0, <2>1, <2>2, OpenMoves DEF ActiveJobs
<1>4. CASE RetryJob(r)
  <2>1. PICK old \in Jobs, j \in FreshJobs :
          /\ job[old].st = "failed"
          /\ OpenRequest(r, j, job[old].doc, job[old].kind, TRUE,
               IF doc[job[old].doc].st = "deleted" THEN None
               ELSE StatusWrite(doc[job[old].doc].st, "queued"))
    BY <1>4 DEF RetryJob
  <2>2. UNCHANGED <<dbVars, fsVars, queue, wk, faults>>
    BY <1>4 DEF RetryJob
  <2>3. job[old].doc \in Docs /\ job[old].kind \in JobKind
    BY <2>1 DEF IInv, JobRowsOK
  <2> QED
    BY <1>0, <2>1, <2>2, <2>3, OpenMoves
<1> QED
  BY <1>1, <1>2, <1>3, <1>4

LEMMA DispatchSteps ==
  ASSUME IInv, NEW r \in Reqs, Dispatch(r) \/ DispatchFails(r) \/ RequestFails(r)
  PROVE  IInv'
<1>. USE FilesTypedNow DEF FilesTyped, fsVars
<1>1. req[r] \in Request /\ (req[r].pc # "idle" => req[r].job \in Jobs)
  BY DEF IInv, TypeOK, RequestsOK, RequestOK
<1>2. ASSUME Dispatched(r), UNCHANGED <<dbVars, wk>>, FilesTyped'
      PROVE  IInv'
  <2>1. CASE req' = [req EXCEPT ![r] = IdleRequest]
    BY <1>2, <2>1, IdleMoves
  <2>2. CASE req[r].pc = "open" /\ req' = [req EXCEPT ![r].pc = "sent"]
    <3> DEFINE q == [req[r] EXCEPT !.pc = "sent"]
    <3>1. q \in Request
      BY <1>1 DEF Request
    <3>2. q.pc = "sent" /\ q.job = req[r].job /\ q.doc = req[r].doc /\ q.kind = req[r].kind
          /\ q.insert = req[r].insert
      BY <1>1 DEF Request
    <3>3. RequestOK(q)
      BY <2>2, <3>2 DEF IInv, RequestsOK, RequestOK, Uncommitted
    <3>4. q.insert =>
            \A o \in Reqs \ {r} : req[o].pc \in Uncommitted /\ req[o].insert => req[o].job # q.job
      BY <2>2, <3>2 DEF IInv, InsertsDistinct, Uncommitted
    <3>5. req' = [req EXCEPT ![r] = q]
      BY <2>2
    <3> HIDE DEF q
    <3> QED
      BY <1>2, <3>1, <3>3, <3>4, <3>5, RequestMoves
  <2> QED
    BY <1>2, <2>1, <2>2 DEF Dispatched
<1>3. CASE Dispatch(r)
  <2>1. PICK c \in Copies : queue' = queue \cup {[job |-> req[r].job, copy |-> c, tries |-> 0]}
    BY <1>3 DEF Dispatch
  <2>2. req[r].job \in Jobs
    BY <1>1, <1>3 DEF Dispatch, Dispatched
  <2>3. queue' \subseteq Message
    BY <2>1, <2>2, ConstantsAssumption DEF Message
  <2> QED
    BY <1>2, <1>3, <2>3 DEF Dispatch
<1>4. CASE DispatchFails(r)
  BY <1>2, <1>4, FaultTyped DEF DispatchFails
<1>5. CASE RequestFails(r)
  BY <1>5, IdleMoves, FaultTyped DEF RequestFails
<1> QED
  BY <1>3, <1>4, <1>5

-----------------------------------------------------------------------------
(* Commits *)

\* A request's commit inserts its job and writes a status, never an active version.
LEMMA CommitRequestStep ==
  ASSUME IInv, NEW r \in Reqs, CommitRequest(r)
  PROVE  IInv'
<1> DEFINE q == req[r]
           row == [st |-> "queued", doc |-> q.doc, kind |-> q.kind]
<1>1. /\ q \in Request /\ q.pc \in Uncommitted
      /\ q.job \in Jobs /\ q.doc \in Docs /\ q.kind \in JobKind
      /\ q.insert => job[q.job].st = "absent"
  BY DEF IInv, TypeOK, RequestsOK, RequestOK, CommitRequest, Uncommitted
<1>2. job' = IF q.insert THEN [job EXCEPT ![q.job] = row] ELSE job
  BY DEF CommitRequest
<1>3. row \in JobRow /\ row.st = "queued" /\ row.doc \in Docs /\ row.kind \in JobKind
  BY <1>1 DEF JobRow, JobStatus
<1> HIDE DEF row
<1>4. job' \in [Jobs -> JobRow]
  BY <1>1, <1>2, <1>3 DEF IInv, TypeOK
<1>5. \A j \in Jobs : job[j].st # "absent" => job'[j] = job[j]
  BY <1>1, <1>2 DEF IInv, TypeOK
<1>6. /\ doc' \in [Docs -> DocRow]
      /\ \A d \in Docs : doc'[d].active = doc[d].active
  <2>1. CASE q.write = None
    BY <2>1 DEF CommitRequest, IInv, TypeOK
  <2>2. CASE q.write # None
    <3>1. q.write \in DocStatus
      BY <1>1, <2>2 DEF Request
    <3>2. doc' = [doc EXCEPT ![q.doc].st = q.write]
      BY <2>2 DEF CommitRequest
    <3> QED
      BY <1>1, <3>1, <3>2 DEF IInv, TypeOK, DocRow
  <2> QED
    BY <2>1, <2>2
<1>7. PICK n \in Request : /\ req' = [req EXCEPT ![r] = n]
                           /\ n.pc \in {"idle", "committed"}
                           /\ n.pc # "idle" => n.job = q.job /\ n.doc = q.doc /\ n.kind = q.kind
  <2>1. CASE q.pc = "sent"
    BY <2>1, IdleTyped DEF CommitRequest
  <2>2. CASE q.pc # "sent"
    <3>1. req' = [req EXCEPT ![r] = [q EXCEPT !.pc = "committed"]]
      BY <2>2 DEF CommitRequest
    <3>2. [q EXCEPT !.pc = "committed"] \in Request
      BY <1>1 DEF Request
    <3> QED
      BY <1>1, <3>1, <3>2 DEF Request
  <2> QED
    BY <2>1, <2>2
<1> HIDE DEF q
<1>8. req'[r] = n /\ \A o \in Reqs \ {r} : req'[o] = req[o]
  BY <1>7 DEF IInv, TypeOK
<1>9. TypeOK'
  BY <1>4, <1>6, <1>7 DEF IInv, TypeOK, CommitRequest, fsVars
<1>10. JobRowsOK'
  BY <1>1, <1>2, <1>3 DEF IInv, TypeOK, JobRowsOK
<1>11. RequestsOK'
  <2> SUFFICES ASSUME NEW o \in Reqs PROVE RequestOK(req[o])'
    BY DEF RequestsOK
  <2>1. CASE o = r
    BY <1>1, <1>7, <1>8, <2>1 DEF RequestOK, Uncommitted
  <2>2. CASE o # r
    <3>1. RequestOK(req[o]) /\ req'[o] = req[o]
      BY <1>8, <2>2 DEF IInv, RequestsOK
    <3>2. req[o].pc \in Uncommitted /\ req[o].insert /\ q.insert => req[o].job # q.job
      BY <1>1, <2>2 DEF IInv, InsertsDistinct, q
    <3>3. req[o].pc \in Uncommitted /\ req[o].insert => job'[req[o].job].st = "absent"
      BY <1>1, <1>2, <3>1, <3>2 DEF RequestOK, Uncommitted, IInv, TypeOK
    <3> QED
      BY <3>1, <3>3 DEF RequestOK
  <2> QED
    BY <2>1, <2>2
<1>12. InsertsDistinct'
  BY <1>7, <1>8 DEF IInv, InsertsDistinct, Uncommitted
<1>13. WorkersOK'
  BY <1>5 DEF IInv, WorkersOK, WorkerOK, CommitRequest
<1>14. (RunsDistinct /\ ActiveVersionReady)'
  BY <1>6 DEF IInv, RunsDistinct, ActiveVersionReady, CommitRequest
<1> QED
  BY <1>9, <1>10, <1>11, <1>12, <1>13, <1>14 DEF IInv

\* What every commit of a run does: it settles its job, gives a status to its own
\* version, keeps every published version published for its document, and serves
\* nothing, what was served, or its own version once it is READY.
RunCommits(w) ==
  LET d == DocOf(w)
      me == wk[w]
  IN  /\ \E s \in JobStatus \ {"absent"} : job' = [job EXCEPT ![me.job].st = s]
      /\ ver' \in [Vers -> VersionRow]
      /\ \A x \in Vers : ver[x].st \in Published => /\ ver'[x].st \in Published
                                                    /\ ver'[x].doc = ver[x].doc
      /\ \A x \in Vers : ver[x].st = "absent" /\ x # me.v => ver'[x].st = "absent"
      /\ \E s \in DocStatus, a \in VersOrNone : doc' = [doc EXCEPT ![d] = [st |-> s, active |-> a]]
      /\ \A e \in Docs : doc'[e].active # None =>
           ver'[doc'[e].active].st = "ready" /\ ver'[doc'[e].active].doc = e
      /\ me.pc \notin IngestPcs => ver' = ver
      /\ snap' \in [Vers -> SnapshotRow] /\ pointer' \in VersOrNone
      /\ Goto(w, "committed")
      /\ UNCHANGED <<fsVars, queue, req, faults>>

LEMMA RunCommitsInductive ==
  ASSUME IInv, NEW w \in Workers, wk[w].pc \in BusyPcs, RunCommits(w)
  PROVE  IInv'
<1> DEFINE me == wk[w]
           m == [me EXCEPT !.pc = "committed"]
<1>1. me \in Worker /\ DocOf(w) \in Docs /\ me.job \in Jobs /\ job[me.job].st # "absent"
  BY DocOfBusy DEF IInv, TypeOK, WorkersOK, WorkerOK
<1>2. m \in Worker
  BY <1>1, PcTyped, PcSets
<1>3. m.pc = "committed" /\ m.job = me.job /\ m.prior = me.prior
  BY <1>1 DEF Worker
<1>4. wk'[w] = m /\ \A u \in Workers \ {w} : wk'[u] = wk[u]
  BY DEF RunCommits, Goto, IInv, TypeOK
<1>5. wk' \in [Workers -> Worker]
  BY <1>2 DEF RunCommits, Goto, IInv, TypeOK
<1>6. job \in [Jobs -> JobRow] /\ doc \in [Docs -> DocRow] /\ ver \in [Vers -> VersionRow]
  BY DEF IInv, TypeOK
<1>7. /\ job' \in [Jobs -> JobRow]
      /\ \A j \in Jobs : job'[j].doc = job[j].doc /\ job'[j].kind = job[j].kind
      /\ \A j \in Jobs : job'[j].st = "absent" <=> job[j].st = "absent"
  <2>1. PICK s \in JobStatus \ {"absent"} : job' = [job EXCEPT ![me.job].st = s]
    BY DEF RunCommits
  <2> QED
    BY <1>1, <1>6, <2>1 DEF JobRow
<1>8. doc' \in [Docs -> DocRow]
  BY <1>1, <1>6 DEF RunCommits, DocRow
<1>9. TypeOK'
  BY <1>5, <1>7, <1>8 DEF IInv, TypeOK, RunCommits, fsVars
<1>10. JobRowsOK'
  BY <1>7 DEF IInv, JobRowsOK
<1>11. (RequestsOK /\ InsertsDistinct)'
  BY <1>7 DEF IInv, RequestsOK, RequestOK, InsertsDistinct, RunCommits
<1> HIDE DEF m
<1>12. RunsDistinct'
  BY <1>3, <1>4, PcSets DEF IInv, RunsDistinct
<1>13. ActiveVersionReady'
  BY DEF ActiveVersionReady, RunCommits
<1>14. WorkersOK'
  <2> SUFFICES ASSUME NEW u \in Workers, wk'[u].pc \in BusyPcs PROVE WorkerOK(wk[u])'
    BY DEF WorkersOK, WorkerOK
  <2>1. WorkerOK(wk[u]) /\ wk[u].pc \in BusyPcs /\ wk'[u].job = wk[u].job
        /\ wk'[u].prior = wk[u].prior
    BY <1>3, <1>4 DEF IInv, WorkersOK
  <2>2. wk'[u].job \in Jobs /\ job'[wk'[u].job].st # "absent"
    BY <1>7, <2>1 DEF WorkerOK
  <2>3. wk'[u].pc \in IngestPcs => wk'[u].v \in Vers /\ ver'[wk'[u].v].st = "absent"
    <3> SUFFICES ASSUME wk'[u].pc \in IngestPcs PROVE wk'[u].v \in Vers /\ ver'[wk'[u].v].st = "absent"
      OBVIOUS
    <3>1. u # w /\ wk'[u] = wk[u]
      BY <1>3, <1>4, PcSets
    <3>2. wk[u].v \in Vers /\ ver[wk[u].v].st = "absent"
      BY <2>1, <3>1 DEF WorkerOK
    <3>3. CASE me.pc \in IngestPcs
      BY <3>1, <3>2, <3>3 DEF IInv, RunsDistinct, RunCommits
    <3>4. CASE me.pc \notin IngestPcs
      BY <3>1, <3>2, <3>4 DEF RunCommits
    <3> QED
      BY <3>3, <3>4
  <2>4. wk'[u].prior # None => /\ wk'[u].prior \in Vers
                               /\ ver'[wk'[u].prior].st \in Published
                               /\ ver'[wk'[u].prior].doc = job'[wk'[u].job].doc
    BY <1>7, <2>1 DEF WorkerOK, RunCommits
  <2> QED
    BY <2>2, <2>3, <2>4 DEF WorkerOK
<1> QED
  BY <1>9, <1>10, <1>11, <1>12, <1>13, <1>14 DEF IInv

\* Facts every commit starts from.
LEMMA AtCommit ==
  ASSUME IInv, NEW w \in Workers, wk[w].pc \in IngestPcs \cup DeletePcs
  PROVE  /\ wk[w].pc \in BusyPcs
         /\ wk[w] \in Worker /\ DocOf(w) \in Docs
         /\ doc \in [Docs -> DocRow] /\ ver \in [Vers -> VersionRow]
         /\ snap \in [Vers -> SnapshotRow] /\ pointer \in VersOrNone
         /\ wk[w].prior # None => /\ wk[w].prior \in Vers
                                  /\ ver[wk[w].prior].st \in Published
                                  /\ ver[wk[w].prior].doc = DocOf(w)
         /\ wk[w].pc \in IngestPcs => wk[w].v \in Vers /\ ver[wk[w].v].st = "absent"
<1>1. wk[w].pc \in BusyPcs
  BY DEF BusyPcs
<1> QED
  BY <1>1, DocOfBusy DEF IInv, TypeOK, WorkersOK, WorkerOK, DocOf

\* Success: the version becomes READY, the one it replaces SUPERSEDED.
LEMMA CommitIngestCommits ==
  ASSUME IInv, NEW w \in Workers, CommitIngest(w)
  PROVE  RunCommits(w)
<1> DEFINE me == wk[w]
           d == DocOf(w)
<1>0. me.pc \in IngestPcs
  BY DEF CommitIngest, IngestPcs
<1>1. /\ me \in Worker /\ d \in Docs /\ me.v \in Vers /\ ver[me.v].st = "absent"
      /\ doc \in [Docs -> DocRow] /\ ver \in [Vers -> VersionRow]
      /\ snap \in [Vers -> SnapshotRow] /\ pointer \in VersOrNone
      /\ me.prior # None => me.prior \in Vers /\ ver[me.prior].st \in Published
                            /\ ver[me.prior].doc = d
  BY <1>0, AtCommit
<1>2. me.embedded \in BOOLEAN /\ me.docs \in Manifest
  BY <1>1 DEF Worker
<1> HIDE DEF d
<1>3. ver' = [x \in Vers |->
                IF x = me.v THEN [st |-> "ready", doc |-> d, embedded |-> me.embedded]
                ELSE IF x \in Superseded(w) THEN [ver[x] EXCEPT !.st = "superseded"]
                ELSE ver[x]]
  BY DEF CommitIngest, d
<1>4. ver' \in [Vers -> VersionRow]
  BY <1>1, <1>2, <1>3 DEF VersionRow, VersionStatus
<1>5. \A x \in Vers \ {me.v} :
        /\ ver'[x].doc = ver[x].doc
        /\ ver'[x].st = IF x \in Superseded(w) THEN "superseded" ELSE ver[x].st
  BY <1>1, <1>3 DEF VersionRow
<1>6. ver'[me.v].st = "ready" /\ ver'[me.v].doc = d
  BY <1>1, <1>3
<1>7. \A x \in Superseded(w) : ver[x].st \in Published /\ ver[x].doc = d
  BY <1>1 DEF Superseded
<1>8. \A x \in Vers : ver[x].st \in Published => /\ ver'[x].st \in Published
                                                 /\ ver'[x].doc = ver[x].doc
  BY <1>1, <1>5 DEF Published
<1>9. \A x \in Vers : ver[x].st = "absent" /\ x # me.v => ver'[x].st = "absent"
  BY <1>5, <1>7 DEF Published
<1>10. snap' \in [Vers -> SnapshotRow]
  BY <1>1, <1>2 DEF CommitIngest, SnapshotRow, SnapshotStatus
<1>11. pointer' \in VersOrNone
  BY <1>1 DEF CommitIngest, VersOrNone
<1>12. doc' = [doc EXCEPT ![d] = [st |-> "ready", active |-> me.v]]
  BY DEF CommitIngest, d
<1>13. \A e \in Docs : doc'[e].active # None =>
         ver'[doc'[e].active].st = "ready" /\ ver'[doc'[e].active].doc = e
  <2> SUFFICES ASSUME NEW e \in Docs, doc'[e].active # None
               PROVE  ver'[doc'[e].active].st = "ready" /\ ver'[doc'[e].active].doc = e
    OBVIOUS
  <2>1. CASE e = d
    BY <1>1, <1>6, <1>12, <2>1
  <2>2. CASE e # d
    <3> DEFINE a == doc[e].active
    <3>1. doc'[e].active = a
      BY <1>1, <1>12, <2>2
    <3>2. a \in Vers /\ ver[a].st = "ready" /\ ver[a].doc = e
      BY <1>1, <3>1 DEF IInv, ActiveVersionReady, DocRow, VersOrNone
    <3>3. a # me.v /\ a \notin Superseded(w)
      BY <1>1, <1>7, <2>2, <3>2
    <3> QED
      BY <1>5, <3>1, <3>2, <3>3
  <2> QED
    BY <2>1, <2>2
<1>14. \E s \in JobStatus \ {"absent"} : job' = [job EXCEPT ![me.job].st = s]
  BY DEF CommitIngest, JobStatus
<1>15. \E s \in DocStatus, a \in VersOrNone : doc' = [doc EXCEPT ![d] = [st |-> s, active |-> a]]
  BY <1>1, <1>12 DEF DocStatus, VersOrNone
<1> QED
  BY <1>0, <1>4, <1>8, <1>9, <1>10, <1>11, <1>13, <1>14, <1>15 DEF RunCommits, CommitIngest, d

\* Failure: the version becomes FAILED, the prior one READY again; the document
\* serves what it served.
LEMMA CommitFailureCommits ==
  ASSUME IInv, NEW w \in Workers, CommitFailure(w)
  PROVE  RunCommits(w)
<1> DEFINE me == wk[w]
           d == DocOf(w)
<1>0. me.pc \in IngestPcs
  BY DEF CommitFailure, IngestPcs
<1>1. /\ me \in Worker /\ d \in Docs /\ me.v \in Vers /\ ver[me.v].st = "absent"
      /\ doc \in [Docs -> DocRow] /\ ver \in [Vers -> VersionRow]
      /\ snap \in [Vers -> SnapshotRow] /\ pointer \in VersOrNone
      /\ me.prior # None => me.prior \in Vers /\ ver[me.prior].st \in Published
                            /\ ver[me.prior].doc = d
  BY <1>0, AtCommit
<1>2. me.embedded \in BOOLEAN /\ me.docs \in Manifest /\ me.oldSnap \in VersOrNone
  BY <1>1 DEF Worker
<1> HIDE DEF d
<1>3. ver' = [x \in Vers |->
                IF x = me.v THEN [st |-> "failed", doc |-> d, embedded |-> me.embedded]
                ELSE IF x = me.prior THEN [ver[x] EXCEPT !.st = "ready"]
                ELSE ver[x]]
  BY DEF CommitFailure, d
<1>4. ver' \in [Vers -> VersionRow]
  BY <1>1, <1>2, <1>3 DEF VersionRow, VersionStatus
<1>5. \A x \in Vers \ {me.v} :
        /\ ver'[x].doc = ver[x].doc
        /\ ver'[x].st = IF x = me.prior THEN "ready" ELSE ver[x].st
  BY <1>1, <1>3 DEF VersionRow
<1>6. None \notin Vers
  BY ConstantsAssumption
<1>7. \A x \in Vers : ver[x].st \in Published => /\ ver'[x].st \in Published
                                                 /\ ver'[x].doc = ver[x].doc
  BY <1>1, <1>5 DEF Published
<1>8. \A x \in Vers : ver[x].st = "absent" /\ x # me.v => ver'[x].st = "absent"
  BY <1>1, <1>5, <1>6 DEF Published
<1>9. snap' \in [Vers -> SnapshotRow]
  BY <1>1, <1>2 DEF CommitFailure, SnapshotRow, SnapshotStatus
<1>10. pointer' \in VersOrNone
  BY <1>1, <1>2 DEF CommitFailure, PointerAfterFailure
<1>11. StatusAfterFailure(w) \in DocStatus
  BY DEF StatusAfterFailure, DocStatus
<1>12. doc' = [doc EXCEPT ![d] = [st |-> StatusAfterFailure(w), active |-> doc[d].active]]
  BY DEF CommitFailure, ActiveAfterFailure, d
<1>13. \A e \in Docs : doc'[e].active = doc[e].active
  BY <1>1, <1>12 DEF DocRow
<1>14. \A e \in Docs : doc'[e].active # None =>
         ver'[doc'[e].active].st = "ready" /\ ver'[doc'[e].active].doc = e
  <2> SUFFICES ASSUME NEW e \in Docs, doc'[e].active # None
               PROVE  ver'[doc'[e].active].st = "ready" /\ ver'[doc'[e].active].doc = e
    OBVIOUS
  <2>1. doc'[e].active \in Vers /\ ver[doc'[e].active].st = "ready" /\ ver[doc'[e].active].doc = e
    BY <1>1, <1>13 DEF IInv, ActiveVersionReady, DocRow, VersOrNone
  <2> QED
    BY <1>1, <1>5, <2>1
<1>15. \E s \in JobStatus \ {"absent"} : job' = [job EXCEPT ![me.job].st = s]
  BY DEF CommitFailure, JobStatus
<1>16. \E s \in DocStatus, a \in VersOrNone : doc' = [doc EXCEPT ![d] = [st |-> s, active |-> a]]
  BY <1>1, <1>11, <1>12 DEF DocRow
<1> QED
  BY <1>0, <1>4, <1>7, <1>8, <1>9, <1>10, <1>14, <1>15, <1>16 DEF RunCommits, CommitFailure, d

\* A clean-up, finished or not, withdraws the version or leaves it.
LEMMA CommitDeleteCommits ==
  ASSUME IInv, NEW w \in Workers, CommitDelete(w) \/ CommitDeleteFailure(w)
  PROVE  RunCommits(w)
<1> DEFINE me == wk[w]
           d == DocOf(w)
<1>0. me.pc \in DeletePcs /\ me.pc \notin IngestPcs
  BY DEF CommitDelete, CommitDeleteFailure, DeletePcs, IngestPcs
<1>1. /\ d \in Docs /\ doc \in [Docs -> DocRow] /\ ver \in [Vers -> VersionRow]
      /\ snap \in [Vers -> SnapshotRow] /\ pointer \in VersOrNone
  BY <1>0, AtCommit
<1> HIDE DEF d
<1>2. RetiredActive(w) \in {None, doc[d].active} /\ RetiredActive(w) \in VersOrNone
  BY <1>1 DEF RetiredActive, d, DocRow, VersOrNone
<1>3. PICK st \in DocStatus : doc' = [doc EXCEPT ![d] = [st |-> st, active |-> RetiredActive(w)]]
  <2>1. CASE CommitDelete(w)
    <3>1. doc' = [doc EXCEPT ![d] = [st |-> IF me.st = "deleted" THEN doc[d].st ELSE "deleted",
                                     active |-> RetiredActive(w)]]
      BY <2>1 DEF CommitDelete, d
    <3> QED
      BY <1>1, <3>1 DEF DocRow, DocStatus
  <2>2. CASE CommitDeleteFailure(w)
    <3>1. doc' = [doc EXCEPT ![d] = [st |-> IF ~me.retired /\ me.st = "deleting" THEN doc[d].st
                                            ELSE "deleting",
                                     active |-> RetiredActive(w)]]
      BY <2>2 DEF CommitDeleteFailure, d
    <3> QED
      BY <1>1, <3>1 DEF DocRow, DocStatus
  <2> QED
    BY <2>1, <2>2
<1>4. \A e \in Docs : doc'[e].active \in {None, doc[e].active}
  BY <1>1, <1>2, <1>3
<1>5. UNCHANGED <<ver, snap, pointer>>
  BY DEF CommitDelete, CommitDeleteFailure
<1>6. \A e \in Docs : doc'[e].active # None =>
         ver'[doc'[e].active].st = "ready" /\ ver'[doc'[e].active].doc = e
  BY <1>4, <1>5 DEF IInv, ActiveVersionReady
<1>7. \E s \in JobStatus \ {"absent"} : job' = [job EXCEPT ![me.job].st = s]
  BY DEF CommitDelete, CommitDeleteFailure, JobStatus
<1>8. Goto(w, "committed") /\ UNCHANGED <<fsVars, queue, req, faults>>
  BY DEF CommitDelete, CommitDeleteFailure
<1> QED
  BY <1>0, <1>1, <1>2, <1>3, <1>5, <1>6, <1>7, <1>8 DEF RunCommits, d

-----------------------------------------------------------------------------
(* The invariant *)

LEMMA InitInv == Init => IInv
<1> SUFFICES ASSUME Init PROVE IInv
  OBVIOUS
<1>1. IdleRequest \in Request /\ RestingWorker("down") \in Worker
  BY IdleTyped, RestingTyped
<1>2. RestingWorker("down").pc = "down" /\ IdleRequest.pc = "idle"
  BY DEF RestingWorker, IdleRequest
<1>0. faults \in 0..MaxFaults
  BY ConstantsAssumption DEF Init, ConstantsAssumption
<1>3. TypeOK
  BY <1>0, <1>1 DEF Init, TypeOK, DocRow, JobRow, VersionRow, SnapshotRow, DocStatus, JobStatus,
              VersionStatus, SnapshotStatus, IrPlace, VersOrNone, Manifest, EmptyManifest
<1>4. JobRowsOK /\ RequestsOK /\ InsertsDistinct
  BY <1>2 DEF Init, JobRowsOK, RequestsOK, RequestOK, InsertsDistinct, Uncommitted
<1>5. WorkersOK /\ RunsDistinct
  BY <1>2, PcSets DEF Init, WorkersOK, WorkerOK, RunsDistinct
<1>6. ActiveVersionReady
  BY DEF Init, ActiveVersionReady
<1> QED
  BY <1>3, <1>4, <1>5, <1>6 DEF IInv

LEMMA NextInv == IInv /\ [Next]_vars => IInv'
<1> SUFFICES ASSUME IInv, [Next]_vars PROVE IInv'
  OBVIOUS
<1>1. CASE UNCHANGED vars
  BY <1>1 DEF vars, IInv, TypeOK, JobRowsOK, RequestsOK, RequestOK, InsertsDistinct, WorkersOK,
              WorkerOK, RunsDistinct, ActiveVersionReady
<1>2. ASSUME NEW r \in Reqs, ApiStep(r) PROVE IInv'
  BY <1>2, OpenSteps, CommitRequestStep, DispatchSteps DEF ApiStep
<1>3. ASSUME NEW w \in Workers, WorkerStep(w) \/ Abort(w) \/ Crash(w) PROVE IInv'
  <2>1. CASE \/ Startup(w) \/ Take(w) \/ Discard(w) \/ ReadDocument(w)
             \/ Ack(w) \/ Abort(w) \/ Crash(w)
    BY <2>1, RestSteps, TakeStep, DiscardStep, ReadDocumentStep
  <2>2. CASE Begin(w) \/ Parse(w) \/ Index(w) \/ SkipIndex(w) \/ ActivateArtifact(w)
             \/ ReadPointer(w) \/ SwitchPointer(w) \/ Fail(w)
    BY <2>2, BeginStep, IndexStep, PointerSteps, GotoSteps
  <2>3. CASE BeginDelete(w) \/ RemoveArtifacts(w) \/ RemoveArtifactsFails(w) \/ Unlink(w)
             \/ UnlinkFails(w)
    BY <2>3, RemoveArtifactsStep, GotoSteps
  <2>4. CASE CommitIngest(w) \/ CommitFailure(w) \/ CommitDelete(w) \/ CommitDeleteFailure(w)
    <3>1. wk[w].pc \in BusyPcs
      BY <2>4 DEF CommitIngest, CommitFailure, CommitDelete, CommitDeleteFailure, BusyPcs,
                  IngestPcs, DeletePcs
    <3> QED
      BY <2>4, <3>1, CommitIngestCommits, CommitFailureCommits, CommitDeleteCommits,
         RunCommitsInductive
  <2> QED
    BY <1>3, <2>1, <2>2, <2>3, <2>4 DEF WorkerStep, IngestStep, DeleteStep
<1> QED
  BY <1>1, <1>2, <1>3 DEF Next

\* The strengthened invariant holds in every reachable state.
THEOREM Inductive == Spec => []IInv
  BY InitInv, NextInv, PTL DEF Spec

\* The state keeps its types for any constants that satisfy ConstantsAssumption.
THEOREM TypeCorrect == Spec => []TypeOK
<1>1. IInv => TypeOK
  BY DEF IInv
<1> QED
  BY <1>1, Inductive, PTL

\* Whatever fails, is retried or runs twice on however many workers, the version a
\* document serves is a READY version of that document.
THEOREM ServedVersionIsReady == Spec => []ActiveVersionReady
<1>1. IInv => ActiveVersionReady
  BY DEF IInv
<1> QED
  BY <1>1, Inductive, PTL

-----------------------------------------------------------------------------
(* The refinement *)

\* A step that keeps every active version and the set of published versions is a
\* stuttering step of the register.
LEMMA RegisterStutters ==
  ASSUME IInv, ver' \in [Vers -> VersionRow],
         \A d \in Docs : doc'[d].active = doc[d].active,
         \A v \in Vers : ver'[v].st \in Published <=> ver[v].st \in Published
  PROVE  UNCHANGED Register!regVars
  BY DEF Register!regVars, Published

LEMMA RegisterStep == IInv /\ [Next]_vars => [Register!RegNext]_(Register!regVars)
<1> SUFFICES ASSUME IInv, [Next]_vars PROVE [Register!RegNext]_(Register!regVars)
  OBVIOUS
<1> DEFINE cur == [d \in Docs |-> doc[d].active]
           published == {v \in Vers : ver[v].st \in {"ready", "superseded"}}
<1>0. ver \in [Vers -> VersionRow] /\ doc \in [Docs -> DocRow]
  BY DEF IInv, TypeOK
<1>1. ASSUME NEW w \in Workers, CommitIngest(w) PROVE Register!RegNext
  <2> DEFINE d == DocOf(w)
             v == wk[w].v
  <2>1. wk[w].pc \in IngestPcs
    BY <1>1 DEF CommitIngest, IngestPcs
  <2>2. /\ d \in Docs /\ v \in Vers /\ ver[v].st = "absent"
        /\ wk[w].prior # None => wk[w].prior \in Vers /\ ver[wk[w].prior].st \in Published
    BY <2>1, AtCommit
  <2>3. v \notin published
    BY <2>2
  <2>4. /\ doc' = [doc EXCEPT ![d] = [st |-> "ready", active |-> v]]
        /\ ver' = [x \in Vers |->
                    IF x = v THEN [st |-> "ready", doc |-> d, embedded |-> wk[w].embedded]
                    ELSE IF x \in Superseded(w) THEN [ver[x] EXCEPT !.st = "superseded"]
                    ELSE ver[x]]
    BY <1>1 DEF CommitIngest
  <2> HIDE DEF d, v
  <2>5. cur' = [cur EXCEPT ![d] = v]
    BY <1>0, <2>2, <2>4
  <2>6. \A x \in Vers : ver'[x].st \in Published <=> (x = v \/ ver[x].st \in Published)
    BY <1>0, <2>2, <2>4 DEF Published, Superseded, VersionRow
  <2>7. published' = published \cup {v}
    BY <2>2, <2>6 DEF Published
  <2> QED
    BY <2>2, <2>3, <2>5, <2>7 DEF Register!RegNext, Register!Publish
<1>2. ASSUME NEW w \in Workers, CommitDelete(w) \/ CommitDeleteFailure(w)
      PROVE  [Register!RegNext]_(Register!regVars)
  <2> DEFINE d == DocOf(w)
  <2>1. wk[w].pc \in DeletePcs
    BY <1>2 DEF CommitDelete, CommitDeleteFailure, DeletePcs
  <2>2. d \in Docs
    BY <2>1, AtCommit
  <2>3. RetiredActive(w) \in {None, doc[d].active}
    BY DEF RetiredActive
  <2>4. ver' = ver
    BY <1>2 DEF CommitDelete, CommitDeleteFailure
  <2>5. \E s : doc' = [doc EXCEPT ![d] = [st |-> s, active |-> RetiredActive(w)]]
    BY <1>2 DEF CommitDelete, CommitDeleteFailure
  <2> HIDE DEF d
  <2>6. CASE RetiredActive(w) = None
    <3>0. \A e \in Docs : doc'[e].active = IF e = d THEN None ELSE doc[e].active
      BY <1>0, <2>2, <2>5, <2>6
    <3>1. cur' = [cur EXCEPT ![d] = None]
      BY <3>0
    <3> QED
      BY <2>2, <2>4, <3>1 DEF Register!RegNext, Register!Retire
  <2>7. CASE RetiredActive(w) = doc[d].active
    <3>1. \A e \in Docs : doc'[e].active = doc[e].active
      BY <1>0, <2>2, <2>5, <2>7
    <3> QED
      BY <1>0, <2>4, <3>1, RegisterStutters
  <2> QED
    BY <2>3, <2>6, <2>7
<1>3. ASSUME NEW w \in Workers, CommitFailure(w) PROVE UNCHANGED Register!regVars
  <2> DEFINE d == DocOf(w)
  <2>1. wk[w].pc \in IngestPcs
    BY <1>3 DEF CommitFailure, IngestPcs
  <2>2. /\ d \in Docs /\ wk[w].v \in Vers /\ ver[wk[w].v].st = "absent"
        /\ wk[w].prior # None => wk[w].prior \in Vers /\ ver[wk[w].prior].st \in Published
    BY <2>1, AtCommit
  <2>3. doc' = [doc EXCEPT ![d] = [st |-> StatusAfterFailure(w), active |-> doc[d].active]]
    BY <1>3 DEF CommitFailure, ActiveAfterFailure
  <2>4. ver' = [x \in Vers |->
                 IF x = wk[w].v THEN [st |-> "failed", doc |-> d, embedded |-> wk[w].embedded]
                 ELSE IF x = wk[w].prior THEN [ver[x] EXCEPT !.st = "ready"]
                 ELSE ver[x]]
    BY <1>3 DEF CommitFailure
  <2> HIDE DEF d
  <2>5. \A v \in Vers : ver'[v].st \in Published <=> ver[v].st \in Published
    BY <1>0, <2>2, <2>4, ConstantsAssumption DEF Published, VersionRow
  <2>6. \A e \in Docs : doc'[e].active = doc[e].active
    BY <1>0, <2>2, <2>3
  <2>7. ver' \in [Vers -> VersionRow]
    BY NextInv DEF IInv, TypeOK
  <2> QED
    BY <2>5, <2>6, <2>7, RegisterStutters
<1>4. ASSUME NEW r \in Reqs, CommitRequest(r) PROVE UNCHANGED Register!regVars
  <2>1. \A e \in Docs : doc'[e].active = doc[e].active
    BY <1>0, <1>4 DEF CommitRequest, DocRow
  <2> QED
    BY <1>0, <1>4, <2>1, RegisterStutters DEF CommitRequest
<1>5. ASSUME UNCHANGED <<doc, ver>> PROVE UNCHANGED Register!regVars
  BY <1>0, <1>5, RegisterStutters
<1>6. ASSUME NEW r \in Reqs, ApiStep(r) PROVE [Register!RegNext]_(Register!regVars)
  <2>1. CASE CommitRequest(r)
    BY <1>4, <2>1
  <2>2. CASE ~CommitRequest(r)
    BY <1>5, <1>6, <2>2 DEF ApiStep, Upload, RequestReindex, RequestDelete, RetryJob, Dispatch,
                            DispatchFails, RequestFails, dbVars
  <2> QED
    BY <2>1, <2>2
<1>7. ASSUME NEW w \in Workers, WorkerStep(w) \/ Abort(w) \/ Crash(w)
      PROVE  [Register!RegNext]_(Register!regVars)
  <2>1. CASE CommitIngest(w) \/ CommitFailure(w) \/ CommitDelete(w) \/ CommitDeleteFailure(w)
    BY <1>1, <1>2, <1>3, <2>1
  <2>2. CASE IngestStep(w) /\ ~CommitIngest(w) /\ ~CommitFailure(w)
    BY <1>5, <2>2 DEF IngestStep, Begin, Parse, Index, SkipIndex, ActivateArtifact, ReadPointer,
                      SwitchPointer, Fail, dbVars
  <2>3. CASE DeleteStep(w) /\ ~CommitDelete(w) /\ ~CommitDeleteFailure(w)
    BY <1>5, <2>3 DEF DeleteStep, BeginDelete, RemoveArtifacts, RemoveArtifactsFails, Unlink,
                      UnlinkFails, dbVars
  <2>4. CASE \/ Startup(w) \/ Take(w) \/ Discard(w) \/ ReadDocument(w)
             \/ Ack(w) \/ Abort(w) \/ Crash(w)
    BY <1>5, <2>4 DEF Startup, Take, Discard, ReadDocument, Ack, Abort, Crash, dbVars
  <2> QED
    BY <1>7, <2>1, <2>2, <2>3, <2>4 DEF WorkerStep
<1>8. CASE UNCHANGED vars
  BY <1>5, <1>8 DEF vars
<1> QED
  BY <1>6, <1>7, <1>8 DEF Next

\* For any number of workers, requests and faults, a document's active version is a
\* register that only moves to a version never served before, or to none.
THEOREM ImplementsRegister == Spec => RefinesVersionRegister
<1>1. Init => Register!RegInit
  BY DEF Init, Register!RegInit
<1> QED
  BY <1>1, Inductive, RegisterStep, PTL DEF Spec, RefinesVersionRegister, Register!RegSpec

-----------------------------------------------------------------------------
(***************************************************************************)
(* For any number of workers that do need the advisory lock: no version is *)
(* published once its upload is gone, and the active snapshot can be       *)
(* loaded.                                                                 *)
(*                                                                         *)
(* The inductive invariant SInv adds to IInv that the runs of a document   *)
(* exclude each other, that a run which has parsed still has its upload,   *)
(* that the snapshots which were ever active are on disk and name only     *)
(* published versions, and that a run's own manifest does so, but for the  *)
(* version it is about to publish.                                         *)
(***************************************************************************)

RunPcs == IngestPcs \cup DeletePcs
\* A snapshot that is or was served.
Served == {"active", "superseded"}

\* pg_advisory_xact_lock: two runs are runs of different documents.
LocksExclude ==
  \A w, u \in Workers :
    w # u /\ wk[w].pc \in RunPcs /\ wk[u].pc \in RunPcs
      => job[wk[w].job].doc # job[wk[u].job].doc

\* A run starts with nothing in hand.  Past its parser it has its upload; the snapshot it
\* replaces was served; the snapshot it has built is on disk and names published versions
\* and its own.
RunOK(m) ==
  /\ m.pc \in {"taken", "loaded"} => m.oldSnap = None /\ ~m.built /\ ~m.switched /\ ~m.retired
  /\ m.pc \in IngestPcs =>
       /\ m.pc \notin {"parsing", "failing"} => job[m.job].doc \in uploads
       /\ m.oldSnap # None => snap[m.oldSnap].st \in Served
       /\ m.built =>
            /\ m.v \in idx
            /\ \A d \in Docs :
                 m.docs[d] # None =>
                   \/ d = job[m.job].doc /\ m.docs[d] = m.v
                   \/ ver[m.docs[d]].st \in Published /\ ver[m.docs[d]].doc = d
RunsOK == \A w \in Workers : RunOK(wk[w])

\* A version without a row has no snapshot row.
RowsTogether == \A v \in Vers : ver[v].st = "absent" => snap[v].st = "absent"

\* What was served can be loaded, and only that can be pointed to.
SnapshotLoadable(s) ==
  /\ s \in idx
  /\ \A d \in Docs :
       snap[s].docs[d] # None => /\ ver[snap[s].docs[d]].st \in Published
                                 /\ ver[snap[s].docs[d]].doc = d
SnapshotsOK == \A s \in Vers : snap[s].st \in Served => SnapshotLoadable(s)
PointerOK == pointer # None => snap[pointer].st \in Served

SInv ==
  /\ IInv
  /\ LocksExclude
  /\ RunsOK
  /\ RowsTogether
  /\ SnapshotsOK
  /\ PointerOK

-----------------------------------------------------------------------------
(* Steps of a worker that change no row *)

LEMMA RunPcFacts ==
  /\ RunPcs \subseteq BusyPcs /\ IngestPcs \subseteq RunPcs /\ DeletePcs \subseteq RunPcs
  /\ {"down", "idle", "taken", "loaded", "committed"} \cap RunPcs = {}
  /\ \A p \in IngestPcs : p \notin DeletePcs
  BY DEF RunPcs, BusyPcs, IngestPcs, DeletePcs

\* Only the worker's own record and files change: what its record says is shown by the
\* caller, and that it still excludes and is excluded by the others.
LEMMA RunMoves ==
  ASSUME SInv, IInv', NEW w \in Workers,
         \A u \in Workers \ {w} : wk'[u] = wk[u],
         UNCHANGED <<job, ver, snap, pointer>>, idx \subseteq idx',
         \A u \in Workers \ {w} : wk[u].pc \in IngestPcs =>
           (job[wk[u].job].doc \in uploads => job[wk[u].job].doc \in uploads'),
         RunOK(wk[w])',
         wk'[w].pc \in RunPcs =>
           \A u \in Workers \ {w} : wk[u].pc \in RunPcs =>
             job[wk[u].job].doc # job[wk'[w].job].doc
  PROVE  SInv'
<1>1. LocksExclude'
  BY DEF SInv, LocksExclude
<1>2. RunsOK'
  <2> SUFFICES ASSUME NEW u \in Workers, u # w PROVE RunOK(wk[u])'
    BY DEF RunsOK
  <2>1. RunOK(wk[u]) /\ wk'[u] = wk[u]
    BY DEF SInv, RunsOK
  <2> QED
    BY <2>1 DEF RunOK
<1>3. (RowsTogether /\ SnapshotsOK /\ PointerOK)'
  BY DEF SInv, RowsTogether, SnapshotsOK, SnapshotLoadable, PointerOK
<1> QED
  BY <1>1, <1>2, <1>3 DEF SInv

\* A worker moves on: what it has in hand stays, and it runs only if it did before.
LEMMA KeepRunMoves ==
  ASSUME SInv, IInv', NEW w \in Workers, NEW m \in Worker, wk' = [wk EXCEPT ![w] = m],
         UNCHANGED <<job, ver, snap, pointer>>, idx \subseteq idx',
         \A u \in Workers : u # w /\ wk[u].pc \in IngestPcs =>
           (job[wk[u].job].doc \in uploads => job[wk[u].job].doc \in uploads'),
         m.job = wk[w].job, m.v = wk[w].v, m.oldSnap = wk[w].oldSnap, m.built = wk[w].built,
         m.docs = wk[w].docs,
         m.pc \notin {"taken", "loaded"},
         m.pc \in RunPcs => wk[w].pc \in RunPcs,
         m.pc \in IngestPcs => wk[w].pc \in IngestPcs,
         m.pc \in IngestPcs \ {"parsing", "failing"} => job[m.job].doc \in uploads'
  PROVE  SInv'
<1>1. wk'[w] = m /\ \A u \in Workers \ {w} : wk'[u] = wk[u]
  BY DEF SInv, IInv, TypeOK
<1>2. RunOK(wk[w])
  BY DEF SInv, RunsOK
<1>3. RunOK(wk[w])'
  BY <1>1, <1>2 DEF RunOK
<1>4. m.pc \in RunPcs => \A u \in Workers \ {w} : wk[u].pc \in RunPcs =>
        job[wk[u].job].doc # job[m.job].doc
  BY DEF SInv, LocksExclude
<1> QED
  BY <1>1, <1>3, <1>4, RunMoves

LEMMA GotoRunMoves ==
  ASSUME SInv, IInv', NEW w \in Workers, NEW p \in RunPcs, Goto(w, p),
         UNCHANGED <<job, ver, snap, pointer>>, idx \subseteq idx',
         \A u \in Workers : u # w /\ wk[u].pc \in IngestPcs =>
           (job[wk[u].job].doc \in uploads => job[wk[u].job].doc \in uploads'),
         wk[w].pc \in RunPcs, p \in IngestPcs => wk[w].pc \in IngestPcs,
         p \in IngestPcs \ {"parsing", "failing"} => DocOf(w) \in uploads'
  PROVE  SInv'
<1> DEFINE m == [wk[w] EXCEPT !.pc = p]
<1>1. wk[w] \in Worker
  BY DEF SInv, IInv, TypeOK
<1>2. m \in Worker
  BY <1>1, PcTyped, RunPcFacts
<1>3. wk' = [wk EXCEPT ![w] = m]
  BY DEF Goto
<1>4. /\ m.pc = p /\ m.job = wk[w].job /\ m.v = wk[w].v /\ m.oldSnap = wk[w].oldSnap
      /\ m.built = wk[w].built /\ m.docs = wk[w].docs
  BY <1>1 DEF Worker
<1>5. p \notin {"taken", "loaded"}
  BY RunPcFacts
<1> HIDE DEF m
<1> QED
  BY <1>2, <1>3, <1>4, <1>5, KeepRunMoves DEF DocOf

\* A worker rests, and has let go of its lock.
LEMMA RestRunMoves ==
  ASSUME SInv, IInv', NEW w \in Workers, NEW p \in {"down", "idle"}, Rest(w, p),
         UNCHANGED <<job, ver, snap, pointer, uploads, idx>>
  PROVE  SInv'
<1>1. wk'[w] = RestingWorker(p) /\ \A u \in Workers \ {w} : wk'[u] = wk[u]
  BY DEF Rest, SInv, IInv, TypeOK
<1>2. RestingWorker(p).pc = p /\ p \notin RunPcs /\ p \notin IngestPcs
  BY RunPcFacts DEF RestingWorker
<1>3. RunOK(wk[w])'
  BY <1>1, <1>2 DEF RunOK
<1> QED
  BY <1>1, <1>2, <1>3, RunMoves

LEMMA RestRunSteps ==
  ASSUME SInv, IInv', NEW w \in Workers, Startup(w) \/ Ack(w) \/ Abort(w) \/ Crash(w)
  PROVE  SInv'
  BY RestRunMoves DEF Startup, Ack, Abort, Crash, dbVars, fsVars

\* A parser that has read the upload; what follows it goes on with it.
LEMMA GotoRunSteps ==
  ASSUME SInv, IInv', NEW w \in Workers,
         \/ Parse(w) \/ SkipIndex(w) \/ ActivateArtifact(w) \/ Fail(w)
         \/ RemoveArtifactsFails(w) \/ Unlink(w) \/ UnlinkFails(w)
  PROVE  SInv'
<1>0. wk[w].pc \in IngestPcs \ {"parsing", "failing"} => DocOf(w) \in uploads
  BY DEF SInv, RunsOK, RunOK, DocOf
<1>1. CASE Parse(w)
  BY <1>1, GotoRunMoves DEF Parse, dbVars, RunPcs, IngestPcs
<1>2. CASE SkipIndex(w)
  BY <1>0, <1>2, GotoRunMoves DEF SkipIndex, dbVars, fsVars, RunPcs, IngestPcs
<1>3. CASE ActivateArtifact(w)
  BY <1>0, <1>3, GotoRunMoves DEF ActivateArtifact, dbVars, RunPcs, IngestPcs
<1>4. CASE Fail(w)
  BY <1>4, GotoRunMoves DEF Fail, dbVars, RunPcs, IngestPcs
<1>5. CASE RemoveArtifactsFails(w)
  BY <1>5, GotoRunMoves DEF RemoveArtifactsFails, dbVars, RunPcs, IngestPcs, DeletePcs
<1>6. CASE Unlink(w)
  <2>1. \A u \in Workers : u # w /\ wk[u].pc \in IngestPcs => job[wk[u].job].doc # DocOf(w)
    BY <1>6, RunPcFacts DEF SInv, LocksExclude, Unlink, DocOf, RunPcs, DeletePcs
  <2>2. uploads' = uploads \ {DocOf(w)} /\ Goto(w, "removed") /\ wk[w].pc = "unlinking"
        /\ UNCHANGED <<job, ver, snap, pointer, idx>>
    BY <1>6 DEF Unlink, dbVars
  <2>3. "removed" \in RunPcs /\ "unlinking" \in RunPcs /\ "removed" \notin IngestPcs
    BY DEF RunPcs, DeletePcs, IngestPcs
  <2> QED
    BY <2>1, <2>2, <2>3, GotoRunMoves
<1>7. CASE UnlinkFails(w)
  BY <1>7, GotoRunMoves DEF UnlinkFails, dbVars, fsVars, RunPcs, IngestPcs, DeletePcs
<1> QED
  BY <1>1, <1>2, <1>3, <1>4, <1>5, <1>6, <1>7

LEMMA RemoveArtifactsRun ==
  ASSUME SInv, IInv', NEW w \in Workers, RemoveArtifacts(w)
  PROVE  SInv'
<1> DEFINE m == [wk[w] EXCEPT !.pc = "unlinking", !.retired = TRUE]
<1>1. wk[w] \in Worker /\ wk[w].pc \in RunPcs
  BY DEF SInv, IInv, TypeOK, RemoveArtifacts, RunPcs, DeletePcs
<1>2. m \in Worker
  BY <1>1 DEF Worker, BusyPcs, DeletePcs
<1>3. wk' = [wk EXCEPT ![w] = m]
  BY DEF RemoveArtifacts
<1>4. /\ m.pc = "unlinking" /\ m.job = wk[w].job /\ m.v = wk[w].v /\ m.oldSnap = wk[w].oldSnap
      /\ m.built = wk[w].built /\ m.docs = wk[w].docs
  BY <1>1 DEF Worker
<1>5. "unlinking" \notin IngestPcs
  BY DEF IngestPcs
<1> HIDE DEF m
<1> QED
  BY <1>1, <1>2, <1>3, <1>4, <1>5, KeepRunMoves DEF RemoveArtifacts, dbVars

\* A job is taken, its document read: nothing is in hand and no lock is held.
LEMMA EarlySteps ==
  ASSUME SInv, IInv', NEW w \in Workers, Take(w) \/ ReadDocument(w)
  PROVE  SInv'
<1>1. wk[w] \in Worker /\ \A u \in Workers \ {w} : wk'[u] = wk[u]
  BY DEF SInv, IInv, TypeOK, Take, ReadDocument
<1>2. /\ wk'[w].pc \in {"taken", "loaded"}
      /\ wk'[w].oldSnap = None /\ ~wk'[w].built /\ ~wk'[w].switched /\ ~wk'[w].retired
  <2>1. CASE Take(w)
    <3>1. PICK msg \in queue :
            wk' = [wk EXCEPT ![w] = [RestingWorker("taken") EXCEPT !.job = msg.job, !.copy = msg.copy]]
      BY <2>1 DEF Take
    <3>2. wk'[w] = [RestingWorker("taken") EXCEPT !.job = msg.job, !.copy = msg.copy]
      BY <3>1 DEF SInv, IInv, TypeOK
    <3> QED
      BY <3>2 DEF RestingWorker
  <2>2. CASE ReadDocument(w)
    <3>1. RunOK(wk[w])
      BY DEF SInv, RunsOK
    <3> QED
      BY <1>1, <2>2, <3>1 DEF ReadDocument, RunOK, Worker, SInv, IInv, TypeOK
  <2> QED
    BY <2>1, <2>2
<1>3. wk'[w].pc \notin RunPcs /\ wk'[w].pc \notin IngestPcs
  BY <1>2, RunPcFacts
<1>4. RunOK(wk[w])'
  BY <1>2, <1>3 DEF RunOK
<1>5. UNCHANGED <<job, ver, snap, pointer, uploads, idx>>
  BY DEF Take, ReadDocument, dbVars, fsVars
<1> QED
  BY <1>1, <1>3, <1>4, <1>5, RunMoves

\* The lock is granted when no other run of the document holds it.
LEMMA BeginRunMoves ==
  ASSUME SInv, IInv', NEW w \in Workers, NEW m \in Worker, wk' = [wk EXCEPT ![w] = m],
         UNCHANGED <<job, ver, snap, pointer, uploads, idx>>,
         wk[w].pc = "loaded", ~Locked(DocOf(w)),
         m.pc \in {"parsing", "cleaning"}, m.job = wk[w].job, m.oldSnap = wk[w].oldSnap,
         m.built = wk[w].built
  PROVE  SInv'
<1>1. wk'[w] = m /\ \A u \in Workers \ {w} : wk'[u] = wk[u]
  BY DEF SInv, IInv, TypeOK
<1>2. m.oldSnap = None /\ ~m.built
  BY DEF SInv, RunsOK, RunOK
<1>3. m.pc \notin {"taken", "loaded"} /\ (m.pc \in IngestPcs => m.pc = "parsing")
  BY DEF IngestPcs
<1>4. RunOK(wk[w])'
  BY <1>1, <1>2, <1>3 DEF RunOK
<1>5. \A u \in Workers : wk[u].pc \in RunPcs => job[wk[u].job].doc # job[m.job].doc
  BY DEF Locked, DocOf, RunPcs
<1> QED
  BY <1>1, <1>4, <1>5, RunMoves

LEMMA BeginSteps ==
  ASSUME SInv, IInv', NEW w \in Workers, Begin(w) \/ BeginDelete(w)
  PROVE  SInv'
<1>1. wk[w] \in Worker
  BY DEF SInv, IInv, TypeOK
<1>2. CASE Begin(w)
  <2>1. PICK v \in FreshVers : wk' = [wk EXCEPT ![w] = [@ EXCEPT !.pc = "parsing", !.v = v]]
    BY <1>2 DEF Begin
  <2> DEFINE m == [wk[w] EXCEPT !.pc = "parsing", !.v = v]
  <2>2. wk' = [wk EXCEPT ![w] = m]
    BY <2>1
  <2>3. v \in Vers
    BY DEF FreshVers
  <2>4. m \in Worker
    BY <1>1, <2>3 DEF Worker, BusyPcs, IngestPcs, VersOrNone
  <2>5. m.pc = "parsing" /\ m.job = wk[w].job /\ m.oldSnap = wk[w].oldSnap /\ m.built = wk[w].built
    BY <1>1 DEF Worker
  <2> HIDE DEF m
  <2> QED
    BY <1>2, <2>2, <2>4, <2>5, BeginRunMoves DEF Begin, dbVars, fsVars
<1>3. CASE BeginDelete(w)
  <2> DEFINE m == [wk[w] EXCEPT !.pc = "cleaning"]
  <2>1. wk' = [wk EXCEPT ![w] = m]
    BY <1>3 DEF BeginDelete, Goto
  <2>2. m \in Worker
    BY <1>1, PcTyped DEF BusyPcs, DeletePcs
  <2>3. m.pc = "cleaning" /\ m.job = wk[w].job /\ m.oldSnap = wk[w].oldSnap /\ m.built = wk[w].built
    BY <1>1 DEF Worker
  <2> HIDE DEF m
  <2> QED
    BY <1>3, <2>1, <2>2, <2>3, BeginRunMoves DEF BeginDelete, dbVars, fsVars
<1> QED
  BY <1>2, <1>3

\* The manifest of the new snapshot names published versions and the run's own.
LEMMA IndexRun ==
  ASSUME SInv, IInv', NEW w \in Workers, Index(w)
  PROVE  SInv'
<1> DEFINE docs == [x \in Docs |-> IF x = DocOf(w) THEN wk[w].v
                                   ELSE IF Compatible(x) THEN doc[x].active ELSE None]
           m == [wk[w] EXCEPT !.pc = "activating", !.embedded = TRUE, !.built = TRUE, !.docs = docs]
<1>1. wk[w] \in Worker /\ wk[w].pc = "chunking" /\ "chunking" \in IngestPcs /\ "activating" \in IngestPcs
      /\ "chunking" \in RunPcs
  BY DEF SInv, IInv, TypeOK, Index, IngestPcs, RunPcs
<1>2. wk' = [wk EXCEPT ![w] = m] /\ idx' = idx \cup {wk[w].v}
      /\ UNCHANGED <<dbVars, uploads>>
  BY DEF Index
<1>3. \A d \in Docs : docs[d] # None =>
        \/ d = DocOf(w) /\ docs[d] = wk[w].v
        \/ ver[docs[d]].st \in Published /\ ver[docs[d]].doc = d
  <2> SUFFICES ASSUME NEW d \in Docs, d # DocOf(w), Compatible(d)
               PROVE  ver[doc[d].active].st \in Published /\ ver[doc[d].active].doc = d
    OBVIOUS
  <2> QED
    BY DEF Compatible, SInv, IInv, ActiveVersionReady, Published
<1> HIDE DEF docs
<1>4. m.pc = "activating" /\ m.job = wk[w].job /\ m.v = wk[w].v /\ m.oldSnap = wk[w].oldSnap
      /\ m.docs = docs
  BY <1>1 DEF Worker
<1>5. wk'[w] = m /\ \A u \in Workers \ {w} : wk'[u] = wk[u]
  BY <1>2 DEF SInv, IInv, TypeOK
<1> HIDE DEF m
<1>6. RunOK(wk[w])
  BY DEF SInv, RunsOK
<1>7. DocOf(w) \in uploads /\ (m.oldSnap # None => snap[m.oldSnap].st \in Served)
  BY <1>1, <1>4, <1>6 DEF RunOK, DocOf
<1>8. RunOK(wk[w])'
  BY <1>1, <1>2, <1>3, <1>4, <1>5, <1>7 DEF RunOK, DocOf, dbVars
<1>9. \A u \in Workers \ {w} : wk[u].pc \in RunPcs => job[wk[u].job].doc # job[m.job].doc
  BY <1>1, <1>4 DEF SInv, LocksExclude
<1> QED
  BY <1>2, <1>5, <1>8, <1>9, RunMoves DEF dbVars

\* The snapshot that a run is about to replace is one that is served.
LEMMA PointerRuns ==
  ASSUME SInv, IInv', NEW w \in Workers, ReadPointer(w) \/ SwitchPointer(w)
  PROVE  SInv'
<1>1. wk[w] \in Worker /\ wk[w].pc \in {"switching", "pointing"}
  BY DEF SInv, IInv, TypeOK, ReadPointer, SwitchPointer
<1>2. PICK m \in {[wk[w] EXCEPT !.pc = "pointing", !.oldSnap = pointer,
                                !.oldWasActive = pointer # None /\ snap[pointer].st = "active"],
                  [wk[w] EXCEPT !.pc = "finalizing", !.switched = TRUE]} :
        wk' = [wk EXCEPT ![w] = m]
  BY DEF ReadPointer, SwitchPointer
<1>3. /\ m.pc \in {"pointing", "finalizing"} /\ m.job = wk[w].job /\ m.v = wk[w].v
      /\ m.oldSnap \in {wk[w].oldSnap, pointer} /\ m.built = wk[w].built /\ m.docs = wk[w].docs
  BY <1>1, <1>2 DEF Worker
<1>4. wk'[w] = m /\ \A u \in Workers \ {w} : wk'[u] = wk[u]
  BY <1>2 DEF SInv, IInv, TypeOK
<1>5. UNCHANGED <<job, ver, snap, pointer, uploads, idx>>
  BY DEF ReadPointer, SwitchPointer, dbVars, fsVars
<1>6. RunOK(wk[w]) /\ wk[w].pc \in IngestPcs /\ wk[w].pc \in RunPcs
  BY <1>1 DEF SInv, RunsOK, IngestPcs, RunPcs
<1>7. m.oldSnap # None => snap[m.oldSnap].st \in Served
  BY <1>3, <1>6 DEF RunOK, SInv, PointerOK
<1>8. RunOK(wk[w])'
  BY <1>1, <1>3, <1>4, <1>5, <1>6, <1>7 DEF RunOK
<1>9. \A u \in Workers \ {w} : wk[u].pc \in RunPcs => job[wk[u].job].doc # job[m.job].doc
  BY <1>3, <1>6 DEF SInv, LocksExclude
<1> QED
  BY <1>4, <1>5, <1>8, <1>9, RunMoves

LEMMA DiscardRun ==
  ASSUME SInv, IInv', NEW w \in Workers, Discard(w)
  PROVE  SInv'
<1>1. UNCHANGED <<job, ver, snap, pointer, uploads, idx, wk>>
  BY DEF Discard, dbVars, fsVars
<1> QED
  BY <1>1 DEF SInv, LocksExclude, RunsOK, RunOK, RowsTogether, SnapshotsOK, SnapshotLoadable, PointerOK

-----------------------------------------------------------------------------
(* Steps of a request *)

\* A request brings a file or a job; a job that a run has taken it leaves alone.
LEMMA RequestRuns ==
  ASSUME SInv, IInv', NEW r \in Reqs, ApiStep(r)
  PROVE  SInv'
<1>1. UNCHANGED <<ver, snap, pointer, idx, wk>> /\ uploads \subseteq uploads'
  BY DEF ApiStep, Upload, RequestReindex, RequestDelete, RetryJob, CommitRequest, Dispatch,
         DispatchFails, RequestFails, dbVars, fsVars
<1>2. \A j \in Jobs : job[j].st # "absent" => job'[j] = job[j]
  <2>1. CASE CommitRequest(r)
    <3>1. req[r].insert => req[r].job \in Jobs /\ job[req[r].job].st = "absent"
      BY <2>1 DEF SInv, IInv, RequestsOK, RequestOK, CommitRequest, Uncommitted
    <3> QED
      BY <2>1, <3>1 DEF CommitRequest, SInv, IInv, TypeOK
  <2>2. CASE ~CommitRequest(r)
    BY <2>2 DEF ApiStep, Upload, RequestReindex, RequestDelete, RetryJob, Dispatch,
         DispatchFails, RequestFails, dbVars
  <2> QED
    BY <2>1, <2>2
<1>3. \A w \in Workers : wk[w].pc \in RunPcs => job'[wk[w].job] = job[wk[w].job]
  BY <1>2, RunPcFacts DEF SInv, IInv, WorkersOK, WorkerOK
<1>4. LocksExclude'
  BY <1>1, <1>3 DEF SInv, LocksExclude
<1>5. RunsOK'
  <2> SUFFICES ASSUME NEW w \in Workers PROVE RunOK(wk[w])'
    BY DEF RunsOK
  <2>1. RunOK(wk[w]) /\ wk'[w] = wk[w]
    BY <1>1 DEF SInv, RunsOK
  <2>2. wk[w].pc \in IngestPcs => job'[wk[w].job] = job[wk[w].job]
    BY <1>3, RunPcFacts
  <2> QED
    BY <1>1, <2>1, <2>2 DEF RunOK
<1>6. (RowsTogether /\ SnapshotsOK /\ PointerOK)'
  BY <1>1 DEF SInv, RowsTogether, SnapshotsOK, SnapshotLoadable, PointerOK
<1> QED
  BY <1>4, <1>5, <1>6 DEF SInv

-----------------------------------------------------------------------------
(* Commits *)

\* What every commit of a run does to the snapshots: what was served stays served, or is
\* served with the same manifest; only the run's own snapshot, once its version is published,
\* becomes served; a version that is not committed has no snapshot; the pointer is served.
CommitsSnapshots(w) ==
  LET me == wk[w] IN
  /\ \A s \in Vers : snap[s].st \in Served => snap'[s].st \in Served
  /\ \A s \in Vers : snap'[s].st \in Served =>
       \/ snap[s].st \in Served /\ snap'[s].docs = snap[s].docs
       \/ /\ s = me.v /\ me.pc \in IngestPcs /\ me.built /\ snap'[s].docs = me.docs
          /\ ver'[me.v].st \in Published /\ ver'[me.v].doc = DocOf(w)
  /\ RowsTogether'
  /\ PointerOK'

LEMMA CommitRuns ==
  ASSUME SInv, IInv', NEW w \in Workers, wk[w].pc \in RunPcs, RunCommits(w), CommitsSnapshots(w)
  PROVE  SInv'
<1> DEFINE me == wk[w]
<1>1. me \in Worker /\ wk[w].pc \in BusyPcs /\ me.job \in Jobs
  BY RunPcFacts, DocOfBusy DEF SInv, IInv, TypeOK
<1>2. /\ wk'[w].pc = "committed"
      /\ \A u \in Workers \ {w} : wk'[u] = wk[u]
      /\ UNCHANGED <<uploads, idx>>
  BY <1>1 DEF RunCommits, Goto, SInv, IInv, TypeOK, Worker, fsVars
<1>3. \A j \in Jobs : job'[j].doc = job[j].doc
  BY <1>1 DEF RunCommits, SInv, IInv, TypeOK, JobRow
<1>4. \A x \in Vers : ver[x].st \in Published => ver'[x].st \in Published /\ ver'[x].doc = ver[x].doc
  BY DEF RunCommits
<1>5. \A u \in Workers : wk[u].pc \in RunPcs => wk[u].job \in Jobs
  BY RunPcFacts DEF SInv, IInv, WorkersOK, WorkerOK
<1>6. LocksExclude'
  BY <1>2, <1>3, <1>5, RunPcFacts DEF SInv, LocksExclude
<1>7. \A u \in Workers : wk[u].oldSnap \in VersOrNone /\ wk[u].docs \in Manifest
  BY DEF SInv, IInv, TypeOK, Worker
<1>8. RunsOK'
  <2> SUFFICES ASSUME NEW u \in Workers PROVE RunOK(wk[u])'
    BY DEF RunsOK
  <2>1. CASE u = w
    BY <1>2, <2>1, RunPcFacts DEF RunOK
  <2>2. CASE u # w
    <3>1. RunOK(wk[u]) /\ wk'[u] = wk[u]
      BY <1>2, <2>2 DEF SInv, RunsOK
    <3> SUFFICES ASSUME wk[u].pc \in IngestPcs PROVE RunOK(wk[u])'
      BY <3>1 DEF RunOK
    <3>2. job'[wk[u].job].doc = job[wk[u].job].doc
      BY <1>3, <1>5, RunPcFacts
    <3>3. wk[u].oldSnap # None => snap'[wk[u].oldSnap].st \in Served
      BY <1>7, <3>1 DEF RunOK, CommitsSnapshots, VersOrNone
    <3>4. \A d \in Docs : wk[u].docs[d] \in VersOrNone
      BY <1>7 DEF Manifest
    <3> QED
      BY <1>2, <1>4, <3>1, <3>2, <3>3, <3>4 DEF RunOK, VersOrNone
  <2> QED
    BY <2>1, <2>2
<1>9. SnapshotsOK'
  <2> SUFFICES ASSUME NEW s \in Vers, snap'[s].st \in Served PROVE SnapshotLoadable(s)'
    BY DEF SnapshotsOK
  <2>1. CASE snap[s].st \in Served /\ snap'[s].docs = snap[s].docs
    <3>1. SnapshotLoadable(s)
      BY <2>1 DEF SInv, SnapshotsOK
    <3>2. \A d \in Docs : snap[s].docs[d] \in VersOrNone
      BY DEF SInv, IInv, TypeOK, SnapshotRow, Manifest
    <3> QED
      BY <1>2, <1>4, <2>1, <3>1, <3>2 DEF SnapshotLoadable, VersOrNone
  <2>2. CASE /\ s = me.v /\ me.pc \in IngestPcs /\ me.built /\ snap'[s].docs = me.docs
             /\ ver'[me.v].st \in Published /\ ver'[me.v].doc = DocOf(w)
    <3>1. RunOK(me)
      BY DEF SInv, RunsOK
    <3>2. \A d \in Docs : me.docs[d] \in VersOrNone
      BY <1>7 DEF Manifest
    <3> QED
      BY <1>2, <1>4, <2>2, <3>1, <3>2 DEF RunOK, SnapshotLoadable, VersOrNone, DocOf
  <2> QED
    BY <2>1, <2>2 DEF CommitsSnapshots
<1> QED
  BY <1>6, <1>8, <1>9 DEF SInv, CommitsSnapshots

\* Success: the run's own snapshot becomes the served one.
LEMMA CommitIngestRun ==
  ASSUME SInv, IInv', NEW w \in Workers, CommitIngest(w)
  PROVE  SInv'
<1> DEFINE me == wk[w]
           d == DocOf(w)
<1>1. me.pc = "finalizing" /\ me.pc \in IngestPcs /\ me.pc \in RunPcs /\ me.pc \in BusyPcs
  BY RunPcFacts DEF CommitIngest, IngestPcs
<1>2. RunCommits(w)
  BY CommitIngestCommits DEF SInv
<1>3. /\ d \in Docs /\ me.v \in Vers /\ ver[me.v].st = "absent"
      /\ ver \in [Vers -> VersionRow] /\ snap \in [Vers -> SnapshotRow]
      /\ me.prior # None => ver[me.prior].st \in Published
  BY <1>1, AtCommit DEF SInv, RunPcs
<1> HIDE DEF d
<1>4. ver' = [x \in Vers |->
                IF x = me.v THEN [st |-> "ready", doc |-> d, embedded |-> me.embedded]
                ELSE IF x \in Superseded(w) THEN [ver[x] EXCEPT !.st = "superseded"]
                ELSE ver[x]]
  BY DEF CommitIngest, d
<1>5. snap' = [x \in Vers |->
                IF ~me.built THEN snap[x]
                ELSE IF x = me.v THEN [st |-> "active", docs |-> me.docs]
                ELSE IF x \in Deactivated(w) THEN [snap[x] EXCEPT !.st = "superseded"]
                ELSE snap[x]]
  BY DEF CommitIngest
<1>6. pointer' = IF me.built THEN me.v ELSE pointer
  BY DEF CommitIngest
<1>7. \A s \in Deactivated(w) : s \in Vers => snap[s].st \in Served
  BY <1>1, ConstantsAssumption DEF SInv, RunsOK, RunOK, Deactivated
<1>8. ver'[me.v].st = "ready" /\ ver'[me.v].doc = d
  BY <1>3, <1>4
<1>9. \A x \in Vers : x # me.v => (ver'[x].st = "absent" <=> ver[x].st = "absent")
  BY <1>3, <1>4 DEF Superseded, Published, VersionRow
<1>10. \A s \in Vers :
         /\ me.built /\ s = me.v => snap'[s].st = "active" /\ snap'[s].docs = me.docs
         /\ ~me.built \/ s # me.v =>
              /\ snap'[s].docs = snap[s].docs
              /\ snap'[s].st \in Served <=> snap[s].st \in Served
              /\ snap[s].st = "absent" => snap'[s].st = "absent"
  BY <1>3, <1>5, <1>7 DEF Served, SnapshotRow
<1>11. snap[me.v].st = "absent"
  BY <1>3 DEF SInv, RowsTogether
<1>12. RowsTogether'
  BY <1>8, <1>9, <1>10 DEF SInv, RowsTogether
<1>13. PointerOK'
  <2>1. CASE me.built
    BY <1>3, <1>6, <1>10, <2>1 DEF PointerOK, Served
  <2>2. CASE ~me.built
    <3>1. pointer \in VersOrNone
      BY DEF SInv, IInv, TypeOK
    <3> QED
      BY <1>6, <1>10, <2>2, <3>1 DEF SInv, PointerOK, VersOrNone
  <2> QED
    BY <2>1, <2>2
<1>14. CommitsSnapshots(w)
  BY <1>1, <1>3, <1>8, <1>10, <1>11, <1>12, <1>13 DEF CommitsSnapshots, Served, Published, d
<1> QED
  BY <1>1, <1>2, <1>14, CommitRuns

\* Failure: the run's own snapshot is FAILED, the one it replaced is served again.
LEMMA CommitFailureRun ==
  ASSUME SInv, IInv', NEW w \in Workers, CommitFailure(w)
  PROVE  SInv'
<1> DEFINE me == wk[w]
           d == DocOf(w)
<1>1. me.pc = "failing" /\ me.pc \in IngestPcs /\ me.pc \in RunPcs /\ me.pc \in BusyPcs
  BY RunPcFacts DEF CommitFailure, IngestPcs
<1>2. RunCommits(w)
  BY CommitFailureCommits DEF SInv
<1>3. /\ d \in Docs /\ me.v \in Vers /\ ver[me.v].st = "absent"
      /\ ver \in [Vers -> VersionRow] /\ snap \in [Vers -> SnapshotRow] /\ pointer \in VersOrNone
      /\ me \in Worker /\ me.oldSnap \in VersOrNone
      /\ me.prior # None => ver[me.prior].st \in Published
  BY <1>1, AtCommit DEF SInv, RunPcs, Worker
<1> HIDE DEF d
<1>4. ver' = [x \in Vers |->
                IF x = me.v THEN [st |-> "failed", doc |-> d, embedded |-> me.embedded]
                ELSE IF x = me.prior THEN [ver[x] EXCEPT !.st = "ready"]
                ELSE ver[x]]
  BY DEF CommitFailure, d
<1>5. snap' = [x \in Vers |->
                IF me.built /\ x = me.v THEN [st |-> "failed", docs |-> me.docs]
                ELSE IF x \in Reactivated(w) THEN [snap[x] EXCEPT !.st = "active"]
                ELSE IF x \in Deactivated(w) THEN [snap[x] EXCEPT !.st = "superseded"]
                ELSE snap[x]]
  BY DEF CommitFailure
<1>6. pointer' = PointerAfterFailure(w)
  BY DEF CommitFailure
<1>7. \A s \in Deactivated(w) \cup Reactivated(w) : s \in Vers => snap[s].st \in Served
  BY <1>1, ConstantsAssumption DEF SInv, RunsOK, RunOK, Deactivated, Reactivated
<1>8. ver'[me.v].st = "failed"
  BY <1>3, <1>4
<1>9. \A x \in Vers : x # me.v => (ver'[x].st = "absent" => ver[x].st = "absent")
  BY <1>3, <1>4 DEF VersionRow
<1>10. \A s \in Vers :
         /\ me.built /\ s = me.v => snap'[s].st = "failed"
         /\ ~me.built \/ s # me.v =>
              /\ snap'[s].docs = snap[s].docs
              /\ snap'[s].st \in Served <=> snap[s].st \in Served
              /\ snap[s].st = "absent" => snap'[s].st = "absent"
  BY <1>3, <1>5, <1>7 DEF Served, SnapshotRow
<1>11. snap[me.v].st = "absent"
  BY <1>3 DEF SInv, RowsTogether
<1>12. RowsTogether'
  BY <1>8, <1>9, <1>10 DEF SInv, RowsTogether
<1>13. me.oldSnap # None => snap[me.oldSnap].st \in Served
  BY <1>1 DEF SInv, RunsOK, RunOK
<1>14. pointer' # None => pointer' \in Vers /\ snap[pointer'].st \in Served
  BY <1>3, <1>6, <1>13 DEF PointerAfterFailure, SInv, PointerOK, VersOrNone
<1>15. \A s \in Vers : snap'[s].st \in Served <=> snap[s].st \in Served
  BY <1>10, <1>11 DEF Served
<1>16. PointerOK'
  BY <1>14, <1>15 DEF PointerOK
<1>17. CommitsSnapshots(w)
  BY <1>10, <1>12, <1>15, <1>16 DEF CommitsSnapshots, Served
<1> QED
  BY <1>1, <1>2, <1>17, CommitRuns

\* A clean-up leaves versions and snapshots as they are.
LEMMA CommitDeleteRun ==
  ASSUME SInv, IInv', NEW w \in Workers, CommitDelete(w) \/ CommitDeleteFailure(w)
  PROVE  SInv'
<1>1. RunCommits(w)
  BY CommitDeleteCommits DEF SInv
<1>2. UNCHANGED <<ver, snap, pointer>> /\ wk[w].pc \in RunPcs
  BY DEF CommitDelete, CommitDeleteFailure, RunPcs, DeletePcs
<1>3. CommitsSnapshots(w)
  BY <1>2 DEF CommitsSnapshots, SInv, RowsTogether, PointerOK
<1> QED
  BY <1>1, <1>2, <1>3, CommitRuns

-----------------------------------------------------------------------------
(* The invariant *)

LEMMA InitSInv == Init => SInv
<1> SUFFICES ASSUME Init PROVE SInv
  OBVIOUS
<1>1. \A w \in Workers : wk[w].pc = "down"
  BY DEF Init, RestingWorker
<1>2. LocksExclude /\ RunsOK
  BY <1>1, RunPcFacts DEF LocksExclude, RunsOK, RunOK
<1>3. RowsTogether /\ SnapshotsOK /\ PointerOK
  BY DEF Init, RowsTogether, SnapshotsOK, PointerOK, Served
<1> QED
  BY <1>2, <1>3, InitInv DEF SInv

LEMMA NextSInv == SInv /\ [Next]_vars => SInv'
<1> SUFFICES ASSUME SInv, [Next]_vars PROVE SInv'
  OBVIOUS
<1>0. IInv'
  BY NextInv DEF SInv
<1>1. CASE UNCHANGED vars
  BY <1>0, <1>1 DEF vars, SInv, LocksExclude, RunsOK, RunOK, RowsTogether, SnapshotsOK,
                    SnapshotLoadable, PointerOK
<1>2. ASSUME NEW r \in Reqs, ApiStep(r) PROVE SInv'
  BY <1>0, <1>2, RequestRuns
<1>3. ASSUME NEW w \in Workers, WorkerStep(w) \/ Abort(w) \/ Crash(w) PROVE SInv'
  <2>1. CASE \/ Startup(w) \/ Take(w) \/ Discard(w) \/ ReadDocument(w)
             \/ Ack(w) \/ Abort(w) \/ Crash(w)
    BY <1>0, <2>1, RestRunSteps, EarlySteps, DiscardRun
  <2>2. CASE Begin(w) \/ Parse(w) \/ Index(w) \/ SkipIndex(w) \/ ActivateArtifact(w)
             \/ ReadPointer(w) \/ SwitchPointer(w) \/ Fail(w)
    BY <1>0, <2>2, BeginSteps, IndexRun, PointerRuns, GotoRunSteps
  <2>3. CASE BeginDelete(w) \/ RemoveArtifacts(w) \/ RemoveArtifactsFails(w) \/ Unlink(w)
             \/ UnlinkFails(w)
    BY <1>0, <2>3, BeginSteps, RemoveArtifactsRun, GotoRunSteps
  <2>4. CASE CommitIngest(w) \/ CommitFailure(w) \/ CommitDelete(w) \/ CommitDeleteFailure(w)
    BY <1>0, <2>4, CommitIngestRun, CommitFailureRun, CommitDeleteRun
  <2> QED
    BY <1>3, <2>1, <2>2, <2>3, <2>4 DEF WorkerStep, IngestStep, DeleteStep
<1> QED
  BY <1>1, <1>2, <1>3 DEF Next

\* The advisory lock, the uploads of runs and the snapshots of every reachable state are as
\* SInv says, for any number of workers.
THEOREM SnapshotsInductive == Spec => []SInv
  BY InitSInv, NextSInv, PTL DEF Spec

\* Whatever fails, crashes or runs at the same time, the active snapshot has its files and
\* its manifest names only versions that were published for their documents
\* (activate_snapshot_record, _restore_prior_activation, build_corpus_snapshot).
THEOREM SnapshotIsLoadable == Spec => []ActiveSnapshotLoadable
<1>1. SInv => ActiveSnapshotLoadable
  <2> SUFFICES ASSUME SInv, pointer # None
               PROVE  SnapshotLoadable(pointer)
    BY DEF ActiveSnapshotLoadable, SnapshotLoadable, Published
  <2>1. pointer \in Vers
    BY DEF SInv, IInv, TypeOK, VersOrNone
  <2> QED
    BY <2>1 DEF SInv, PointerOK, SnapshotsOK
<1> QED
  BY <1>1, SnapshotsInductive, PTL

-----------------------------------------------------------------------------
(* No publication after the removal of the upload *)

\* Only the commit of a successful run gives a document another version.
LEMMA OthersServeNothingNew ==
  ASSUME SInv, [Next]_vars, \A w \in Workers : ~CommitIngest(w), NEW d \in Docs
  PROVE  doc'[d].active \in {None, doc[d].active}
<1>0. doc \in [Docs -> DocRow]
  BY DEF SInv, IInv, TypeOK
<1>1. ASSUME doc' = doc PROVE doc'[d].active = doc[d].active
  BY <1>1
<1>2. ASSUME NEW r \in Reqs, ApiStep(r) PROVE doc'[d].active = doc[d].active
  <2>1. CASE CommitRequest(r)
    BY <1>0, <2>1 DEF CommitRequest, DocRow
  <2>2. CASE ~CommitRequest(r)
    BY <1>1, <1>2, <2>2 DEF ApiStep, Upload, RequestReindex, RequestDelete, RetryJob, Dispatch,
                            DispatchFails, RequestFails, dbVars
  <2> QED
    BY <2>1, <2>2
<1>3. ASSUME NEW w \in Workers, WorkerStep(w) \/ Abort(w) \/ Crash(w)
      PROVE  doc'[d].active \in {None, doc[d].active}
  <2>1. CASE CommitFailure(w)
    <3>1. doc' = [doc EXCEPT ![DocOf(w)] = [st |-> StatusAfterFailure(w), active |-> doc[DocOf(w)].active]]
      BY <2>1 DEF CommitFailure, ActiveAfterFailure
    <3> QED
      BY <1>0, <3>1
  <2>2. CASE CommitDelete(w) \/ CommitDeleteFailure(w)
    <3>1. RetiredActive(w) \in {None, doc[DocOf(w)].active}
      BY DEF RetiredActive
    <3>2. \E s : doc' = [doc EXCEPT ![DocOf(w)] = [st |-> s, active |-> RetiredActive(w)]]
      BY <2>2 DEF CommitDelete, CommitDeleteFailure
    <3> QED
      BY <1>0, <3>1, <3>2
  <2>3. CASE IngestStep(w) /\ ~CommitFailure(w)
    BY <1>1, <2>3 DEF IngestStep, Begin, Parse, Index, SkipIndex, ActivateArtifact, ReadPointer,
                      SwitchPointer, Fail, dbVars
  <2>4. CASE DeleteStep(w) /\ ~CommitDelete(w) /\ ~CommitDeleteFailure(w)
    BY <1>1, <2>4 DEF DeleteStep, BeginDelete, RemoveArtifacts, RemoveArtifactsFails, Unlink,
                      UnlinkFails, dbVars
  <2>5. CASE \/ Startup(w) \/ Take(w) \/ Discard(w) \/ ReadDocument(w)
             \/ Ack(w) \/ Abort(w) \/ Crash(w)
    BY <1>1, <2>5 DEF Startup, Take, Discard, ReadDocument, Ack, Abort, Crash, dbVars
  <2> QED
    BY <1>3, <2>1, <2>2, <2>3, <2>4, <2>5 DEF WorkerStep
<1>4. CASE UNCHANGED vars
  BY <1>1, <1>4 DEF vars
<1> QED
  BY <1>2, <1>3, <1>4 DEF Next

\* The advisory lock does its work: however a clean-up, a retry and a reindex of a document
\* meet, a version is published only while the upload it was parsed from is there.
THEOREM PublishesWithUpload == Spec => NoPublishAfterRemoval
<1>1. ASSUME SInv, [Next]_vars, NEW d \in Docs, doc'[d].active \notin {None, doc[d].active}
      PROVE  d \in uploads
  <2>1. PICK w \in Workers : CommitIngest(w)
    BY <1>1, OthersServeNothingNew
  <2>2. wk[w].pc = "finalizing" /\ "finalizing" \in IngestPcs
    BY <2>1 DEF CommitIngest, IngestPcs
  <2>3. DocOf(w) \in uploads
    BY <1>1, <2>2 DEF SInv, RunsOK, RunOK, DocOf
  <2>4. doc' = [doc EXCEPT ![DocOf(w)] = [st |-> "ready", active |-> wk[w].v]]
    BY <2>1 DEF CommitIngest
  <2>5. d = DocOf(w)
    BY <1>1, <2>4 DEF SInv, IInv, TypeOK
  <2> QED
    BY <2>3, <2>5
<1>2. SInv /\ [Next]_vars =>
        [\A d \in Docs : doc'[d].active \notin {None, doc[d].active} => d \in uploads]_vars
  BY <1>1
<1> QED
  BY <1>2, SnapshotsInductive, PTL DEF Spec, NoPublishAfterRemoval

-----------------------------------------------------------------------------
(***************************************************************************)
(* For a deployment with one worker process.                               *)
(*                                                                         *)
(* With one worker nothing commits between a run's reads and its commit    *)
(* but requests, which write statuses and jobs: what a run has read as the *)
(* prior version, the active snapshot and the other documents' versions is *)
(* still true when it commits.  OInv says so, and what the files are then. *)
(***************************************************************************)

\* WorkerSettings.max_jobs = 1 and one worker process.
OneWorker == \A w, u \in Workers : w = u

\* What a run has read is still so.
ReadsOK(m) ==
  LET d == job[m.job].doc IN
  /\ m.pc \in RunPcs \cup {"loaded"} => m.prior = doc[d].active
  /\ m.pc \in BusyPcs \ {"committed"} => job[m.job].st \in {"queued", "failed"}
  /\ m.pc \in IngestPcs => job[m.job].kind # "delete_cleanup"
  /\ m.pc \in DeletePcs => job[m.job].kind = "delete_cleanup"
  /\ m.pc = "pointing" \/ (m.switched /\ m.pc \in IngestPcs)
       => m.oldSnap = pointer /\ (m.oldWasActive <=> pointer # None)

\* The snapshot of a run: when it is there, and what it names.
BuildOK(m) ==
  m.pc \in IngestPcs =>
    /\ m.pc \in {"parsing", "chunking"} => ~m.built
    /\ m.pc \in {"switching", "pointing"} => m.built
    /\ m.pc \in {"parsing", "chunking", "activating", "switching", "pointing"} => ~m.switched
    /\ m.pc = "finalizing" => (m.switched <=> m.built)
    /\ m.built =>
         /\ m.docs[job[m.job].doc] = m.v
         /\ \A d \in Docs : d # job[m.job].doc /\ Compatible(d) => m.docs[d] = doc[d].active

\* The files of a run.
RunFilesOK(m) ==
  LET d == job[m.job].doc IN
  /\ m.pc \in {"switching", "pointing", "finalizing"} /\ d \in PdfDocs => ir[m.v] = "versions"
  /\ m.pc \in {"unlinking", "removed"} => m.retired
  /\ m.pc = "removed" => d \notin uploads

TaskOK(m) == ReadsOK(m) /\ BuildOK(m) /\ RunFilesOK(m)
TasksOK == \A w \in Workers : TaskOK(wk[w])

\* A job or a version is one of a document that exists; a request is about one, or brings
\* its file.
DocsExist ==
  /\ \A j \in Jobs : IF job[j].st = "absent" THEN job[j].doc = None
                                             ELSE doc[job[j].doc].st # "absent"
  /\ \A v \in Vers : ver[v].st # "absent" => ver[v].doc \in Docs /\ doc[ver[v].doc].st # "absent"
  /\ \A r \in Reqs : LET q == req[r] IN
       q.pc \in Uncommitted =>
         /\ q.write \in {None, "queued", "deleting"}
         /\ doc[q.doc].st # "absent" \/ (q.doc \in uploads /\ q.write = "queued")

\* A document that was cleaned up has no file and serves nothing.
CleanedUp ==
  \A d \in Docs : (\E j \in DeleteJobs(d) : job[j].st = "succeeded") =>
    d \notin uploads /\ doc[d].active = None

OInv ==
  /\ SInv
  /\ TasksOK
  /\ DocsExist
  /\ CleanedUp
  /\ OneActiveSnapshot
  /\ ServedDataDurable

-----------------------------------------------------------------------------
(* Steps of the worker that change no row *)

\* Only the worker's record, messages and files change: its new task is shown by the
\* caller, and that a file is only lost to a clean-up.
LEMMA QuietMoves ==
  ASSUME OneWorker, OInv, SInv', NEW w \in Workers,
         UNCHANGED <<doc, job, ver, snap, pointer, req>>,
         TaskOK(wk[w])',
         uploads' \subseteq uploads, \A d \in uploads \ uploads' : DeleteJobs(d) # {},
         \A v \in Vers :
           ver[v].st = "ready" /\ DeleteJobs(ver[v].doc) = {} /\ ir[v] = "versions"
             => ir'[v] = "versions"
  PROVE  OInv'
<1>1. TasksOK'
  BY DEF TasksOK, OneWorker
<1>2. \A d \in Docs : DeleteJobs(d)' = DeleteJobs(d)
  BY DEF DeleteJobs
<1>3. \A d \in Docs : DeleteJobs(d) # {} => doc[d].st # "absent"
  BY ConstantsAssumption DEF DeleteJobs, OInv, DocsExist
<1>4. DocsExist'
  BY <1>3 DEF OInv, DocsExist, SInv, IInv, TypeOK
<1>5. CleanedUp'
  BY <1>2 DEF OInv, CleanedUp
<1>6. OneActiveSnapshot'
  BY DEF OInv, OneActiveSnapshot
<1>7. ServedDataDurable'
  <2> SUFFICES ASSUME NEW d \in Docs, DeleteJobs(d) = {}, doc[d].st # "absent"
               PROVE  /\ d \in uploads'
                      /\ doc[d].active # None /\ d \in PdfDocs => ir'[doc[d].active] = "versions"
                      /\ \A v \in Vers : ver[v].st = "ready" /\ ver[v].doc = d => v = doc[d].active
    BY <1>2 DEF ServedDataDurable
  <2>1. d \in uploads'
    BY DEF OInv, ServedDataDurable
  <2>2. doc[d].active # None =>
          doc[d].active \in Vers /\ ver[doc[d].active].st = "ready" /\ ver[doc[d].active].doc = d
    BY DEF OInv, SInv, IInv, TypeOK, DocRow, VersOrNone, ActiveVersionReady
  <2> QED
    BY <2>1, <2>2 DEF OInv, ServedDataDurable
<1> QED
  BY <1>1, <1>4, <1>5, <1>6, <1>7 DEF OInv

\* A worker without a task.
LEMMA NoTask ==
  ASSUME NEW w \in Workers, wk'[w].pc \in {"down", "idle", "committed"}
  PROVE  TaskOK(wk[w])'
  BY DEF TaskOK, ReadsOK, BuildOK, RunFilesOK, RunPcs, BusyPcs, IngestPcs, DeletePcs

LEMMA RestTask ==
  ASSUME OInv, NEW w \in Workers, NEW p \in {"down", "idle"}, Rest(w, p)
  PROVE  TaskOK(wk[w])'
<1>1. wk'[w].pc = p
  BY DEF Rest, RestingWorker, OInv, SInv, IInv, TypeOK
<1> QED
  BY <1>1, NoTask

LEMMA RestQuiet ==
  ASSUME OneWorker, OInv, SInv', NEW w \in Workers,
         Startup(w) \/ Ack(w) \/ Abort(w) \/ Crash(w)
  PROVE  OInv'
<1>1. TaskOK(wk[w])'
  BY RestTask DEF Startup, Ack, Abort, Crash
<1>2. UNCHANGED <<doc, job, ver, snap, pointer, req, uploads>>
  BY DEF Startup, Ack, Abort, Crash, dbVars, fsVars
<1>3. \A v \in Vers : ver[v].st = "ready" => ir'[v] = ir[v]
  BY DEF Startup, Ack, Abort, Crash, dbVars, fsVars, Orphans
<1> QED
  BY <1>1, <1>2, <1>3, QuietMoves

\* The fields of a worker that moves on.
LEMMA GotoFields ==
  ASSUME OInv, NEW w \in Workers, NEW p, Goto(w, p)
  PROVE  /\ wk'[w].pc = p /\ wk'[w].job = wk[w].job /\ wk'[w].st = wk[w].st
         /\ wk'[w].prior = wk[w].prior /\ wk'[w].v = wk[w].v /\ wk'[w].built = wk[w].built
         /\ wk'[w].docs = wk[w].docs /\ wk'[w].oldSnap = wk[w].oldSnap
         /\ wk'[w].oldWasActive = wk[w].oldWasActive /\ wk'[w].switched = wk[w].switched
         /\ wk'[w].retired = wk[w].retired
  BY DEF Goto, OInv, SInv, IInv, TypeOK, Worker

LEMMA TaskNow ==
  ASSUME OInv, NEW w \in Workers
  PROVE  ReadsOK(wk[w]) /\ BuildOK(wk[w]) /\ RunFilesOK(wk[w]) /\ RunOK(wk[w])
  BY DEF OInv, TasksOK, TaskOK, SInv, RunsOK

\* What the run has read stays read while it moves on within the ingest or the clean-up.
LEMMA GotoReads ==
  ASSUME OInv, NEW w \in Workers, NEW p \in RunPcs, Goto(w, p), UNCHANGED <<doc, job, pointer>>,
         wk[w].pc \in RunPcs, p \in IngestPcs <=> wk[w].pc \in IngestPcs, p # "pointing"
  PROVE  ReadsOK(wk[w])'
<1>1. ReadsOK(wk[w])
  BY TaskNow
<1>2. p \in BusyPcs /\ wk[w].pc \in BusyPcs \ {"committed"} /\ (p \in DeletePcs => wk[w].pc \in DeletePcs)
  BY RunPcFacts DEF RunPcs
<1> QED
  BY <1>1, <1>2, GotoFields, RunPcFacts DEF ReadsOK

\* The snapshot in hand is the same, and still covers what is READY.
LEMMA GotoBuild ==
  ASSUME OInv, NEW w \in Workers, NEW p \in RunPcs, Goto(w, p), UNCHANGED <<doc, job, ver>>,
         wk[w].pc \in RunPcs, p \in IngestPcs <=> wk[w].pc \in IngestPcs,
         p \in {"parsing", "chunking"} => ~wk[w].built,
         p \in {"switching", "pointing"} => wk[w].built,
         p \in {"parsing", "chunking", "activating", "switching", "pointing"} => ~wk[w].switched,
         p = "finalizing" => (wk[w].switched <=> wk[w].built)
  PROVE  BuildOK(wk[w])'
<1>1. BuildOK(wk[w])
  BY TaskNow
<1> QED
  BY <1>1, GotoFields DEF BuildOK, Compatible

\* The job of a run exists; that of a clean-up is a delete job of its document.
LEMMA JobOfRun ==
  ASSUME OInv, NEW w \in Workers, wk[w].pc \in BusyPcs
  PROVE  /\ wk[w].job \in Jobs /\ DocOf(w) \in Docs /\ doc[DocOf(w)].st # "absent"
         /\ wk[w].pc \in DeletePcs => DeleteJobs(DocOf(w)) # {}
         /\ wk[w].pc \in IngestPcs => wk[w].v \in Vers /\ ver[wk[w].v].st = "absent"
<1>1. wk[w].job \in Jobs /\ job[wk[w].job].st # "absent" /\ DocOf(w) \in Docs
      /\ (wk[w].pc \in IngestPcs => wk[w].v \in Vers /\ ver[wk[w].v].st = "absent")
  BY DocOfBusy DEF OInv, SInv, IInv, WorkersOK, WorkerOK
<1>2. wk[w].pc \in DeletePcs => job[wk[w].job].kind = "delete_cleanup"
  BY TaskNow DEF ReadsOK
<1> QED
  BY <1>1, <1>2 DEF OInv, DocsExist, DocOf, DeleteJobs

\* Parser, activation, handler: the IR of the run's own version moves.
LEMMA IngestQuiet ==
  ASSUME OneWorker, OInv, SInv', NEW w \in Workers,
         Parse(w) \/ SkipIndex(w) \/ ActivateArtifact(w) \/ Fail(w)
  PROVE  OInv'
<1>0. UNCHANGED <<doc, job, ver, snap, pointer, req, uploads>>
  BY DEF Parse, SkipIndex, ActivateArtifact, Fail, dbVars, fsVars
<1>1. wk[w].pc \in IngestPcs /\ wk[w].pc \in RunPcs /\ wk[w].pc \in BusyPcs
  BY RunPcFacts DEF Parse, SkipIndex, ActivateArtifact, Fail, IngestPcs
<1>2. /\ ReadsOK(wk[w]) /\ BuildOK(wk[w]) /\ RunFilesOK(wk[w])
      /\ wk[w].v \in Vers /\ ver[wk[w].v].st = "absent" /\ ir \in [Vers -> IrPlace]
  BY <1>1, TaskNow, JobOfRun DEF OInv, SInv, IInv, TypeOK
<1>3. \A v \in Vers : ver[v].st = "ready" => ir'[v] = ir[v]
  BY <1>2 DEF Parse, SkipIndex, ActivateArtifact, Fail, fsVars
<1>4. PICK p \in IngestPcs \ {"parsing", "pointing"} : Goto(w, p)
  BY DEF Parse, SkipIndex, ActivateArtifact, Fail, IngestPcs
<1>5. ReadsOK(wk[w])'
  BY <1>0, <1>1, <1>4, GotoReads, RunPcFacts
<1>6. BuildOK(wk[w])' /\ RunFilesOK(wk[w])'
  <2>1. CASE Parse(w)
    <3>1. Goto(w, "chunking") /\ wk[w].pc = "parsing"
      BY <2>1 DEF Parse
    <3>2. "chunking" \in IngestPcs /\ "chunking" \in RunPcs /\ ~wk[w].built /\ ~wk[w].switched
      BY <1>1, <1>2, <3>1, RunPcFacts DEF BuildOK, IngestPcs
    <3> QED
      BY <1>0, <1>1, <3>1, <3>2, GotoBuild, GotoFields DEF RunFilesOK
  <2>2. CASE SkipIndex(w)
    <3>1. Goto(w, "activating") /\ wk[w].pc = "chunking"
      BY <2>2 DEF SkipIndex
    <3>2. "activating" \in IngestPcs /\ "activating" \in RunPcs /\ ~wk[w].switched
      BY <1>1, <1>2, <3>1, RunPcFacts DEF BuildOK, IngestPcs
    <3> QED
      BY <1>0, <1>1, <3>1, <3>2, GotoBuild, GotoFields DEF RunFilesOK
  <2>3. CASE ActivateArtifact(w)
    <3>1. Goto(w, IF wk[w].built THEN "switching" ELSE "finalizing") /\ wk[w].pc = "activating"
      BY <2>3 DEF ActivateArtifact
    <3>2. {"switching", "finalizing"} \subseteq IngestPcs \cap RunPcs /\ ~wk[w].switched
      BY <1>1, <1>2, <3>1, RunPcFacts DEF BuildOK, IngestPcs
    <3>3. BuildOK(wk[w])'
      BY <1>0, <1>1, <3>1, <3>2, GotoBuild
    <3>4. DocOf(w) \in PdfDocs => ir'[wk[w].v] = "versions"
      BY <1>2, <2>3 DEF ActivateArtifact
    <3>5. wk'[w].pc \notin {"unlinking", "removed"} /\ wk'[w].job = wk[w].job /\ wk'[w].v = wk[w].v
      BY <3>1, GotoFields
    <3> QED
      BY <1>0, <3>3, <3>4, <3>5 DEF RunFilesOK, DocOf
  <2>4. CASE Fail(w)
    <3>1. Goto(w, "failing")
      BY <2>4 DEF Fail
    <3>2. "failing" \in IngestPcs /\ "failing" \in RunPcs
      BY RunPcFacts DEF IngestPcs
    <3> QED
      BY <1>0, <1>1, <3>1, <3>2, GotoBuild, GotoFields DEF RunFilesOK
  <2> QED
    BY <2>1, <2>2, <2>3, <2>4
<1> QED
  BY <1>0, <1>3, <1>5, <1>6, QuietMoves DEF TaskOK

\* A clean-up takes the files of a document that has a delete job.
LEMMA DeleteQuiet ==
  ASSUME OneWorker, OInv, SInv', NEW w \in Workers,
         RemoveArtifacts(w) \/ RemoveArtifactsFails(w) \/ Unlink(w) \/ UnlinkFails(w)
  PROVE  OInv'
<1>0. UNCHANGED <<doc, job, ver, snap, pointer, req>>
  BY DEF RemoveArtifacts, RemoveArtifactsFails, Unlink, UnlinkFails, dbVars, fsVars
<1>1. wk[w].pc \in DeletePcs /\ wk[w].pc \in RunPcs /\ wk[w].pc \in BusyPcs /\ wk[w].pc \notin IngestPcs
  BY RunPcFacts DEF RemoveArtifacts, RemoveArtifactsFails, Unlink, UnlinkFails, DeletePcs, IngestPcs
<1>2. /\ ReadsOK(wk[w]) /\ BuildOK(wk[w]) /\ RunFilesOK(wk[w])
      /\ DeleteJobs(DocOf(w)) # {} /\ ir \in [Vers -> IrPlace] /\ wk[w] \in Worker
  BY <1>1, TaskNow, JobOfRun DEF OInv, SInv, IInv, TypeOK
<1>3. uploads' \subseteq uploads /\ \A d \in uploads \ uploads' : DeleteJobs(d) # {}
  BY <1>2 DEF RemoveArtifacts, RemoveArtifactsFails, Unlink, UnlinkFails, fsVars
<1>4. \A v \in Vers : ver[v].doc # DocOf(w) => ir'[v] = ir[v]
  BY <1>2 DEF RemoveArtifacts, RemoveArtifactsFails, Unlink, UnlinkFails, fsVars, RemoveDirs, Artifacts
<1>5. /\ wk'[w].pc \in DeletePcs \ {"cleaning"} /\ wk'[w].pc \notin IngestPcs
      /\ wk'[w].job = wk[w].job /\ wk'[w].prior = wk[w].prior
      /\ wk'[w].pc \in {"unlinking", "removed"} => wk'[w].retired
      /\ wk'[w].pc = "removed" => DocOf(w) \notin uploads'
  <2>1. CASE RemoveArtifacts(w)
    <3>1. wk' = [wk EXCEPT ![w] = [@ EXCEPT !.pc = "unlinking", !.retired = TRUE]]
      BY <2>1 DEF RemoveArtifacts
    <3>2. wk'[w] = [wk[w] EXCEPT !.pc = "unlinking", !.retired = TRUE]
      BY <3>1 DEF OInv, SInv, IInv, TypeOK
    <3> QED
      BY <1>2, <3>2 DEF Worker, DeletePcs, IngestPcs
  <2>2. CASE RemoveArtifactsFails(w) \/ UnlinkFails(w)
    BY <2>2, GotoFields DEF RemoveArtifactsFails, UnlinkFails, DeletePcs, IngestPcs
  <2>3. CASE Unlink(w)
    <3>1. Goto(w, "removed") /\ uploads' = uploads \ {DocOf(w)} /\ wk[w].retired
      BY <1>2, <2>3 DEF Unlink, RunFilesOK
    <3> QED
      BY <3>1, GotoFields DEF DeletePcs, IngestPcs
  <2> QED
    BY <2>1, <2>2, <2>3
<1>6. wk'[w].pc \in RunPcs /\ wk'[w].pc \in BusyPcs \ {"committed"}
  BY <1>5, RunPcFacts DEF RunPcs
<1>7. ReadsOK(wk[w])'
  BY <1>0, <1>1, <1>2, <1>5, <1>6, RunPcFacts DEF ReadsOK, IngestPcs
<1>8. BuildOK(wk[w])' /\ RunFilesOK(wk[w])'
  BY <1>0, <1>5 DEF BuildOK, RunFilesOK, DocOf, IngestPcs
<1> QED
  BY <1>0, <1>3, <1>4, <1>7, <1>8, <1>2, QuietMoves DEF TaskOK

\* The job is taken, the document read, the lock granted.
LEMMA EarlyQuiet ==
  ASSUME OneWorker, OInv, SInv', NEW w \in Workers,
         Take(w) \/ ReadDocument(w) \/ Begin(w) \/ BeginDelete(w)
  PROVE  OInv'
<1>0. UNCHANGED <<doc, job, ver, snap, pointer, req, uploads, ir>>
  BY DEF Take, ReadDocument, Begin, BeginDelete, dbVars, fsVars
<1>1. /\ ReadsOK(wk[w]) /\ BuildOK(wk[w]) /\ RunFilesOK(wk[w]) /\ RunOK(wk[w])
      /\ wk[w] \in Worker
  BY TaskNow DEF OInv, SInv, IInv, TypeOK
<1>2. TaskOK(wk[w])'
  <2>1. CASE Take(w)
    <3>1. PICK msg \in queue :
            /\ Runnable(msg.job)
            /\ wk' = [wk EXCEPT ![w] = [RestingWorker("taken") EXCEPT !.job = msg.job, !.copy = msg.copy]]
      BY <2>1 DEF Take
    <3>2. wk'[w] = [RestingWorker("taken") EXCEPT !.job = msg.job, !.copy = msg.copy]
      BY <3>1 DEF OInv, SInv, IInv, TypeOK
    <3>3. wk'[w].pc = "taken" /\ wk'[w].job = msg.job
      BY <3>2 DEF RestingWorker
    <3>4. /\ "taken" \notin RunPcs /\ "taken" \notin IngestPcs /\ "taken" \notin DeletePcs
      BY RunPcFacts
    <3> QED
      BY <1>0, <3>1, <3>3, <3>4 DEF TaskOK, ReadsOK, BuildOK, RunFilesOK, Runnable
  <2>2. CASE ReadDocument(w)
    <3>1. wk'[w] = [wk[w] EXCEPT !.pc = "loaded", !.st = doc[DocOf(w)].st, !.prior = doc[DocOf(w)].active]
          /\ wk[w].pc = "taken"
      BY <2>2 DEF ReadDocument, OInv, SInv, IInv, TypeOK
    <3>2. wk'[w].pc = "loaded" /\ wk'[w].job = wk[w].job /\ wk'[w].prior = doc[DocOf(w)].active
      BY <1>1, <3>1 DEF Worker
    <3>3. job[wk[w].job].st \in {"queued", "failed"}
      BY <1>1, <3>1 DEF ReadsOK, BusyPcs
    <3>4. /\ "loaded" \notin IngestPcs /\ "loaded" \notin DeletePcs
      BY RunPcFacts
    <3> QED
      BY <1>0, <3>2, <3>3, <3>4 DEF TaskOK, ReadsOK, BuildOK, RunFilesOK, DocOf
  <2>3. CASE Begin(w)
    <3>1. PICK v \in FreshVers : wk' = [wk EXCEPT ![w] = [@ EXCEPT !.pc = "parsing", !.v = v]]
      BY <2>3 DEF Begin
    <3>2. wk'[w] = [wk[w] EXCEPT !.pc = "parsing", !.v = v]
      BY <3>1 DEF OInv, SInv, IInv, TypeOK
    <3>3. /\ wk'[w].pc = "parsing" /\ wk'[w].job = wk[w].job /\ wk'[w].prior = wk[w].prior
          /\ wk'[w].built = wk[w].built /\ wk'[w].switched = wk[w].switched
      BY <1>1, <3>2 DEF Worker
    <3>4. wk[w].pc = "loaded" /\ KindOf(w) # "delete_cleanup"
      BY <2>3 DEF Begin
    <3>5. ~wk[w].built /\ ~wk[w].switched
      BY <1>1, <3>4 DEF RunOK
    <3>6. job[wk[w].job].st \in {"queued", "failed"} /\ wk[w].prior = doc[DocOf(w)].active
      BY <1>1, <3>4 DEF ReadsOK, BusyPcs, DocOf
    <3>7. "parsing" \in IngestPcs /\ "parsing" \notin DeletePcs /\ "parsing" \in RunPcs
      BY RunPcFacts DEF IngestPcs
    <3>8. ReadsOK(wk[w])'
      BY <1>0, <3>3, <3>4, <3>5, <3>6, <3>7 DEF ReadsOK, DocOf, KindOf
    <3> QED
      BY <3>3, <3>5, <3>8 DEF TaskOK, BuildOK, RunFilesOK
  <2>4. CASE BeginDelete(w)
    <3>1. wk[w].pc = "loaded" /\ KindOf(w) = "delete_cleanup" /\ Goto(w, "cleaning")
      BY <2>4 DEF BeginDelete
    <3>2. job[wk[w].job].st \in {"queued", "failed"} /\ wk[w].prior = doc[DocOf(w)].active
      BY <1>1, <3>1 DEF ReadsOK, BusyPcs, DocOf
    <3>3. "cleaning" \notin IngestPcs
      BY DEF IngestPcs
    <3> QED
      BY <1>0, <3>1, <3>2, <3>3, GotoFields DEF TaskOK, ReadsOK, BuildOK, RunFilesOK, DocOf, KindOf
  <2> QED
    BY <2>1, <2>2, <2>3, <2>4
<1> QED
  BY <1>0, <1>2, QuietMoves

\* The snapshot is built from what documents serve, and put in the pointer's place.
LEMMA SnapshotQuiet ==
  ASSUME OneWorker, OInv, SInv', NEW w \in Workers,
         Index(w) \/ ReadPointer(w) \/ SwitchPointer(w)
  PROVE  OInv'
<1>0. UNCHANGED <<doc, job, ver, snap, pointer, req, uploads, ir>>
  BY DEF Index, ReadPointer, SwitchPointer, dbVars, fsVars
<1>1. /\ ReadsOK(wk[w]) /\ BuildOK(wk[w]) /\ RunFilesOK(wk[w])
      /\ wk[w] \in Worker
  BY TaskNow DEF OInv, SInv, IInv, TypeOK
<1>2. /\ wk[w].pc \in IngestPcs /\ wk[w].pc \in RunPcs /\ wk[w].pc \in BusyPcs \ {"committed"}
      /\ wk[w].pc \notin DeletePcs /\ DocOf(w) \in Docs
  BY RunPcFacts, JobOfRun DEF Index, ReadPointer, SwitchPointer, IngestPcs
<1>3. /\ job[wk[w].job].st \in {"queued", "failed"} /\ KindOf(w) # "delete_cleanup"
      /\ wk[w].prior = doc[DocOf(w)].active
  BY <1>1, <1>2 DEF ReadsOK, DocOf, KindOf
<1>4. {"activating", "pointing", "finalizing"} \subseteq (IngestPcs \cap RunPcs) \ DeletePcs
  BY RunPcFacts DEF IngestPcs
<1>5. TaskOK(wk[w])'
  <2>1. CASE Index(w)
    <3> DEFINE docs == [x \in Docs |-> IF x = DocOf(w) THEN wk[w].v
                                       ELSE IF Compatible(x) THEN doc[x].active ELSE None]
    <3>1. wk'[w] = [wk[w] EXCEPT !.pc = "activating", !.embedded = TRUE, !.built = TRUE, !.docs = docs]
      BY <2>1 DEF Index, OInv, SInv, IInv, TypeOK
    <3>2. docs[DocOf(w)] = wk[w].v /\ \A d \in Docs : d # DocOf(w) /\ Compatible(d) => docs[d] = doc[d].active
      BY <1>2
    <3> HIDE DEF docs
    <3>3. /\ wk'[w].pc = "activating" /\ wk'[w].job = wk[w].job /\ wk'[w].prior = wk[w].prior
          /\ wk'[w].v = wk[w].v /\ wk'[w].switched = wk[w].switched /\ wk'[w].docs = docs
      BY <1>1, <3>1 DEF Worker
    <3>4. ~wk[w].switched
      BY <1>1, <1>2, <2>1 DEF BuildOK, Index
    <3>5. ReadsOK(wk[w])'
      BY <1>0, <1>3, <1>4, <3>3, <3>4 DEF ReadsOK, DocOf, KindOf
    <3>6. BuildOK(wk[w])'
      BY <1>0, <3>2, <3>3, <3>4 DEF BuildOK, Compatible, DocOf
    <3> QED
      BY <3>3, <3>5, <3>6 DEF TaskOK, RunFilesOK
  <2>2. CASE ReadPointer(w)
    <3> DEFINE wasActive == pointer # None /\ snap[pointer].st = "active"
    <3>1. wk'[w] = [wk[w] EXCEPT !.pc = "pointing", !.oldSnap = pointer, !.oldWasActive = wasActive]
          /\ wk[w].pc = "switching"
      BY <2>2 DEF ReadPointer, OInv, SInv, IInv, TypeOK
    <3>2. wasActive <=> pointer # None
      BY DEF OInv, OneActiveSnapshot, SInv, IInv, TypeOK, VersOrNone
    <3> HIDE DEF wasActive
    <3>3. /\ wk'[w].pc = "pointing" /\ wk'[w].job = wk[w].job /\ wk'[w].prior = wk[w].prior
          /\ wk'[w].v = wk[w].v /\ wk'[w].switched = wk[w].switched /\ wk'[w].docs = wk[w].docs
          /\ wk'[w].built = wk[w].built /\ wk'[w].oldSnap = pointer
      BY <1>1, <3>1 DEF Worker
    <3>4. wk'[w].oldWasActive = wasActive
      BY <1>1, <3>1 DEF Worker
    <3>5. wk[w].built /\ ~wk[w].switched
      BY <1>1, <1>2, <3>1 DEF BuildOK
    <3>6. ReadsOK(wk[w])'
      BY <1>0, <1>3, <1>4, <3>2, <3>3, <3>4 DEF ReadsOK, DocOf, KindOf
    <3>7. BuildOK(wk[w])'
      BY <1>0, <1>1, <1>2, <3>3, <3>5 DEF BuildOK, Compatible
    <3>8. RunFilesOK(wk[w])'
      BY <1>0, <1>1, <3>1, <3>3 DEF RunFilesOK
    <3> QED
      BY <3>6, <3>7, <3>8 DEF TaskOK
  <2>3. CASE SwitchPointer(w)
    <3>1. wk'[w] = [wk[w] EXCEPT !.pc = "finalizing", !.switched = TRUE] /\ wk[w].pc = "pointing"
      BY <2>3 DEF SwitchPointer, OInv, SInv, IInv, TypeOK
    <3>2. /\ wk'[w].pc = "finalizing" /\ wk'[w].job = wk[w].job /\ wk'[w].prior = wk[w].prior
          /\ wk'[w].v = wk[w].v /\ wk'[w].switched /\ wk'[w].docs = wk[w].docs
          /\ wk'[w].built = wk[w].built /\ wk'[w].oldSnap = wk[w].oldSnap
          /\ wk'[w].oldWasActive = wk[w].oldWasActive
      BY <1>1, <3>1 DEF Worker
    <3>3. wk[w].built
      BY <1>1, <1>2, <3>1 DEF BuildOK
    <3>4. wk[w].oldSnap = pointer /\ (wk[w].oldWasActive <=> pointer # None)
      BY <1>1, <3>1 DEF ReadsOK
    <3>5. ReadsOK(wk[w])'
      BY <1>0, <1>3, <1>4, <3>2, <3>4 DEF ReadsOK, DocOf, KindOf
    <3>6. BuildOK(wk[w])'
      BY <1>0, <1>1, <1>2, <3>2, <3>3 DEF BuildOK, Compatible
    <3>7. RunFilesOK(wk[w])'
      BY <1>0, <1>1, <3>1, <3>2 DEF RunFilesOK
    <3> QED
      BY <3>5, <3>6, <3>7 DEF TaskOK
  <2> QED
    BY <2>1, <2>2, <2>3
<1> QED
  BY <1>0, <1>5, QuietMoves

LEMMA DiscardQuiet ==
  ASSUME OneWorker, OInv, SInv', NEW w \in Workers, Discard(w)
  PROVE  OInv'
<1>1. UNCHANGED <<doc, job, ver, snap, pointer, req, uploads, ir, wk>>
  BY DEF Discard, dbVars, fsVars
<1>2. TaskOK(wk[w])'
  BY <1>1, TaskNow DEF TaskOK, ReadsOK, BuildOK, Compatible, RunFilesOK
<1> QED
  BY <1>1, <1>2, QuietMoves

-----------------------------------------------------------------------------
(* Steps of a request *)

\* A request opens, sends its message or ends; the only file it brings is that of a
\* document that does not exist yet.
LEMMA RequestQuietMoves ==
  ASSUME OInv, SInv', NEW r \in Reqs,
         UNCHANGED <<doc, job, ver, snap, pointer, wk, ir>>,
         uploads \subseteq uploads', \A d \in uploads' \ uploads : doc[d].st = "absent",
         \A o \in Reqs \ {r} : req'[o] = req[o],
         req'[r].pc \in Uncommitted =>
           /\ req'[r].write \in {None, "queued", "deleting"}
           /\ \/ doc[req'[r].doc].st # "absent"
              \/ req'[r].doc \in uploads' /\ req'[r].write = "queued"
  PROVE  OInv'
<1>1. TasksOK'
  <2> SUFFICES ASSUME NEW w \in Workers PROVE TaskOK(wk[w])'
    BY DEF TasksOK
  <2>1. ReadsOK(wk[w]) /\ BuildOK(wk[w]) /\ RunFilesOK(wk[w])
    BY TaskNow
  <2>2. wk[w].pc = "removed" => doc[DocOf(w)].st # "absent"
    BY JobOfRun DEF BusyPcs, DeletePcs
  <2>3. RunFilesOK(wk[w])'
    BY <2>1, <2>2 DEF RunFilesOK, DocOf
  <2> QED
    BY <2>1, <2>3 DEF TaskOK, ReadsOK, BuildOK, Compatible
<1>2. DocsExist'
  BY DEF OInv, DocsExist
<1>3. \A d \in Docs : DeleteJobs(d)' = DeleteJobs(d)
  BY DEF DeleteJobs
<1>4. \A d \in Docs : DeleteJobs(d) # {} => doc[d].st # "absent"
  BY ConstantsAssumption DEF DeleteJobs, OInv, DocsExist
<1>5. CleanedUp'
  BY <1>3, <1>4 DEF OInv, CleanedUp
<1>6. (OneActiveSnapshot /\ ServedDataDurable)'
  BY <1>3 DEF OInv, OneActiveSnapshot, ServedDataDurable
<1> QED
  BY <1>1, <1>2, <1>5, <1>6 DEF OInv

LEMMA OpenQuiet ==
  ASSUME OInv, SInv', NEW r \in Reqs,
         Upload(r) \/ RequestReindex(r) \/ RequestDelete(r) \/ RetryJob(r)
  PROVE  OInv'
<1>1. UNCHANGED <<doc, job, ver, snap, pointer, wk, ir>>
  BY DEF Upload, RequestReindex, RequestDelete, RetryJob, dbVars, fsVars
<1>2. uploads \subseteq uploads' /\ \A d \in uploads' \ uploads : doc[d].st = "absent"
  BY DEF Upload, RequestReindex, RequestDelete, RetryJob, FreshDocs, fsVars
<1>3. PICK j, d, k, i, s :
        /\ OpenRequest(r, j, d, k, i, s)
        /\ s \in {None, "queued", "deleting"}
        /\ doc[d].st # "absent" \/ (d \in uploads' /\ s = "queued")
  <2>1. CASE Upload(r)
    BY <2>1 DEF Upload
  <2>2. CASE RequestReindex(r)
    BY <2>2 DEF RequestReindex, Gettable, StatusWrite
  <2>3. CASE RequestDelete(r)
    <3>1. PICK d \in Docs :
            /\ Gettable(d)
            /\ \/ \E j \in ActiveJobs(d, {"delete_cleanup"}) : OpenRequest(r, j, d, "delete_cleanup", FALSE, None)
               \/ \E j \in FreshJobs :
                    OpenRequest(r, j, d, "delete_cleanup", TRUE, StatusWrite(doc[d].st, "deleting"))
      BY <2>3 DEF RequestDelete
    <3>2. doc[d].st # "absent" /\ StatusWrite(doc[d].st, "deleting") \in {None, "deleting"}
      BY <3>1 DEF Gettable, StatusWrite
    <3> QED
      BY <3>1, <3>2
  <2>4. CASE RetryJob(r)
    <3>1. PICK old \in Jobs, j \in FreshJobs :
            /\ job[old].st = "failed"
            /\ OpenRequest(r, j, job[old].doc, job[old].kind, TRUE,
                 IF doc[job[old].doc].st = "deleted" THEN None
                 ELSE StatusWrite(doc[job[old].doc].st, "queued"))
      BY <2>4 DEF RetryJob
    <3>2. doc[job[old].doc].st # "absent"
      BY <3>1 DEF OInv, DocsExist
    <3> QED
      BY <3>1, <3>2 DEF StatusWrite
  <2> QED
    BY <2>1, <2>2, <2>3, <2>4
<1>4. req' = [req EXCEPT ![r] = [pc |-> "open", job |-> j, doc |-> d, kind |-> k,
                                 insert |-> i, write |-> s]]
  BY <1>3 DEF OpenRequest
<1>5. req'[r].doc = d /\ req'[r].write = s /\ \A o \in Reqs \ {r} : req'[o] = req[o]
  BY <1>4 DEF OInv, SInv, IInv, TypeOK
<1> QED
  BY <1>1, <1>2, <1>3, <1>5, RequestQuietMoves

LEMMA DispatchQuiet ==
  ASSUME OInv, SInv', NEW r \in Reqs, Dispatch(r) \/ DispatchFails(r) \/ RequestFails(r)
  PROVE  OInv'
<1>1. UNCHANGED <<doc, job, ver, snap, pointer, wk, ir, uploads>>
  BY DEF Dispatch, DispatchFails, RequestFails, dbVars, fsVars
<1>2. \/ req' = [req EXCEPT ![r] = IdleRequest]
      \/ req[r].pc = "open" /\ req' = [req EXCEPT ![r].pc = "sent"]
  BY DEF Dispatch, DispatchFails, RequestFails, Dispatched
<1>3. req[r] \in Request /\ \A o \in Reqs \ {r} : req'[o] = req[o]
  BY <1>2 DEF OInv, SInv, IInv, TypeOK
<1>4. CASE req' = [req EXCEPT ![r] = IdleRequest]
  <2>1. req'[r].pc \notin Uncommitted
    BY <1>4 DEF OInv, SInv, IInv, TypeOK, IdleRequest, Uncommitted
  <2> QED
    BY <1>1, <1>3, <2>1, RequestQuietMoves
<1>5. CASE req[r].pc = "open" /\ req' = [req EXCEPT ![r].pc = "sent"]
  <2>1. req'[r].doc = req[r].doc /\ req'[r].write = req[r].write /\ req[r].pc \in Uncommitted
    BY <1>3, <1>5 DEF OInv, SInv, IInv, TypeOK, Request, Uncommitted
  <2> QED
    BY <1>1, <1>3, <2>1, RequestQuietMoves DEF OInv, DocsExist
<1> QED
  BY <1>2, <1>4, <1>5

\* A request's commit inserts a job of a document that then exists, and writes no status
\* that a run looks at.
LEMMA CommitRequestQuiet ==
  ASSUME OInv, SInv', NEW r \in Reqs, CommitRequest(r)
  PROVE  OInv'
<1> DEFINE q == req[r]
<1>1. /\ q.pc \in Uncommitted /\ q.job \in Jobs /\ q.doc \in Docs
      /\ q.insert => job[q.job].st = "absent"
      /\ job \in [Jobs -> JobRow] /\ doc \in [Docs -> DocRow]
  BY DEF OInv, SInv, IInv, TypeOK, RequestsOK, RequestOK, CommitRequest, Uncommitted
<1>2. /\ q.write \in {None, "queued", "deleting"}
      /\ doc[q.doc].st # "absent" \/ (q.doc \in uploads /\ q.write = "queued")
  BY <1>1 DEF OInv, DocsExist
<1>3. UNCHANGED <<ver, snap, pointer, uploads, ir, wk>>
  BY DEF CommitRequest, fsVars
<1>4. \A d \in Docs : /\ doc'[d].active = doc[d].active
                      /\ doc'[d].st = doc[d].st \/ (d = q.doc /\ doc'[d].st \in {"queued", "deleting"})
  BY <1>1, <1>2 DEF CommitRequest, DocRow
<1>5. doc'[q.doc].st # "absent" /\ \A d \in Docs : doc[d].st # "absent" => doc'[d].st # "absent"
  <2>1. CASE q.write = None
    BY <1>2, <2>1, NoneAssumption DEF CommitRequest, DocStatus
  <2>2. CASE q.write # None
    BY <1>1, <1>2, <2>2 DEF CommitRequest, DocRow
  <2> QED
    BY <2>1, <2>2
<1>6. \A j \in Jobs : \/ job'[j] = job[j]
                      \/ /\ job[j].st = "absent" /\ job'[j].st = "queued" /\ job'[j].doc = q.doc
  BY <1>1 DEF CommitRequest
<1>7. \A o \in Reqs : /\ req'[o].pc \in Uncommitted => o # r
                      /\ o # r => req'[o] = req[o]
  BY <1>1 DEF CommitRequest, OInv, SInv, IInv, TypeOK, Request, IdleRequest, Uncommitted
<1> HIDE DEF q
<1>8. TasksOK'
  <2> SUFFICES ASSUME NEW w \in Workers PROVE TaskOK(wk[w])'
    BY DEF TasksOK
  <2>1. ReadsOK(wk[w]) /\ BuildOK(wk[w]) /\ RunFilesOK(wk[w])
    BY TaskNow
  <2>2. wk[w].pc \in BusyPcs => /\ job'[wk[w].job] = job[wk[w].job] /\ job[wk[w].job].doc \in Docs
    <3> SUFFICES ASSUME wk[w].pc \in BusyPcs
                 PROVE  job'[wk[w].job] = job[wk[w].job] /\ job[wk[w].job].doc \in Docs
      OBVIOUS
    <3>1. wk[w].job \in Jobs /\ job[wk[w].job].st # "absent" /\ job[wk[w].job].doc \in Docs
      BY DEF OInv, SInv, IInv, WorkersOK, WorkerOK, JobRowsOK
    <3> QED
      BY <1>6, <3>1
  <2>3. RunPcs \cup {"loaded"} \subseteq BusyPcs /\ IngestPcs \subseteq BusyPcs /\ DeletePcs \subseteq BusyPcs
        /\ "pointing" \in IngestPcs /\ {"switching", "finalizing"} \subseteq IngestPcs
        /\ {"unlinking", "removed"} \subseteq DeletePcs
    BY RunPcFacts DEF BusyPcs, IngestPcs, DeletePcs
  <2>4. ReadsOK(wk[w])'
    BY <1>3, <1>4, <2>1, <2>2, <2>3 DEF ReadsOK
  <2>5. \A d \in Docs : Compatible(d)' => Compatible(d)
    BY <1>3, <1>4 DEF Compatible
  <2>6. BuildOK(wk[w])'
    BY <1>3, <1>4, <2>1, <2>2, <2>3, <2>5 DEF BuildOK
  <2>7. RunFilesOK(wk[w])'
    BY <1>3, <2>1, <2>2, <2>3 DEF RunFilesOK
  <2> QED
    BY <2>4, <2>6, <2>7 DEF TaskOK
<1>9. DocsExist'
  <2>1. \A j \in Jobs : IF job'[j].st = "absent" THEN job'[j].doc = None
                                                 ELSE doc'[job'[j].doc].st # "absent"
    <3> SUFFICES ASSUME NEW j \in Jobs, job'[j] = job[j], job[j].st # "absent"
                 PROVE  doc'[job[j].doc].st # "absent"
      BY <1>5, <1>6 DEF OInv, DocsExist
    <3>1. job[j].doc \in Docs /\ doc[job[j].doc].st # "absent"
      BY DEF OInv, DocsExist, SInv, IInv, JobRowsOK
    <3> QED
      BY <1>5, <3>1
  <2>2. \A v \in Vers : ver'[v].st # "absent" =>
          ver'[v].doc \in Docs /\ doc'[ver'[v].doc].st # "absent"
    BY <1>3, <1>5 DEF OInv, DocsExist
  <2>3. \A o \in Reqs : req'[o].pc \in Uncommitted =>
          /\ req'[o].write \in {None, "queued", "deleting"}
          /\ doc'[req'[o].doc].st # "absent" \/ (req'[o].doc \in uploads' /\ req'[o].write = "queued")
    <3> SUFFICES ASSUME NEW o \in Reqs, o # r, req[o].pc \in Uncommitted
                 PROVE  /\ req[o].write \in {None, "queued", "deleting"}
                        /\ doc'[req[o].doc].st # "absent" \/ (req[o].doc \in uploads /\ req[o].write = "queued")
      BY <1>3, <1>7
    <3>1. req[o].doc \in Docs
      BY DEF OInv, SInv, IInv, RequestsOK, RequestOK, Uncommitted
    <3> QED
      BY <1>5, <3>1 DEF OInv, DocsExist
  <2> QED
    BY <2>1, <2>2, <2>3 DEF DocsExist
<1>10. \A d \in Docs : \A j \in DeleteJobs(d) : job'[j] = job[j]
  BY <1>6, ConstantsAssumption DEF DeleteJobs, OInv, DocsExist
<1>11. CleanedUp'
  <2> SUFFICES ASSUME NEW d \in Docs, NEW j \in DeleteJobs(d)', job'[j].st = "succeeded"
               PROVE  d \notin uploads' /\ doc'[d].active = None
    BY DEF CleanedUp
  <2>1. j \in DeleteJobs(d) /\ job[j].st = "succeeded"
    BY <1>6 DEF DeleteJobs
  <2> QED
    BY <1>3, <1>4, <2>1 DEF OInv, CleanedUp
<1>12. ServedDataDurable'
  <2> SUFFICES ASSUME NEW d \in Docs, DeleteJobs(d)' = {}, doc'[d].st # "absent"
               PROVE  /\ d \in uploads
                      /\ doc[d].active # None /\ d \in PdfDocs => ir[doc[d].active] = "versions"
                      /\ \A v \in Vers : ver[v].st = "ready" /\ ver[v].doc = d => v = doc[d].active
    BY <1>3, <1>4 DEF ServedDataDurable
  <2>1. DeleteJobs(d) = {}
    BY <1>10 DEF DeleteJobs
  <2>2. CASE doc[d].st # "absent"
    BY <2>1, <2>2 DEF OInv, ServedDataDurable
  <2>3. CASE doc[d].st = "absent"
    <3>1. d \in uploads
      BY <1>2, <1>4, <2>3
    <3>2. \A v \in Vers : ver[v].st # "absent" => ver[v].doc # d
      BY <2>3 DEF OInv, DocsExist
    <3>3. doc[d].active = None
      BY <1>1, <3>2 DEF OInv, SInv, IInv, ActiveVersionReady, DocRow, VersOrNone
    <3> QED
      BY <3>1, <3>2, <3>3
  <2> QED
    BY <2>2, <2>3
<1>13. OneActiveSnapshot'
  BY <1>3 DEF OInv, OneActiveSnapshot
<1> QED
  BY <1>8, <1>9, <1>11, <1>12, <1>13 DEF OInv

-----------------------------------------------------------------------------
(* Commits *)

\* What the commit of the only run does to the versions: but for its own, each stays a
\* version of its document and none becomes READY.
VersionsStay(w) ==
  \A x \in Vers :
    \/ x = wk[w].v /\ wk[w].pc \in IngestPcs /\ ver'[x].doc = DocOf(w)
    \/ /\ ver'[x].doc = ver[x].doc
       /\ ver'[x].st = "ready" => ver[x].st = "ready"
       /\ ver'[x].st = "absent" <=> ver[x].st = "absent"

\* How the commit leaves the document of the run: it exists; if a clean-up of it has ever
\* succeeded it serves nothing; if nobody has asked for one, its files and versions are there.
DocumentLeft(w) ==
  LET d == DocOf(w) IN
  /\ doc'[d].st # "absent"
  /\ \A j \in DeleteJobs(d) : job'[j].st = "succeeded" => d \notin uploads /\ doc'[d].active = None
  /\ DeleteJobs(d) = {} =>
       /\ doc'[d].active # None /\ d \in PdfDocs => ir[doc'[d].active] = "versions"
       /\ \A v \in Vers : ver'[v].st = "ready" /\ ver'[v].doc = d => v = doc'[d].active

LEMMA CommitQuiet ==
  ASSUME OneWorker, OInv, SInv', NEW w \in Workers, wk[w].pc \in RunPcs, RunCommits(w),
         VersionsStay(w), DocumentLeft(w), OneActiveSnapshot'
  PROVE  OInv'
<1> DEFINE d == DocOf(w)
<1>1. wk[w].pc \in BusyPcs /\ wk[w].job \in Jobs /\ d \in Docs /\ doc[d].st # "absent"
      /\ job[wk[w].job].st # "absent"
  BY RunPcFacts, JobOfRun DEF OInv, SInv, IInv, WorkersOK, WorkerOK
<1>2. /\ job \in [Jobs -> JobRow] /\ doc \in [Docs -> DocRow] /\ ir' = ir /\ uploads' = uploads
      /\ req' = req /\ wk'[w].pc = "committed"
  BY GotoFields DEF OInv, SInv, IInv, TypeOK, RunCommits, fsVars
<1>3. /\ \A j \in Jobs \ {wk[w].job} : job'[j] = job[j]
      /\ \A j \in Jobs : /\ job'[j].doc = job[j].doc /\ job'[j].kind = job[j].kind
                         /\ job'[j].st = "absent" <=> job[j].st = "absent"
  BY <1>1, <1>2 DEF RunCommits, JobRow
<1>4. \A e \in Docs \ {d} : doc'[e] = doc[e]
  BY <1>2 DEF RunCommits
<1>5. doc'[d].st # "absent"
  BY DEF DocumentLeft
<1>6. \A e \in Docs : DeleteJobs(e)' = DeleteJobs(e)
  BY <1>3 DEF DeleteJobs
<1>7. TasksOK'
  BY <1>2, NoTask DEF TasksOK, OneWorker
<1> HIDE DEF d
<1>8. DocsExist'
  <2>1. \A j \in Jobs : job[j].st # "absent" => job[j].doc \in Docs
    BY DEF OInv, SInv, IInv, JobRowsOK
  <2>2. \A e \in Docs : doc[e].st # "absent" => doc'[e].st # "absent"
    BY <1>4, <1>5
  <2>3. \A j \in Jobs : IF job'[j].st = "absent" THEN job'[j].doc = None
                                                 ELSE doc'[job'[j].doc].st # "absent"
    BY <1>3, <2>1, <2>2 DEF OInv, DocsExist
  <2>4. \A v \in Vers : ver'[v].st # "absent" =>
          ver'[v].doc \in Docs /\ doc'[ver'[v].doc].st # "absent"
    BY <1>1, <1>5, <2>2 DEF OInv, DocsExist, VersionsStay, d
  <2>5. \A o \in Reqs : req[o].pc \in Uncommitted => req[o].doc \in Docs
    BY DEF OInv, SInv, IInv, RequestsOK, RequestOK, Uncommitted
  <2> QED
    BY <1>2, <2>2, <2>3, <2>4, <2>5 DEF OInv, DocsExist
<1>9. CleanedUp'
  <2> SUFFICES ASSUME NEW e \in Docs, NEW j \in DeleteJobs(e), job'[j].st = "succeeded"
               PROVE  e \notin uploads /\ doc'[e].active = None
    BY <1>2, <1>6 DEF CleanedUp
  <2>1. CASE e = d
    BY <2>1 DEF DocumentLeft, d
  <2>2. CASE e # d
    <3>1. j # wk[w].job /\ j \in Jobs
      BY <2>2 DEF DeleteJobs, d, DocOf
    <3> QED
      BY <1>3, <1>4, <2>2, <3>1 DEF OInv, CleanedUp
  <2> QED
    BY <2>1, <2>2
<1>10. ServedDataDurable'
  <2> SUFFICES ASSUME NEW e \in Docs, DeleteJobs(e) = {}, doc'[e].st # "absent"
               PROVE  /\ e \in uploads
                      /\ doc'[e].active # None /\ e \in PdfDocs => ir[doc'[e].active] = "versions"
                      /\ \A v \in Vers : ver'[v].st = "ready" /\ ver'[v].doc = e => v = doc'[e].active
    BY <1>2, <1>6 DEF ServedDataDurable
  <2>1. doc[e].st # "absent"
    BY <1>1, <1>4
  <2>2. e \in uploads
    BY <2>1 DEF OInv, ServedDataDurable
  <2>3. CASE e = d
    BY <2>2, <2>3 DEF DocumentLeft, d
  <2>4. CASE e # d
    <3>1. doc'[e] = doc[e]
      BY <1>4, <2>4
    <3>2. \A v \in Vers : ver'[v].st = "ready" /\ ver'[v].doc = e => ver[v].st = "ready" /\ ver[v].doc = e
      BY <2>4 DEF VersionsStay, d
    <3> QED
      BY <2>1, <3>1, <3>2 DEF OInv, ServedDataDurable
  <2> QED
    BY <2>3, <2>4
<1> QED
  BY <1>7, <1>8, <1>9, <1>10 DEF OInv

\* Of a run that ends well: it replaces what is served and what is pointed to.
LEMMA CommitIngestFacts ==
  ASSUME OInv, NEW w \in Workers, CommitIngest(w)
  PROVE  LET me == wk[w]
             d == DocOf(w)
         IN  /\ d \in Docs /\ d \in uploads /\ me.v \in Vers /\ ver[me.v].st = "absent"
             /\ snap[me.v].st = "absent"
             /\ me.prior = doc[d].active /\ (me.switched <=> me.built)
             /\ me.built => /\ me.oldSnap = pointer /\ (me.oldWasActive <=> pointer # None)
                            /\ me.docs[d] = me.v
                            /\ \A e \in Docs : e # d /\ Compatible(e) => me.docs[e] = doc[e].active
             /\ d \in PdfDocs => ir[me.v] = "versions"
             /\ job[me.job].kind # "delete_cleanup" /\ job[me.job].st \in {"queued", "failed"}
<1>1. wk[w].pc = "finalizing" /\ wk[w].pc \in IngestPcs /\ wk[w].pc \in RunPcs
      /\ wk[w].pc \in BusyPcs \ {"committed"}
  BY RunPcFacts DEF CommitIngest, IngestPcs
<1>2. ReadsOK(wk[w]) /\ BuildOK(wk[w]) /\ RunFilesOK(wk[w]) /\ RunOK(wk[w])
  BY TaskNow
<1>3. DocOf(w) \in Docs /\ wk[w].v \in Vers /\ ver[wk[w].v].st = "absent"
  BY <1>1, JobOfRun
<1>4. snap[wk[w].v].st = "absent"
  BY <1>3 DEF OInv, SInv, RowsTogether
<1> QED
  BY <1>1, <1>2, <1>3, <1>4 DEF ReadsOK, BuildOK, RunFilesOK, RunOK, DocOf

LEMMA CommitIngestQuiet ==
  ASSUME OneWorker, OInv, SInv', NEW w \in Workers, CommitIngest(w)
  PROVE  OInv'
<1> DEFINE me == wk[w]
           d == DocOf(w)
<1>1. wk[w].pc \in IngestPcs /\ wk[w].pc \in RunPcs
  BY RunPcFacts DEF CommitIngest, IngestPcs
<1>2. RunCommits(w)
  BY CommitIngestCommits DEF OInv, SInv
<1>3. /\ d \in Docs /\ d \in uploads /\ me.v \in Vers /\ ver[me.v].st = "absent"
      /\ snap[me.v].st = "absent"
      /\ me.prior = doc[d].active /\ (me.switched <=> me.built)
      /\ me.built => me.oldSnap = pointer /\ (me.oldWasActive <=> pointer # None)
      /\ d \in PdfDocs => ir[me.v] = "versions"
      /\ job[me.job].kind # "delete_cleanup"
  BY CommitIngestFacts
<1>4. /\ doc \in [Docs -> DocRow] /\ ver \in [Vers -> VersionRow] /\ snap \in [Vers -> SnapshotRow]
      /\ job \in [Jobs -> JobRow] /\ pointer \in VersOrNone
      /\ doc[d].active # None => /\ doc[d].active \in Vers /\ ver[doc[d].active].st = "ready"
                                 /\ ver[doc[d].active].doc = d
  BY <1>3 DEF OInv, SInv, IInv, TypeOK, ActiveVersionReady, DocRow, VersOrNone
<1>5. ver' = [x \in Vers |->
                IF x = me.v THEN [st |-> "ready", doc |-> d, embedded |-> me.embedded]
                ELSE IF x \in Superseded(w) THEN [ver[x] EXCEPT !.st = "superseded"]
                ELSE ver[x]]
  BY DEF CommitIngest
<1>6. snap' = [x \in Vers |->
                IF ~me.built THEN snap[x]
                ELSE IF x = me.v THEN [st |-> "active", docs |-> me.docs]
                ELSE IF x \in Deactivated(w) THEN [snap[x] EXCEPT !.st = "superseded"]
                ELSE snap[x]]
  BY DEF CommitIngest
<1>7. pointer' = IF me.built THEN me.v ELSE pointer
  BY DEF CommitIngest
<1>8. doc' = [doc EXCEPT ![d] = [st |-> "ready", active |-> me.v]]
      /\ job' = [job EXCEPT ![me.job].st = "succeeded"]
  BY DEF CommitIngest
<1> HIDE DEF d
<1>9. VersionsStay(w)
  BY <1>1, <1>3, <1>4, <1>5 DEF VersionsStay, Superseded, VersionRow, d
<1>10. DocumentLeft(w)
  <2>1. doc'[d].st = "ready" /\ doc'[d].active = me.v
    BY <1>3, <1>4, <1>8
  <2>2. ASSUME NEW j \in DeleteJobs(d), job'[j].st = "succeeded" PROVE FALSE
    <3>1. j \in Jobs /\ j # me.job /\ job'[j] = job[j]
      BY <1>3, <1>8, <2>2 DEF DeleteJobs, OInv, SInv, IInv, TypeOK
    <3> QED
      BY <1>3, <2>2, <3>1 DEF OInv, CleanedUp
  <2>3. ASSUME DeleteJobs(d) = {}, NEW v \in Vers, ver'[v].st = "ready", ver'[v].doc = d
        PROVE  v = me.v
    <3> SUFFICES ASSUME v # me.v PROVE FALSE
      OBVIOUS
    <3>1. v \notin Superseded(w) /\ ver[v].st = "ready" /\ ver[v].doc = d
      BY <1>4, <1>5, <2>3 DEF VersionRow
    <3>2. doc[d].st # "absent"
      BY <3>1 DEF OInv, DocsExist
    <3>3. v = doc[d].active
      BY <1>3, <2>3, <3>1, <3>2 DEF OInv, ServedDataDurable
    <3> QED
      BY <1>3, <3>1, <3>3, ConstantsAssumption DEF Superseded
  <2> QED
    BY <1>3, <2>1, <2>2, <2>3 DEF DocumentLeft, d
<1>11. OneActiveSnapshot'
  <2>1. CASE ~me.built
    <3>1. \A s \in Vers : snap'[s] = snap[s]
      BY <1>6, <2>1
    <3> QED
      BY <1>7, <2>1, <3>1 DEF OInv, OneActiveSnapshot
  <2>2. CASE me.built
    <3> SUFFICES ASSUME NEW s \in Vers, s # me.v PROVE snap'[s].st # "active"
      BY <1>3, <1>6, <1>7, <2>2 DEF OneActiveSnapshot
    <3>1. CASE snap[s].st = "active"
      <4>1. pointer = s /\ pointer # None
        BY <3>1, ConstantsAssumption DEF OInv, OneActiveSnapshot
      <4>2. s \in Deactivated(w)
        BY <1>3, <2>2, <4>1 DEF Deactivated
      <4> QED
        BY <1>4, <1>6, <2>2, <4>2 DEF SnapshotRow
    <3>2. CASE snap[s].st # "active"
      BY <1>4, <1>6, <2>2, <3>2 DEF SnapshotRow
    <3> QED
      BY <3>1, <3>2
  <2> QED
    BY <2>1, <2>2
<1> QED
  BY <1>1, <1>2, <1>9, <1>10, <1>11, CommitQuiet

\* Of a run that fails: what was served before is served after.
LEMMA CommitFailureFacts ==
  ASSUME OInv, NEW w \in Workers, CommitFailure(w)
  PROVE  /\ DocOf(w) \in Docs /\ wk[w].v \in Vers /\ ver[wk[w].v].st = "absent"
         /\ wk[w].prior = doc[DocOf(w)].active
         /\ pointer' = pointer
         /\ \A d \in Docs : doc'[d].active = doc[d].active
         /\ \A s \in Vers : snap'[s].st = "active" <=> snap[s].st = "active"
         /\ pointer # None => snap'[pointer] = snap[pointer]
         /\ job[wk[w].job].kind # "delete_cleanup"
<1> DEFINE me == wk[w]
           d == DocOf(w)
<1>1. me.pc = "failing" /\ me.pc \in IngestPcs /\ me.pc \in RunPcs /\ me.pc \in BusyPcs \ {"committed"}
  BY RunPcFacts DEF CommitFailure, IngestPcs
<1>2. ReadsOK(me)
  BY TaskNow
<1>3. d \in Docs /\ me.v \in Vers /\ ver[me.v].st = "absent"
  BY <1>1, JobOfRun
<1>4. /\ doc \in [Docs -> DocRow] /\ snap \in [Vers -> SnapshotRow] /\ pointer \in VersOrNone
      /\ snap[me.v].st = "absent"
  BY <1>3 DEF OInv, SInv, IInv, TypeOK, RowsTogether
<1>5. me.prior = doc[d].active /\ job[me.job].kind # "delete_cleanup"
      /\ (me.switched => me.oldSnap = pointer)
  BY <1>1, <1>2 DEF ReadsOK, DocOf
<1>6. pointer' = pointer
  BY <1>5 DEF CommitFailure, PointerAfterFailure
<1>7. doc' = [doc EXCEPT ![d] = [st |-> StatusAfterFailure(w), active |-> doc[d].active]]
  BY DEF CommitFailure, ActiveAfterFailure
<1> HIDE DEF d
<1>8. \A e \in Docs : doc'[e].active = doc[e].active
  BY <1>3, <1>4, <1>7
<1>9. \A s \in Vers : snap[s].st = "active" <=> pointer = s
  BY DEF OInv, OneActiveSnapshot
<1>10. Reactivated(w) \subseteq {pointer} /\ Deactivated(w) \subseteq Reactivated(w)
  BY <1>5 DEF Reactivated, Deactivated
<1>11. \A s \in Vers :
         /\ s # pointer => snap'[s] = snap[s] \/ (s = me.v /\ snap'[s].st = "failed")
         /\ s = pointer => snap'[s] = snap[s] \/ snap'[s] = [snap[s] EXCEPT !.st = "active"]
  BY <1>4, <1>9, <1>10 DEF CommitFailure
<1>12. pointer # None => snap'[pointer] = snap[pointer]
  BY <1>4, <1>9, <1>11 DEF SnapshotRow, VersOrNone
<1>13. \A s \in Vers : snap'[s].st = "active" <=> snap[s].st = "active"
  BY <1>4, <1>9, <1>11, <1>12, ConstantsAssumption
<1> QED
  BY <1>3, <1>5, <1>6, <1>8, <1>12, <1>13 DEF d

LEMMA CommitFailureQuiet ==
  ASSUME OneWorker, OInv, SInv', NEW w \in Workers, CommitFailure(w)
  PROVE  OInv'
<1> DEFINE me == wk[w]
           d == DocOf(w)
<1>1. wk[w].pc \in IngestPcs /\ wk[w].pc \in RunPcs /\ wk[w].pc \in BusyPcs
  BY RunPcFacts DEF CommitFailure, IngestPcs
<1>2. RunCommits(w)
  BY CommitFailureCommits DEF OInv, SInv
<1>3. /\ d \in Docs /\ me.v \in Vers /\ ver[me.v].st = "absent" /\ me.prior = doc[d].active
      /\ pointer' = pointer
      /\ \A e \in Docs : doc'[e].active = doc[e].active
      /\ \A s \in Vers : snap'[s].st = "active" <=> snap[s].st = "active"
      /\ job[me.job].kind # "delete_cleanup"
  BY CommitFailureFacts
<1>4. /\ doc \in [Docs -> DocRow] /\ ver \in [Vers -> VersionRow] /\ job \in [Jobs -> JobRow]
      /\ doc[d].active # None => /\ doc[d].active \in Vers /\ ver[doc[d].active].st = "ready"
                                 /\ ver[doc[d].active].doc = d
  BY <1>3 DEF OInv, SInv, IInv, TypeOK, ActiveVersionReady, DocRow, VersOrNone
<1>5. doc[d].st # "absent"
  BY <1>1, JobOfRun
<1>6. ver' = [x \in Vers |->
                IF x = me.v THEN [st |-> "failed", doc |-> d, embedded |-> me.embedded]
                ELSE IF x = me.prior THEN [ver[x] EXCEPT !.st = "ready"]
                ELSE ver[x]]
  BY DEF CommitFailure
<1>7. doc'[d].st = StatusAfterFailure(w) /\ job' = [job EXCEPT ![me.job].st = "failed"]
  BY <1>3, <1>4 DEF CommitFailure
<1> HIDE DEF d
<1>8. VersionsStay(w)
  BY <1>1, <1>3, <1>4, <1>6, ConstantsAssumption DEF VersionsStay, VersionRow, d
<1>9. DocumentLeft(w)
  <2>1. doc'[d].st # "absent"
    BY <1>7 DEF StatusAfterFailure
  <2>2. ASSUME NEW j \in DeleteJobs(d), job'[j].st = "succeeded"
        PROVE  d \notin uploads /\ doc'[d].active = None
    <3>1. j \in Jobs /\ j # me.job /\ job'[j] = job[j]
      BY <1>3, <1>4, <1>7, <2>2 DEF DeleteJobs
    <3> QED
      BY <1>3, <2>2, <3>1 DEF OInv, CleanedUp
  <2>3. ASSUME DeleteJobs(d) = {}
        PROVE  /\ doc'[d].active # None /\ d \in PdfDocs => ir[doc'[d].active] = "versions"
               /\ \A v \in Vers : ver'[v].st = "ready" /\ ver'[v].doc = d => v = doc'[d].active
    <3>1. \A v \in Vers : ver'[v].st = "ready" /\ ver'[v].doc = d => ver[v].st = "ready" /\ ver[v].doc = d
      BY <1>3, <1>4, <1>6, ConstantsAssumption DEF VersionRow
    <3> QED
      BY <1>3, <1>5, <2>3, <3>1 DEF OInv, ServedDataDurable
  <2> QED
    BY <2>1, <2>2, <2>3 DEF DocumentLeft, d
<1>10. OneActiveSnapshot'
  BY <1>3 DEF OInv, OneActiveSnapshot
<1> QED
  BY <1>1, <1>2, <1>8, <1>9, <1>10, CommitQuiet

\* Of a clean-up: the document has a delete job, and serves nothing if it has succeeded.
LEMMA CommitDeleteQuiet ==
  ASSUME OneWorker, OInv, SInv', NEW w \in Workers, CommitDelete(w) \/ CommitDeleteFailure(w)
  PROVE  OInv'
<1> DEFINE me == wk[w]
           d == DocOf(w)
<1>1. me.pc \in DeletePcs /\ me.pc \in RunPcs /\ me.pc \in BusyPcs /\ me.pc \notin IngestPcs
  BY RunPcFacts DEF CommitDelete, CommitDeleteFailure, DeletePcs, IngestPcs
<1>2. RunCommits(w)
  BY CommitDeleteCommits DEF OInv, SInv
<1>3. ReadsOK(me) /\ RunFilesOK(me)
  BY TaskNow
<1>4. d \in Docs /\ doc[d].st # "absent" /\ DeleteJobs(d) # {}
  BY <1>1, JobOfRun
<1>5. me.prior = doc[d].active /\ UNCHANGED <<ver, snap, pointer>>
  BY <1>1, <1>3 DEF ReadsOK, DocOf, CommitDelete, CommitDeleteFailure
<1>6. doc \in [Docs -> DocRow] /\ job \in [Jobs -> JobRow]
  BY DEF OInv, SInv, IInv, TypeOK
<1>7. VersionsStay(w)
  BY <1>5 DEF VersionsStay
<1>8. OneActiveSnapshot'
  BY <1>5 DEF OInv, OneActiveSnapshot
<1>9. DocumentLeft(w)
  <2>1. CASE CommitDelete(w)
    <3>1. me.pc = "removed" /\ me.retired /\ d \notin uploads
      BY <1>3, <2>1 DEF CommitDelete, RunFilesOK, DocOf
    <3>2. RetiredActive(w) = None
      BY <1>5, <3>1 DEF RetiredActive
    <3>3. doc' = [doc EXCEPT ![d] = [st |-> IF me.st = "deleted" THEN doc[d].st ELSE "deleted",
                                     active |-> RetiredActive(w)]]
      BY <2>1 DEF CommitDelete
    <3> HIDE DEF d
    <3>4. doc'[d].st # "absent" /\ doc'[d].active = None
      BY <1>4, <1>6, <3>2, <3>3
    <3> QED
      BY <1>4, <3>1, <3>4 DEF DocumentLeft, d
  <2>2. CASE CommitDeleteFailure(w)
    <3>1. doc' = [doc EXCEPT ![d] = [st |-> IF ~me.retired /\ me.st = "deleting" THEN doc[d].st
                                            ELSE "deleting",
                                     active |-> RetiredActive(w)]]
          /\ job' = [job EXCEPT ![me.job].st = "failed"]
      BY <2>2 DEF CommitDeleteFailure
    <3>2. RetiredActive(w) \in {None, doc[d].active}
      BY DEF RetiredActive
    <3> HIDE DEF d
    <3>3. doc'[d].st # "absent" /\ doc'[d].active \in {None, doc[d].active}
      BY <1>4, <1>6, <3>1, <3>2
    <3>4. ASSUME NEW j \in DeleteJobs(d), job'[j].st = "succeeded"
          PROVE  d \notin uploads /\ doc'[d].active = None
      <4>1. j \in Jobs /\ job'[j] = job[j]
        BY <1>6, <3>1, <3>4 DEF DeleteJobs, JobRow
      <4> QED
        BY <1>4, <3>3, <3>4, <4>1 DEF OInv, CleanedUp
    <3> QED
      BY <1>4, <3>3, <3>4 DEF DocumentLeft, d
  <2> QED
    BY <2>1, <2>2
<1> QED
  BY <1>1, <1>2, <1>7, <1>8, <1>9, CommitQuiet

-----------------------------------------------------------------------------
(* The invariant *)

LEMMA InitOInv == Init => OInv
<1> SUFFICES ASSUME Init PROVE OInv
  OBVIOUS
<1>1. \A w \in Workers : wk[w].pc = "down"
  BY DEF Init, RestingWorker
<1>2. TasksOK
  BY <1>1 DEF TasksOK, TaskOK, ReadsOK, BuildOK, RunFilesOK, RunPcs, BusyPcs, IngestPcs, DeletePcs
<1>3. DocsExist /\ CleanedUp
  BY DEF Init, DocsExist, CleanedUp, DeleteJobs, IdleRequest, Uncommitted
<1>4. OneActiveSnapshot /\ ServedDataDurable
  BY ConstantsAssumption DEF Init, OneActiveSnapshot, ServedDataDurable
<1> QED
  BY <1>2, <1>3, <1>4, InitSInv DEF OInv

LEMMA NextOInv ==
  ASSUME OneWorker, OInv, [Next]_vars
  PROVE  OInv'
<1>0. SInv'
  BY NextSInv DEF OInv
<1>1. CASE UNCHANGED vars
  BY <1>0, <1>1 DEF vars, OInv, TasksOK, TaskOK, ReadsOK, BuildOK, Compatible, RunFilesOK,
                    DocsExist, CleanedUp, DeleteJobs, OneActiveSnapshot, ServedDataDurable
<1>2. ASSUME NEW r \in Reqs, ApiStep(r) PROVE OInv'
  BY <1>0, <1>2, OpenQuiet, CommitRequestQuiet, DispatchQuiet DEF ApiStep
<1>3. ASSUME NEW w \in Workers, WorkerStep(w) \/ Abort(w) \/ Crash(w) PROVE OInv'
  <2>1. CASE \/ Startup(w) \/ Take(w) \/ Discard(w) \/ ReadDocument(w)
             \/ Ack(w) \/ Abort(w) \/ Crash(w)
    BY <1>0, <2>1, RestQuiet, EarlyQuiet, DiscardQuiet
  <2>2. CASE Begin(w) \/ Parse(w) \/ Index(w) \/ SkipIndex(w) \/ ActivateArtifact(w)
             \/ ReadPointer(w) \/ SwitchPointer(w) \/ Fail(w)
    BY <1>0, <2>2, EarlyQuiet, IngestQuiet, SnapshotQuiet
  <2>3. CASE BeginDelete(w) \/ RemoveArtifacts(w) \/ RemoveArtifactsFails(w) \/ Unlink(w)
             \/ UnlinkFails(w)
    BY <1>0, <2>3, EarlyQuiet, DeleteQuiet
  <2>4. CASE CommitIngest(w) \/ CommitFailure(w) \/ CommitDelete(w) \/ CommitDeleteFailure(w)
    BY <1>0, <2>4, CommitIngestQuiet, CommitFailureQuiet, CommitDeleteQuiet
  <2> QED
    BY <1>3, <2>1, <2>2, <2>3, <2>4 DEF WorkerStep, IngestStep, DeleteStep
<1> QED
  BY <1>1, <1>2, <1>3 DEF Next

\* With one worker process the strengthened invariant holds in every reachable state.
THEOREM OneWorkerInductive ==
  ASSUME OneWorker
  PROVE  Spec => []OInv
<1>1. OInv /\ [Next]_vars => OInv'
  BY NextOInv
<1> QED
  BY <1>1, InitOInv, PTL DEF Spec

\* With one worker process, whatever fails, is aborted, crashes or is delivered twice, the
\* snapshot that system_state points to is the one snapshot that is ACTIVE
\* (activate_snapshot_record and _restore_prior_activation).
THEOREM PointedSnapshotIsActive ==
  ASSUME OneWorker
  PROVE  Spec => []OneActiveSnapshot
<1>1. OInv => OneActiveSnapshot
  BY DEF OInv
<1> QED
  BY <1>1, OneWorkerInductive, PTL

\* With one worker process a document that nobody asked to delete keeps its upload, the IR
\* of the version it serves and no second READY version, through failed and repeated runs,
\* restarts and quarantines.
THEOREM DataIsDurable ==
  ASSUME OneWorker
  PROVE  Spec => []ServedDataDurable
<1>1. OInv => ServedDataDurable
  BY DEF OInv
<1> QED
  BY <1>1, OneWorkerInductive, PTL

\* With one worker process a document whose clean-up has succeeded never serves a version
\* again, whatever ingest, reindex or retry was queued behind it.
THEOREM DeletionIsFinal ==
  ASSUME OneWorker
  PROVE  Spec => []DeleteIsFinal
<1>1. OInv => DeleteIsFinal
  BY DEF OInv, CleanedUp, DeleteIsFinal
<1> QED
  BY <1>1, OneWorkerInductive, PTL

-----------------------------------------------------------------------------
(* What a step may never do *)

\* Only the commits of runs settle a job or move the pointer.
LEMMA OnlyCommits ==
  ASSUME OInv, [Next]_vars,
         \A w \in Workers :
           ~(CommitIngest(w) \/ CommitFailure(w) \/ CommitDelete(w) \/ CommitDeleteFailure(w))
  PROVE  /\ UNCHANGED <<ver, snap, pointer>>
         /\ \A j \in Jobs : job'[j] = job[j] \/ (job[j].st = "absent" /\ job'[j].st = "queued")
<1>1. CASE UNCHANGED <<job, ver, snap, pointer>>
  BY <1>1
<1>2. ASSUME NEW r \in Reqs, CommitRequest(r)
      PROVE  /\ UNCHANGED <<ver, snap, pointer>>
             /\ \A j \in Jobs : job'[j] = job[j] \/ (job[j].st = "absent" /\ job'[j].st = "queued")
  <2>1. /\ job \in [Jobs -> JobRow]
        /\ req[r].insert => req[r].job \in Jobs /\ job[req[r].job].st = "absent"
    BY <1>2 DEF OInv, SInv, IInv, TypeOK, RequestsOK, RequestOK, CommitRequest, Uncommitted
  <2> QED
    BY <1>2, <2>1 DEF CommitRequest
<1>3. ASSUME NEW r \in Reqs, ApiStep(r), ~CommitRequest(r) PROVE UNCHANGED <<job, ver, snap, pointer>>
  BY <1>3 DEF ApiStep, Upload, RequestReindex, RequestDelete, RetryJob, Dispatch,
              DispatchFails, RequestFails, dbVars
<1>4. ASSUME NEW w \in Workers, WorkerStep(w) \/ Abort(w) \/ Crash(w)
      PROVE  UNCHANGED <<job, ver, snap, pointer>>
  <2>1. CASE IngestStep(w)
    BY <2>1 DEF IngestStep, Begin, Parse, Index, SkipIndex, ActivateArtifact, ReadPointer,
                SwitchPointer, Fail, dbVars
  <2>2. CASE DeleteStep(w)
    BY <2>2 DEF DeleteStep, BeginDelete, RemoveArtifacts, RemoveArtifactsFails, Unlink,
                UnlinkFails, dbVars
  <2>3. CASE \/ Startup(w) \/ Take(w) \/ Discard(w) \/ ReadDocument(w)
             \/ Ack(w) \/ Abort(w) \/ Crash(w)
    BY <2>3 DEF Startup, Take, Discard, ReadDocument, Ack, Abort, Crash, dbVars
  <2> QED
    BY <1>4, <2>1, <2>2, <2>3 DEF WorkerStep
<1>5. CASE UNCHANGED vars
  BY <1>1, <1>5 DEF vars
<1> QED
  BY <1>1, <1>2, <1>3, <1>4, <1>5 DEF Next

\* With one worker process a run that fails leaves every served version, the pointer and the
\* row of the snapshot it points to as they were.
THEOREM FailuresKeepService ==
  ASSUME OneWorker
  PROVE  Spec => FailureKeepsService
<1> DEFINE Fails == \E j \in Jobs : /\ job[j].kind \in {"ingest", "reindex"}
                                    /\ job[j].st # "failed" /\ job'[j].st = "failed"
           Kept == /\ pointer' = pointer
                   /\ \A d \in Docs : doc'[d].active = doc[d].active
                   /\ pointer # None => snap'[pointer] = snap[pointer]
<1>1. ASSUME OInv, [Next]_vars, Fails PROVE Kept
  <2>0. PICK j \in Jobs : /\ job[j].kind \in {"ingest", "reindex"}
                          /\ job[j].st # "failed" /\ job'[j].st = "failed"
    BY <1>1
  <2>1. PICK w \in Workers :
          CommitIngest(w) \/ CommitFailure(w) \/ CommitDelete(w) \/ CommitDeleteFailure(w)
    BY <1>1, <2>0, OnlyCommits
  <2>2. job \in [Jobs -> JobRow] /\ "failed" # "succeeded"
    BY <1>1 DEF OInv, SInv, IInv, TypeOK
  <2>3. CASE CommitFailure(w)
    BY <1>1, <2>3, CommitFailureFacts
  <2>4. CASE CommitIngest(w) \/ CommitDelete(w)
    <3>1. job' = [job EXCEPT ![wk[w].job].st = "succeeded"]
      BY <2>4 DEF CommitIngest, CommitDelete
    <3> QED
      BY <2>0, <2>2, <3>1 DEF JobRow
  <2>5. CASE CommitDeleteFailure(w)
    <3>1. job' = [job EXCEPT ![wk[w].job].st = "failed"] /\ wk[w].pc \in DeletePcs
      BY <2>5 DEF CommitDeleteFailure, DeletePcs
    <3>2. job[wk[w].job].kind = "delete_cleanup"
      BY <1>1, <3>1, TaskNow DEF ReadsOK
    <3> QED
      BY <2>0, <2>2, <3>1, <3>2 DEF JobRow
  <2> QED
    BY <2>1, <2>3, <2>4, <2>5
<1>2. OInv /\ [Next]_vars => [Fails => Kept]_vars
  BY <1>1
<1> QED
  BY <1>2, OneWorkerInductive, PTL DEF Spec, FailureKeepsService

\* With one worker process a job that has succeeded is never run or settled again, however
\* often its message is delivered.
THEOREM SuccessesAreFinal ==
  ASSUME OneWorker
  PROVE  Spec => SuccessIsFinal
<1>1. ASSUME OInv, [Next]_vars, NEW j \in Jobs, job[j].st = "succeeded" PROVE job'[j] = job[j]
  <2>1. CASE \A w \in Workers :
               ~(CommitIngest(w) \/ CommitFailure(w) \/ CommitDelete(w) \/ CommitDeleteFailure(w))
    BY <1>1, <2>1, OnlyCommits
  <2>2. ASSUME NEW w \in Workers,
               CommitIngest(w) \/ CommitFailure(w) \/ CommitDelete(w) \/ CommitDeleteFailure(w)
        PROVE  job'[j] = job[j]
    <3>1. wk[w].pc \in BusyPcs \ {"committed"}
      BY <2>2 DEF CommitIngest, CommitFailure, CommitDelete, CommitDeleteFailure, BusyPcs,
                  IngestPcs, DeletePcs
    <3>2. job[wk[w].job].st \in {"queued", "failed"}
      BY <1>1, <3>1, TaskNow DEF ReadsOK
    <3>3. PICK s : job' = [job EXCEPT ![wk[w].job].st = s]
      BY <2>2 DEF CommitIngest, CommitFailure, CommitDelete, CommitDeleteFailure
    <3> QED
      BY <1>1, <3>2, <3>3 DEF OInv, SInv, IInv, TypeOK
  <2> QED
    BY <2>1, <2>2
<1>2. OInv /\ [Next]_vars => [\A j \in Jobs : job[j].st = "succeeded" => job'[j] = job[j]]_vars
  BY <1>1
<1> QED
  BY <1>2, OneWorkerInductive, PTL DEF Spec, SuccessIsFinal

\* With one worker process the snapshot that a run activates serves every document that is
\* READY with embedded chunks at that moment, at the version it serves
\* (build_corpus_snapshot reads what is still so when activate_snapshot_record commits).
THEOREM SnapshotsCoverReady ==
  ASSUME OneWorker
  PROVE  Spec => NewSnapshotCoversReady
<1>1. ASSUME OInv, [Next]_vars, pointer' # pointer, NEW d \in Docs,
             doc'[d].st = "ready", doc'[d].active # None, ver'[doc'[d].active].embedded
      PROVE  snap'[pointer'].docs[d] = doc'[d].active
  <2>1. PICK w \in Workers :
          CommitIngest(w) \/ CommitFailure(w) \/ CommitDelete(w) \/ CommitDeleteFailure(w)
    BY <1>1, OnlyCommits
  <2>2. CommitIngest(w)
    BY <1>1, <2>1, CommitFailureFacts DEF CommitDelete, CommitDeleteFailure
  <2> DEFINE me == wk[w]
  <2>3. /\ DocOf(w) \in Docs /\ me.v \in Vers /\ ver[me.v].st = "absent"
        /\ me.prior = doc[DocOf(w)].active
    BY <1>1, <2>2, CommitIngestFacts
  <2>4. /\ pointer' = IF me.built THEN me.v ELSE pointer
        /\ doc' = [doc EXCEPT ![DocOf(w)] = [st |-> "ready", active |-> me.v]]
        /\ snap' = [x \in Vers |->
                     IF ~me.built THEN snap[x]
                     ELSE IF x = me.v THEN [st |-> "active", docs |-> me.docs]
                     ELSE IF x \in Deactivated(w) THEN [snap[x] EXCEPT !.st = "superseded"]
                     ELSE snap[x]]
        /\ ver' = [x \in Vers |->
                    IF x = me.v THEN [st |-> "ready", doc |-> DocOf(w), embedded |-> me.embedded]
                    ELSE IF x \in Superseded(w) THEN [ver[x] EXCEPT !.st = "superseded"]
                    ELSE ver[x]]
    BY <2>2 DEF CommitIngest
  <2>5. me.built /\ pointer' = me.v
    BY <1>1, <2>4
  <2>6. /\ me.docs[DocOf(w)] = me.v
        /\ \A e \in Docs : e # DocOf(w) /\ Compatible(e) => me.docs[e] = doc[e].active
    BY <1>1, <2>2, <2>5, CommitIngestFacts
  <2>7. snap'[pointer'].docs = me.docs
    BY <2>3, <2>4, <2>5
  <2>8. doc \in [Docs -> DocRow] /\ ver \in [Vers -> VersionRow]
    BY <1>1 DEF OInv, SInv, IInv, TypeOK
  <2>9. CASE d = DocOf(w)
    BY <2>3, <2>4, <2>6, <2>7, <2>8, <2>9
  <2>10. CASE d # DocOf(w)
    <3>1. doc'[d] = doc[d]
      BY <2>4, <2>8, <2>10
    <3>2. doc[d].active \in Vers /\ ver[doc[d].active].st = "ready"
      BY <1>1, <2>8, <3>1 DEF OInv, SInv, IInv, ActiveVersionReady, DocRow, VersOrNone
    <3>3. doc[d].active # me.v /\ ver[doc[d].active].embedded
      BY <1>1, <2>3, <2>4, <2>8, <3>1, <3>2 DEF VersionRow
    <3>4. Compatible(d)
      BY <1>1, <3>1, <3>2, <3>3 DEF Compatible
    <3> QED
      BY <2>6, <2>7, <2>10, <3>1, <3>4
  <2> QED
    BY <2>9, <2>10
<1>2. OInv /\ [Next]_vars =>
        [pointer' # pointer =>
           \A d \in Docs : doc'[d].st = "ready" /\ doc'[d].active # None
                           /\ ver'[doc'[d].active].embedded
                           => snap'[pointer'].docs[d] = doc'[d].active]_vars
  BY <1>1
<1> QED
  BY <1>2, OneWorkerInductive, PTL DEF Spec, NewSnapshotCoversReady
=============================================================================
