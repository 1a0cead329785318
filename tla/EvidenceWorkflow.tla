--------------------------- MODULE EvidenceWorkflow ---------------------------
(***************************************************************************)
(* gather_chat_evidence: one primary search and, by configuration, a       *)
(* bounded refinement or searches routed to single documents, planned by a *)
(* language model.  Between the steps, which all await something, the      *)
(* corpus changes: documents become ready or stop being ready, and enter   *)
(* or leave the collection of the session's scope.                         *)
(*                                                                         *)
(* What a search returns is any ranking of chunks of the documents that it *)
(* may see; what a planner returns is any plan or an error.                *)
(***************************************************************************)
EXTENDS EvidenceMerge

CONSTANTS
  Docs,          \* documents
  Scopes,        \* the scopes of sessions: [type, docs]
  Workflows,     \* the configured chat_retrieval_workflow
  Selections,    \* the configured retrieval_selection
  MaxRoutes,     \* chat_routing_max_documents
  MaxPlanned,    \* routes in a plan the model may return (6 in DocumentRoutingPlan)
  MaxChanges     \* bound: changes of the corpus during the run

ASSUME WorkflowAssumption ==
  /\ Workflows \subseteq {"single_pass", "bounded_refinement", "routed_multi_search"}
  /\ Selections \subseteq Strategies
  /\ \A scope \in Scopes : scope.type \in {"all", "collection", "documents"}
  /\ MaxRoutes \in Nat \ {0} /\ MaxPlanned \in Nat /\ MaxChanges \in Nat

VARIABLES
  ready,     \* documents that are READY
  members,   \* documents in the collection of the session's scope; none for other scopes
  changes,   \* how often the corpus has changed
  run        \* the run

vars == <<ready, members, changes, run>>

-----------------------------------------------------------------------------
(* Types *)

RankedLists == BoundedSeq(Chunks, TopK)
Pcs == {"primary", "catalog", "planning", "routing", "refining", "searching",
        "done", "failed"}
Reasons ==
  {"EVIDENCE_PLAN_FAILED", "REFINEMENT_SEARCH_FAILED", "DOCUMENT_ROUTE_PLAN_FAILED",
   "DOCUMENT_ROUTE_SCOPE_REJECTED", "DOCUMENT_ROUTE_LOW_CONFIDENCE",
   "DOCUMENT_ROUTE_SEARCH_FAILED"}

\* routes: the documents still to search; merged: those whose search succeeded; seen:
\* the documents of the session's scope when it was resolved.
Run ==
  [pc : Pcs, workflow : Workflows, selection : Selections, scope : Scopes,
   responses : Seq(RankedLists), catalog : SUBSET Docs, routes : Seq(Docs),
   merged : SUBSET Docs, reasons : SUBSET Reasons, planned : Nat, seen : SUBSET Docs,
   results : RankedLists]

TypeOK ==
  /\ ready \subseteq Docs /\ members \subseteq Docs
  /\ changes \in 0..MaxChanges
  /\ run.pc \in Pcs /\ run.scope \in Scopes /\ run.reasons \subseteq Reasons
  /\ run.catalog \subseteq Docs /\ run.merged \subseteq run.catalog
  /\ \A i \in DOMAIN run.responses : ToSet(run.responses[i]) \subseteq Chunks
  /\ Len(run.responses) <= 1 + MaxRoutes
  /\ Len(run.results) <= TopK /\ IsInjective(run.results)

Init ==
  /\ ready \in SUBSET Docs
  /\ changes = 0
  /\ \E w \in Workflows, sel \in Selections, sc \in Scopes :
     /\ members \in (IF sc.type = "collection" THEN {{}, Docs} ELSE {{}})
     /\ run = [pc |-> "primary", workflow |-> w, selection |-> sel, scope |-> sc,
               responses |-> <<>>, catalog |-> {}, routes |-> <<>>, merged |-> {},
               reasons |-> {}, planned |-> 0, seen |-> {}, results |-> <<>>]

-----------------------------------------------------------------------------
(* search_corpus *)

\* _resolve_scope; a documents scope fails unless all of its documents are READY.
InScope(scope) ==
  CASE scope.type = "all" -> ready
    [] scope.type = "collection" -> members \cap ready
    [] scope.type = "documents" -> scope.docs \cap ready
Resolvable(scope) == scope.type = "documents" => scope.docs \subseteq ready

DocumentScope(d) == [type |-> "documents", docs |-> {d}]

\* select_evidence drops duplicates from a ranking; for the documents of a balanced scope
\* (retrieval_document_balance = explicit_scope) a text is only repeated within its document.
Balanced(scope) == scope.type = "documents" /\ Cardinality(scope.docs) \in 2..TopK
SelectionKey(c, scope) ==
  DedupKey(c, IF Balanced(scope) THEN "cell_coverage" ELSE run.selection)
Selected(r, scope) ==
  \A i \in DOMAIN r :
    LET earlier == {r[j] : j \in 1..(i - 1)} IN
      /\ \A e \in earlier : SelectionKey(e, scope) # SelectionKey(r[i], scope)
      /\ run.selection = "cell_coverage" => ~Redundant(earlier, r[i], run.selection)
Rankings(scope) ==
  {r \in BoundedSeq({c \in Chunks : DocOf[c] \in InScope(scope)}, TopK) : Selected(r, scope)}

Corpus == <<ready, members, changes>>

\* The run ends with these results and one more reason, or none.
Finish(results, reasons) ==
  run' = [run EXCEPT !.pc = "done", !.results = results, !.reasons = @ \cup reasons]
Primary == run.responses[1]

-----------------------------------------------------------------------------
(* gather_chat_evidence *)

\* An error of the primary search, and later one that no handler expects, is the error of
\* the turn; what was gathered is dropped.
Fails ==
  /\ run.pc \notin {"done", "failed"}
  /\ run' = [run EXCEPT !.pc = "failed", !.responses = <<>>, !.routes = <<>>]
  /\ UNCHANGED Corpus

PrimarySearch ==
  /\ run.pc = "primary" /\ Resolvable(run.scope)
  /\ \E r \in Rankings(run.scope) :
       run' = [run EXCEPT !.responses = <<r>>, !.seen = InScope(run.scope),
                 !.pc = CASE run.workflow = "single_pass" -> "done"
                          [] run.workflow = "routed_multi_search" -> "catalog"
                          [] OTHER -> "refining",
                 !.results = IF run.workflow = "single_pass" THEN r ELSE <<>>]
  /\ UNCHANGED Corpus

\* _routing_documents_for_scope: the READY documents of the scope, by a read of its own.
ReadCatalog ==
  /\ run.pc = "catalog"
  /\ run' = [run EXCEPT !.catalog = InScope(run.scope), !.seen = @ \cup InScope(run.scope),
                        !.pc = IF Cardinality(InScope(run.scope)) < 2 THEN "refining"
                                                                       ELSE "planning"]
  /\ UNCHANGED Corpus

-----------------------------------------------------------------------------
(* _gather_routed_evidence *)

\* Mutant: the documents of a plan are not compared with the catalog.
AnyRoutes(routes) == Len(routes) <= MaxRoutes
\* plan_document_routes enforces the number of routes and the catalog.
Allowed(routes) == Len(routes) <= MaxRoutes /\ ToSet(routes) \subseteq run.catalog

\* Mutant: a rejected plan is refined instead.
RefineAnyway(reasons) == "refining"
\* Only low confidence falls back to refinement; another failure keeps the primary.
AfterNoPlan(reasons) == IF reasons = {"DOCUMENT_ROUTE_LOW_CONFIDENCE"} THEN "refining" ELSE "done"

NoRoutes(reasons) ==
  run' = [run EXCEPT !.pc = AfterNoPlan(reasons), !.planned = @ + 1, !.reasons = @ \cup reasons,
                     !.results = IF AfterNoPlan(reasons) = "done" THEN Primary ELSE <<>>]

\* A plan names distinct documents, of the catalog or not, and how sure it is.
PlanRoutes ==
  /\ run.pc = "planning"
  /\ \/ NoRoutes({"DOCUMENT_ROUTE_PLAN_FAILED"})
     \/ \E routes \in BoundedSeq(Docs, MaxPlanned), confident \in BOOLEAN :
          /\ routes # <<>> /\ IsInjective(routes)
          /\ \/ ~Allowed(routes) /\ NoRoutes({"DOCUMENT_ROUTE_SCOPE_REJECTED"})
             \/ Allowed(routes) /\ ~confident /\ NoRoutes({"DOCUMENT_ROUTE_LOW_CONFIDENCE"})
             \/ /\ Allowed(routes) /\ confident
                /\ run' = [run EXCEPT !.pc = "routing", !.planned = @ + 1, !.routes = routes]
  /\ UNCHANGED Corpus

RouteSearch ==
  /\ run.pc = "routing" /\ run.routes # <<>>
  /\ LET scope == DocumentScope(Head(run.routes)) IN
       /\ Resolvable(scope)
       /\ \E r \in Rankings(scope) :
            run' = [run EXCEPT !.responses = Append(@, r), !.merged = @ \cup scope.docs,
                               !.routes = Tail(@)]
  /\ UNCHANGED Corpus

\* The document is not ready any more, or the index or the embedding fails.
RouteSearchFails ==
  /\ run.pc = "routing" /\ run.routes # <<>>
  /\ run' = [run EXCEPT !.reasons = @ \cup {"DOCUMENT_ROUTE_SEARCH_FAILED"}, !.routes = Tail(@)]
  /\ UNCHANGED Corpus

MergeRoutes ==
  /\ run.pc = "routing" /\ run.routes = <<>>
  /\ Finish(IF Len(run.responses) = 1 THEN Primary
            ELSE MergeSearchResponses(run.responses, run.selection, run.merged), {})
  /\ UNCHANGED Corpus

-----------------------------------------------------------------------------
(* _gather_refined_evidence *)

\* The planner fails, finds the evidence sufficient, repeats the query, or asks for more.
PlanRefinement ==
  /\ run.pc = "refining"
  /\ \/ /\ run' = [run EXCEPT !.pc = "done", !.planned = @ + 1, !.results = Primary,
                              !.reasons = @ \cup {"EVIDENCE_PLAN_FAILED"}]
     \/ run' = [run EXCEPT !.pc = "done", !.planned = @ + 1, !.results = Primary]
     \/ run' = [run EXCEPT !.pc = "searching", !.planned = @ + 1]
  /\ UNCHANGED Corpus

\* The whole scope of the session is searched again.
Refine ==
  /\ run.pc = "searching" /\ Resolvable(run.scope)
  /\ \E r \in Rankings(run.scope) :
       run' = [run EXCEPT !.pc = "done", !.responses = Append(@, r),
                          !.seen = @ \cup InScope(run.scope),
                          !.results = MergeSearchResponses(<<Primary, r>>, run.selection, {})]
  /\ UNCHANGED Corpus

RefineFails ==
  /\ run.pc = "searching"
  /\ Finish(Primary, {"REFINEMENT_SEARCH_FAILED"})
  /\ UNCHANGED Corpus

-----------------------------------------------------------------------------
(* Requests and jobs of others *)

Change ==
  /\ run.pc \notin {"done", "failed"} /\ UNCHANGED run
  /\ changes < MaxChanges /\ changes' = changes + 1

\* A job or a delete makes a document READY, or not READY any more (module Ingestion).
StatusChanges ==
  /\ Change /\ UNCHANGED members
  /\ \E d \in Docs : ready' = (ready \cup {d}) \ (ready \cap {d})

\* Requests on the collection; a collection that is gone has no documents, and a search in
\* it finds none.
AddDocument ==
  /\ Change /\ run.scope.type = "collection" /\ UNCHANGED ready
  /\ \E d \in Docs \ members : members' = members \cup {d}
RemoveDocument ==
  /\ Change /\ UNCHANGED ready
  /\ \E d \in members : members' = members \ {d}
DeleteCollection ==
  /\ Change /\ UNCHANGED ready
  /\ members # {} /\ members' = {}

Next ==
  \/ Fails \/ PrimarySearch \/ ReadCatalog
  \/ PlanRoutes \/ RouteSearch \/ RouteSearchFails \/ MergeRoutes
  \/ PlanRefinement \/ Refine \/ RefineFails
  \/ StatusChanges \/ AddDocument \/ RemoveDocument \/ DeleteCollection

Spec == Init /\ [][Next]_vars

-----------------------------------------------------------------------------
(* Properties *)

Done == run.pc = "done"
Refined == Done /\ Len(run.responses) = 2 /\ run.merged = {}

\* Whatever the planner names, evidence only comes from documents that were READY in
\* the session's scope when the run resolved it.
EvidenceInScope == \A i \in DOMAIN run.results : DocOf[run.results[i]] \in run.seen

\* A router that fails or leaves the catalog costs nothing: the primary results stand,
\* and no second planner is asked to cover up the failure.
RouterFailureKeepsPrimary ==
  Done /\ run.reasons \cap {"DOCUMENT_ROUTE_PLAN_FAILED", "DOCUMENT_ROUTE_SCOPE_REJECTED"} # {}
    => run.results = Primary /\ run.planned = 1

\* Evidence repeats a chunk: its text, or every cell that it shows of its table.
SameTable(c, e) == DocOf[c] = DocOf[e] /\ TableOf[c] = TableOf[e]
Repeated(c, evidence) ==
  \/ \E e \in evidence : /\ TextOf[c] = TextOf[e]
                         /\ run.selection = "legacy" \/ SameTable(c, e)
  \/ /\ run.selection = "cell_coverage" /\ TableOf[c] # NoTable /\ CellsOf[c] # {}
     /\ \A cell \in CellsOf[c] : \E e \in evidence : SameTable(c, e) /\ cell \in CellsOf[e]

\* However the refined search ranks, the best chunk of the primary search survives: the
\* results hold it or repeat it.
RefinementKeepsBestEvidence ==
  Refined /\ Primary # <<>> => Repeated(Primary[1], ToSet(run.results))

\* Of two lists, no chunk that shows something new is left out while a place is empty or
\* goes to a chunk that is neither better nor of a routed document.
NothingNewLeftOut ==
  Done /\ Len(run.responses) > 1 =>
    \A c \in Retrieved(run.responses) \ ToSet(run.results) :
      \/ Repeated(c, ToSet(run.results))
      \/ /\ Len(run.results) = TopK
         /\ \A i \in DOMAIN run.results :
              \/ DocOf[run.results[i]] \in run.merged
              \/ Precedes(SortKey(run.results[i], run.responses), SortKey(c, run.responses))

Represented(d) == \E i \in DOMAIN run.results : DocOf[run.results[i]] = d
Found(d) == \E i \in 2..Len(run.responses) : \E c \in ToSet(run.responses[i]) : DocOf[c] = d
Routed == Done /\ Cardinality(run.merged) <= TopK

\* Every routed document that was searched with success keeps a place, unless all that was
\* found of it repeats, word for word, chunks of other documents.
RoutedDocumentsKept ==
  Routed => \A d \in run.merged :
    Found(d) => \/ Represented(d)
                \/ /\ run.selection = "legacy"
                   /\ \A c \in {x \in Retrieved(run.responses) : DocOf[x] = d} :
                        \E e \in Retrieved(run.responses) : DocOf[e] # d /\ TextOf[e] = TextOf[c]
=============================================================================
