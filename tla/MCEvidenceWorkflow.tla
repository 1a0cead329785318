-------------------------- MODULE MCEvidenceWorkflow --------------------------
(***************************************************************************)
(* Instances of EvidenceWorkflow for TLC: five chunks of three documents.  *)
(* Chunks 1 and 3, of two documents, have the same text; chunks 3 and 4    *)
(* are of one table, and 4 shows the cells of 3 among others.              *)
(***************************************************************************)
EXTENDS EvidenceWorkflow

CONSTANTS d1, d2, d3

MCChunks == 1..5
MCDocOf == <<d1, d1, d2, d2, d3>>
MCTextOf == <<"a", "b", "a", "c", "d">>
MCTableOf == <<NoTable, NoTable, "t", "t", NoTable>>
MCCellsOf == <<{}, {}, {1}, {1, 2}, {}>>
MCScopes ==
  {[type |-> "all", docs |-> {}], [type |-> "collection", docs |-> {}],
   [type |-> "documents", docs |-> {d1, d2}]}
=============================================================================
