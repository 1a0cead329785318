SPECIFICATION Spec
CONSTANTS
  d1 = d1
  d2 = d2
  d3 = d3
  NoTable = NoTable
  Docs = {d1, d2, d3}
  Chunks <- MCChunks
  DocOf <- MCDocOf
  TextOf <- MCTextOf
  TableOf <- MCTableOf
  CellsOf <- MCCellsOf
  Scopes <- MCScopes
  Workflows = {"single_pass", "bounded_refinement", "routed_multi_search"}
  Selections = {"legacy", "cell_coverage"}
  TopK = 2
  MaxRoutes = 2
  MaxPlanned = 3
  MaxChanges = 1
CHECK_DEADLOCK FALSE
INVARIANTS TypeOK EvidenceInScope RouterFailureKeepsPrimary RefinementKeepsBestEvidence NothingNewLeftOut RoutedDocumentsKept
