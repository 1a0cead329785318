SPECIFICATION Spec
CONSTANTS
  None = None
  Docs <- MCDocs
  Layout <- MCLayout
  Models <- MCModels
  Member <- MCMember
  Requests <- MCRequests
  DenseTopK = 1
  SparseTopK = 1
  FusedTopK = 2
INVARIANTS TypeOK ScopedPapersKept NoPlaceWasted OnlyServedText
CHECK_DEADLOCK FALSE
