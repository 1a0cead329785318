SPECIFICATION Spec
CONSTANTS
  None = None
  d1 = d1
  d2 = d2
  j1 = j1
  j2 = j2
  j3 = j3
  r1 = r1
  v1 = v1
  v2 = v2
  v3 = v3
  w1 = w1
  w2 = w2
  Docs = {d1, d2}
  PdfDocs = {d1}
  Jobs = {j1, j2, j3}
  Vers = {v1, v2, v3}
  Workers = {w1, w2}
  Reqs = {r1}
  DispatchOrders = {"commit_first"}
  MaxTries = 1
  Copies = {1}
  Faults = {}
  MaxFaults = 0
SYMMETRY Symmetry
CHECK_DEADLOCK FALSE
INVARIANTS ActiveVersionReady ActiveSnapshotLoadable
PROPERTIES NoPublishAfterRemoval RefinesVersionRegister
