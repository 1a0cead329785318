SPECIFICATION FairSpec
CONSTANTS
  None = None
  d1 = d1
  j1 = j1
  j2 = j2
  r1 = r1
  v1 = v1
  v2 = v2
  v3 = v3
  w1 = w1
  Docs = {d1}
  PdfDocs = {d1}
  Jobs = {j1, j2}
  Vers = {v1, v2, v3}
  Workers = {w1}
  Reqs = {r1}
  DispatchOrders = {"commit_first"}
  MaxTries = 2
  Copies = {1, 2}
  Faults = {"crash"}
  MaxFaults = 1
CHECK_DEADLOCK FALSE
PROPERTIES EveryJobFinishes
