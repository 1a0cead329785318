SPECIFICATION FairSpec
CONSTANTS
  None = None
  d1 = d1
  j1 = j1
  r1 = r1
  v1 = v1
  w1 = w1
  Docs = {d1}
  PdfDocs = {}
  Jobs = {j1}
  Vers = {v1}
  Workers = {w1}
  Reqs = {r1}
  DispatchOrders = {"dispatch_first"}
  MaxTries = 1
  Copies = {1}
  Faults = {}
  MaxFaults = 0
CHECK_DEADLOCK FALSE
PROPERTIES EveryJobFinishes
