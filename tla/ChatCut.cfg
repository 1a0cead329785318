SPECIFICATION Spec
CONSTANTS
  None = None
  t1 = t1
  s1 = s1
  Turns = {t1}
  Sessions = {s1}
  ExitOrders = {"after_response"}
  ProviderEnds = {"stop", "cut"}
  Window = 4
  MaxDeltas = 1
SYMMETRY Symmetry
CHECK_DEADLOCK FALSE
INVARIANTS CompleteIsWhole
