SPECIFICATION Spec
CONSTANTS
  None = None
  t1 = t1
  t2 = t2
  s1 = s1
  s2 = s2
  Turns = {t1, t2}
  Sessions = {s1, s2}
  ExitOrders = {"before_response", "after_response"}
  ProviderEnds = {"stop", "error", "raise"}
  Window = 4
  MaxDeltas = 1
SYMMETRY Symmetry
CHECK_DEADLOCK FALSE
INVARIANTS TypeOK VerdictMatchesStore CompleteIsWhole StreamEndsWithVerdict QuestionBeforeAnswer
PROPERTIES RefinesChatLog
