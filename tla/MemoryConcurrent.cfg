CONSTANTS
  Slot <- MCMetrics
  v1 = v1
  v2 = v2
  Value = {v1}
  None = None
  Malformed = Malformed
  Thread = {t1, t2}
  Nil = Nil
  Query = {q1}
  NoQuery = NoQuery
  Decision <- MCMixedDecision
  Faults = {"load", "connect", "commit", "crash", "delete"}
  MaxRequests = 2
SPECIFICATION FairSpec
INVARIANTS TypeOK
PROPERTIES RequestsFinish
