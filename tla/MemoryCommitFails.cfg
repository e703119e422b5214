CONSTANTS
  Slot <- MCSlot
  v1 = v1
  v2 = v2
  Value = {v1, v2}
  None = None
  Malformed = Malformed
  Thread = {t1}
  Nil = Nil
  Query = {q1}
  NoQuery = NoQuery
  Decision <- MCDecision
  Faults = {"commit"}
  MaxRequests = 3
SPECIFICATION Spec
INVARIANTS StoredValuesTraced
