CONSTANTS
  Slot <- MCSlot
  v1 = v1
  v2 = v2
  Value = {v1}
  None = None
  Malformed = Malformed
  Thread = {t1, t2}
  Nil = Nil
  Query = {q1}
  NoQuery = NoQuery
  Decision <- MCShortDecision
  Faults = {}
  MaxRequests = 3
SPECIFICATION Spec
INVARIANTS CountedIsStored
