\* Requests one after another break each of the three; keep one of them to see its
\* trace.
CONSTANTS
  Slot <- MCSlot
  v1 = v1
  v2 = v2
  Value = {v1, v2}
  None = None
  Malformed = Malformed
  Thread = {t1}
  Nil = Nil
  Query = {q1}
  NoQuery = NoQuery
  Decision <- MCDecision
  Faults = {}
  MaxRequests = 4
SPECIFICATION Spec
INVARIANTS TurnsNeverDecrease LiteralReplay
PROPERTIES PausedQueryKept
