\* Two turns at once break each of the two; keep one of them to see its trace.
CONSTANTS
  Thread = {t1, t2}
  Policies <- MCFree
  Signals = {"first_turn", "thin_context"}
  Retries = 1
  HasFallback = TRUE
  MaxCalls = 0
  Limits = {}
  Faults = {}
  NoTool = NoTool
  MaxTurns = 2
SPECIFICATION Spec
INVARIANTS HistoryKeeps PriorCompleted
\* The turns run out.
CHECK_DEADLOCK FALSE
