\* One turn after another breaks each of the three; keep one of them to see its
\* trace.
CONSTANTS
  Thread = {t1}
  Policies <- MCClosed
  Signals = {"first_turn", "thin_context"}
  Retries = 1
  HasFallback = TRUE
  MaxCalls = 0
  Limits = {}
  Faults = {"model"}
  NoTool = NoTool
  MaxTurns = 2
SPECIFICATION Spec
INVARIANTS RecordsOwnResult PolicyAlways ConfirmedRuns
\* The turns run out.
CHECK_DEADLOCK FALSE
