\* One turn breaks each of the three; keep one of them to see its trace.
CONSTANTS
  Thread = {t1}
  Policies <- MCFree
  Signals = {"first_turn", "thin_context"}
  Retries = 1
  HasFallback = TRUE
  MaxCalls = 1
  Limits = {"wallclock"}
  Faults = {"model", "parse"}
  NoTool = NoTool
  MaxTurns = 1
SPECIFICATION Spec
INVARIANTS BudgetReported JudgeFailsOpen
PROPERTIES CheckedBeforeCall
\* The turns run out.
CHECK_DEADLOCK FALSE
