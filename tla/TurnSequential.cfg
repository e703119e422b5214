CONSTANTS
  Thread = {t1}
  Policies <- MCPolicies
  Signals = {"thin_context"}
  Retries = 1
  HasFallback = TRUE
  MaxCalls = 3
  Limits = {"usage"}
  Faults = {"model", "parse", "template", "database"}
  NoTool = NoTool
  MaxTurns = 2
SPECIFICATION FairSpec
INVARIANTS TypeOK PolicyHolds WaitingIsOwn HistoryOnce
PROPERTIES BudgetHolds TurnEnds
\* The turns run out.
CHECK_DEADLOCK FALSE
