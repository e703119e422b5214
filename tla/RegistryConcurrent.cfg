CONSTANTS
  planner = planner
  p1 = p1
  p2 = p2
  p3 = p3
  Full = 2
  NoVariant = NoVariant
  Thread = {t1, t2}
  Stage = {planner}
  Prompt = {p1, p2}
  Seed <- MCSeed
  Label = {A}
  NoPrompt = NoPrompt
  Faults = {"read", "restart", "offline"}
  MaxRequests = 3
SPECIFICATION Spec
INVARIANTS TypeOK NoDraftServed
PROPERTIES OutcomeStands
