CONSTANTS
  planner = planner
  p1 = p1
  p2 = p2
  p3 = p3
  Full = 4
  NoVariant = NoVariant
  Thread = {t1}
  Stage = {planner}
  Prompt = {p1, p2}
  Seed <- MCSeed
  Label = {A, B}
  NoPrompt = NoPrompt
  Faults = {"restart"}
  MaxRequests = 5
SPECIFICATION Spec
INVARIANTS OnePerStage SharesExact ServesCurrent
