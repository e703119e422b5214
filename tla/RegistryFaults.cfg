\* A crash or a failed read, or requests one after another, break each of the five; keep
\* one of them to see its trace.
CONSTANTS
  planner = planner
  p1 = p1
  p2 = p2
  p3 = p3
  Full = 3
  NoVariant = NoVariant
  Thread = {t1}
  Stage = {planner}
  Prompt = {p1, p2}
  Seed <- MCSeed
  Label = {A}
  NoPrompt = NoPrompt
  Faults = {"read", "restart"}
  MaxRequests = 2
SPECIFICATION Spec
INVARIANTS SeedingCompletes ServesVariant ServesCertified
PROPERTIES SeedingLeavesCertified SeedingEnsuresChampion
