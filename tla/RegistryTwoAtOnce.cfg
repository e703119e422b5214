\* Two requests at once break each of the four; keep one of them to see its trace.
CONSTANTS
  planner = planner
  p1 = p1
  p2 = p2
  p3 = p3
  Full = 3
  NoVariant = NoVariant
  Thread = {t1, t2}
  Stage = {planner}
  Prompt = {p1, p2, p3}
  Seed <- MCSeed
  Label = {A, B}
  NoPrompt = NoPrompt
  Faults = {}
  MaxRequests = 4
SPECIFICATION Spec
INVARIANTS OneCertified OneChampion CandidatesFit CacheFresh
