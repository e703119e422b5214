CONSTANTS
  u1 = u1
  u2 = u2
  a1 = a1
  ui = ui
  api = api
  y = y
  a = a
  b = b
  Thread = {u1, a1}
  Home <- MCHome
  Ui = ui
  SpecId = {y, a, b}
  Yaml = y
  Broken = {b}
  Version <- MCVersion
  None = None
  Bad = Bad
  FaissDir = FALSE
  FaissBuilt = FALSE
  Drawn <- MCDrawn
  MaxRequests = 3
  MaxActivations = 1
  MaxFaults = 1
SPECIFICATION FairSpec
INVARIANTS TypeOK Repaired CausalSound
PROPERTIES OnceFilled RequestsEnd
\* Requests run out.
CHECK_DEADLOCK FALSE
