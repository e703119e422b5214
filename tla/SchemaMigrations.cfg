CONSTANTS
  i1 = i1
  i2 = i2
  i3 = i3
  d1 = d1
  d2 = d2
  v100 = v100
  v110 = v110
  o1 = o1
  o2 = o2
  Id = {i1, i2, i3}
  Domain = {d1, d2}
  Semver = {v100, v110}
  First = v100
  Odd = {o1, o2}
  NoRow = NoRow
  None = None
  MaxRuns = 3
  MaxWrites = 2
  MaxFaults = 1
SPECIFICATION Spec
INVARIANT RevisionHolds
PROPERTY ValidSurvive
SYMMETRY Rows
\* Runs and writes run out.
CHECK_DEADLOCK FALSE
