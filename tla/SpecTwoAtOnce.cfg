\* Two requests at once break each of the three; keep one of them to see its trace.
CONSTANTS
  listed = listed
  plain = plain
  wider = wider
  narrow = narrow
  wide = wide
  auto = auto
  confirms = confirms
  none = none
  Thread = {t1, t2}
  Shape = {listed}
  Bounds = {narrow}
  Level = {auto}
  Tools = {none}
  Listed = {listed}
  Yaml <- MCYaml
  YamlVersion <- MCYamlVersion
  Chosen <- MCChosen
  NotLoaded = NotLoaded
  NoVersion = NoVersion
  Faults = {}
  MaxRequests = 4
SPECIFICATION Spec
INVARIANTS OneActive
PROPERTIES StaysActive DerivedIsNewest
\* Requests run out.
CHECK_DEADLOCK FALSE
