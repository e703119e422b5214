\* Requests one after another break each of the three; keep one of them to see its
\* trace.
CONSTANTS
  listed = listed
  plain = plain
  wider = wider
  narrow = narrow
  wide = wide
  auto = auto
  confirms = confirms
  none = none
  Thread = {t1}
  Shape = {listed, plain, wider}
  Bounds = {narrow}
  Level = {auto, confirms}
  Tools = {none}
  Listed = {listed}
  Yaml <- MCYaml
  YamlVersion <- MCYamlVersion
  Chosen <- MCChosen
  NotLoaded = NotLoaded
  NoVersion = NoVersion
  Faults = {"restart"}
  MaxRequests = 4
SPECIFICATION Spec
INVARIANTS SameMajorSameShape SeedingActivates LiveIsActive
\* Requests run out.
CHECK_DEADLOCK FALSE
