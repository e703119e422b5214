CONSTANTS
  listed = listed
  plain = plain
  wider = wider
  narrow = narrow
  wide = wide
  auto = auto
  confirms = confirms
  none = none
  Thread = {t1, t2}
  Shape = {listed}
  Bounds = {narrow}
  Level = {auto}
  Tools = {none}
  Listed = {listed}
  Yaml <- MCYaml
  YamlVersion <- MCYamlVersion
  Chosen <- MCNoChoice
  NotLoaded = NotLoaded
  NoVersion = NoVersion
  Faults = {"read", "restart"}
  MaxRequests = 3
SPECIFICATION FairSpec
INVARIANTS TypeOK DerivedIsNewer
PROPERTIES RequestsFinish
