CONSTANTS
  listed = listed
  plain = plain
  wider = wider
  narrow = narrow
  wide = wide
  auto = auto
  confirms = confirms
  none = none
  Thread = {t1}
  Shape = {listed, plain, wider}
  Bounds = {narrow}
  Level = {auto}
  Tools = {none}
  Listed = {listed}
  Yaml <- MCYaml
  YamlVersion <- MCYamlVersion
  Chosen <- MCChosen
  NotLoaded = NotLoaded
  NoVersion = NoVersion
  Faults = {"read", "restart"}
  MaxRequests = 3
SPECIFICATION Spec
INVARIANTS OneActive BreakingIsMajor
PROPERTIES RefinesCatalog
