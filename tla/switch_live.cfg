SPECIFICATION OrderedSwitchSpec
CONSTANTS
  j1 = j1
  i1 = i1
  i2 = i2
  s1 = s1
  p1 = p1
  p2 = p2
  p3 = p3
  Jobs = {j1}
  Installers = {i1, i2}
  Stoppers = {s1}
  MaxDepth = 2
  Segments = 1
  Boot = Boot
  None = None
  Presets = {p1, p2, p3}
  BootPreset = p1
  FirstThread = i1
  FirstPreset = p2
INVARIANT
  NamedModelIsLoaded
PROPERTIES
  EverySwitchEnds
  WorkerLeaves
CHECK_DEADLOCK FALSE
