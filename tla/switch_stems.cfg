SPECIFICATION SwitchSpec
CONSTANTS
  j1 = j1
  i1 = i1
  p1 = p1
  p2 = p2
  Jobs = {j1}
  Installers = {i1}
  Stoppers = {}
  MaxDepth = 2
  Segments = 1
  Boot = Boot
  None = None
  Presets = {p1, p2}
  BootPreset = p1
  FirstThread = i1
  FirstPreset = p2
INVARIANTS StemsMatchTheirKey
CHECK_DEADLOCK FALSE
