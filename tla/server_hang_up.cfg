CONSTANTS
  Jobs = {j1, j2}
  Installers = {}
  Stoppers = {}
  MaxDepth = 1
  Segments = 1
  Boot = Boot
  None = None
  Keys = {k1}
  Clients = {c1, c2}
  Leavers = {}
  Retriers = {}
  Hangers = {c1}
  Drops = {}
SPECIFICATION FairServerSpec
PROPERTIES
  EveryCallerAnswered
CHECK_DEADLOCK FALSE
