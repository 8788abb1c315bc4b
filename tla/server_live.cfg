CONSTANTS
  Jobs = {j1, j2}
  Installers = {}
  Stoppers = {}
  MaxDepth = 1
  Segments = 1
  Boot = Boot
  None = None
  Keys = {k1, k2}
  Clients = {c1, c2}
  Leavers = {c1, c2}
  Retriers = {}
  Hangers = {}
  Drops = {}
SPECIFICATION FairServerSpec
INVARIANTS
  LiveJobsAreOwned
  WaitersAreCounted
PROPERTIES
  EveryCallerAnswered
CHECK_DEADLOCK FALSE
