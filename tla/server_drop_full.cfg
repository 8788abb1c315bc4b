CONSTANTS
  Jobs = {j1, j2}
  Installers = {}
  Stoppers = {}
  MaxDepth = 1
  Segments = 1
  Boot = Boot
  None = None
  Keys = {k1, k2}
  Clients = {c1}
  Leavers = {}
  Retriers = {}
  Hangers = {}
  Drops = {d1}
SPECIFICATION ServerSpec
SYMMETRY JobSymmetry
INVARIANTS
  LiveJobsAreOwned
CHECK_DEADLOCK FALSE
