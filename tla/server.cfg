SPECIFICATION ServerSpec
CONSTANTS
  Jobs = {j1, j2, j3}
  Installers = {}
  Stoppers = {}
  MaxDepth = 1
  Segments = 1
  Boot = Boot
  None = None
  Keys = {k1}
  Clients = {c1, c2}
  Leavers = {c1, c2}
  Retriers = {c1, c2}
  Hangers = {c1, c2}
  Drops = {d1}
SYMMETRY DeckSymmetry
INVARIANTS
  OneLiveJobPerKey
  NothingSeparatedTwice
  HandlesFollowStems
CHECK_DEADLOCK FALSE
