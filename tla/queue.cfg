SPECIFICATION BoundedSpec
CONSTANTS
  Jobs = {j1, j2}
  Installers = {i1, i2}
  Stoppers = {s1, s2}
  MaxDepth = 1
  Segments = 1
  MaxCalls = 4
  Boot = Boot
  None = None
SYMMETRY Symmetry
INVARIANTS
  TypeOK
  OnePlace
  EndsForAReason
  NoLostWakeup
  StopIsHonest
  InstallAnswerable
PROPERTIES
  ImplementsService
  NothingBeginsAfterShutdown
CHECK_DEADLOCK FALSE
