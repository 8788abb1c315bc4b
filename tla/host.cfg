SPECIFICATION Spec
CONSTANTS
  None = None
  l1 = l1
  l2 = l2
  Launches <- MCLaunches
  Plans <- MCPlans
  Paths <- MCPaths
  Spelled <- MCSpelled
INVARIANTS
  HostTypeOK
  PairIsCarried
  FlagsStayOut
  FileSurvives
  FilesAreThePinned
  LoserClearsNothing
  LeavesCleanly
  IdentityTellsAudioApart
PROPERTY
  KeepsWhatItCannotReplace
CHECK_DEADLOCK FALSE
