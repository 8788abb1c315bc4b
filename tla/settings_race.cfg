SPECIFICATION Spec
CONSTANTS
  None = None
  l1 = l1
  l2 = l2
  Launches <- MCLaunches
  Plans <- MCMenus
  Paths <- MCPaths
  Spelled <- MCSpelled
INVARIANT EveryChangeIsSaved
CHECK_DEADLOCK FALSE
