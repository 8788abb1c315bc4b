CONSTANTS
  Cases <- MCCases
  MaxTrack = 20
  Loudness = 100
  Lengths <- MCLengths
  Chunks <- MCChunks
  Overlaps <- MCOverlaps
  Songs <- MCSongs
  Formats = {"flac", "pcm32"}
  Loud <- MCLoud
  Remembered = 2
  MaxDrops = 2
SPECIFICATION FairDropsSpec
INVARIANTS
  Aligned
  NeverUncovered
  AdmissionAgrees
  ServedAsAsked
  PartsSum
  LevelsAreKept
  DropsAreWritten
PROPERTIES
  BarNeverGoesBack
  CancelEndsIt
CHECK_DEADLOCK FALSE
