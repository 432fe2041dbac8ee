SPECIFICATION FairSpec
CONSTANTS
  Ids <- TwoIds
  Sessions <- BreakSessions
  MaxFrames = 2
  InitialWindow = 1
  MaxFrameSize = 1
  MaxBody = 1
PROPERTIES
  BrokenConnectionEnds
CHECK_DEADLOCK FALSE
