SPECIFICATION FairSpec
CONSTANTS
  Ids <- TwoIds
  Sessions <- AllSessions
  MaxFrames = 4
  InitialWindow = 1
  MaxFrameSize = 2
  MaxBody = 1
INVARIANTS
  FramesNotInterleaved
  OverspendIsBounded
  NoStalledWriter
  OneResponsePerStream
  DispatchedComplete
PROPERTIES
  ResponsesProgress
CHECK_DEADLOCK FALSE
