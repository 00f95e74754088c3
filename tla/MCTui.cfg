SPECIFICATION MCSpec
CONSTANTS
  MaxKeys = 2
  MaxResults = 2
  MaxBreaks = 1
  WindowWidths = {1, 18, 19, 40, 41, 200}
  Durations = {0, 550, 2000}
  Offsets <- MCOffsets
  Widths = {19, 20}
  Heights = {2, 3}
  DotRows = 1
  FeedStaleFrames = 2
  MaxTicks = 4
  Calls = {k1, k2}
  NotifyCap = 1
  MaxNotes = 2
INVARIANTS
  TuiTypeOK
  TypingUndisturbed
  BrowserFlashHonest
  ScreenFits
  VisualizerTypeOK
  BuffersFit
  FollowsFeed
  ConnTypeOK
  NoStuckCall
  PanicOnlyByOwner
PROPERTIES
  CallsEnd
  ImplementsRpc
CHECK_DEADLOCK FALSE
