SPECIFICATION VisualizerSpec
CONSTANTS
  Widths = {19, 20}
  Heights = {2, 3}
  DotRows = 1
  FeedStaleFrames = 2
  MaxTicks = 5
INVARIANT InRange
CHECK_DEADLOCK FALSE
