SPECIFICATION FairSpec
CONSTANTS
  Providers = {spotify}
  Reported = {"playing", "paused"}
  Tracks <- TracksOfOneName
  NoTrack = NoTrack
  NoID = ""
  NoProvider = NoProvider
  Volumes = {0}
  Positions = {0}
  Debounce = 1
  Buffers = {0}
  DefaultBuffer = 2
  MaxSubs = 1
  MaxTime = 1
INVARIANTS
  TypeOK
  InSync
  TicksWhilePlaying
PROPERTIES
  ImplementsFeed
  Converges
