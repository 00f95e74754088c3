SPECIFICATION DaemonSpec
CONSTANTS
  spotify = spotify
  stub = stub
  Providers = {spotify, stub}
  Priority <- SpotifyThenStub
  AlwaysAvailable = {stub}
  Stamps = {spotify}
  InMemory = {stub}
  ForwardBuffer = 1
  Clients = {c1}
  NoProc = NoProc
  Reported = {"playing", "paused"}
  Tracks = {}
  NoTrack = NoTrack
  NoID = ""
  NoProvider = NoProvider
  Volumes = {0}
  Positions = {0}
  Buffers = {1}
  DefaultBuffer = 1
  MaxSubs = 1
  Debounce = 0
  Latency = 1
  MaxTime = 0
  MaxRuns = 3
  MaxSets = 1
  MaxCommands = 0
  MaxFlips = 1
INVARIANTS
  ForcedKept
CHECK_DEADLOCK FALSE
