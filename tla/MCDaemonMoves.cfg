SPECIFICATION PlayingSpec
CONSTANTS
  spotify = spotify
  stub = stub
  Providers = {spotify, stub}
  Priority <- SpotifyThenStub
  AlwaysAvailable = {stub}
  Stamps = {spotify}
  InMemory = {stub}
  ForwardBuffer = 1
  Clients = {c1, c2}
  NoProc = NoProc
  Reported = {"playing", "paused"}
  Tracks = {}
  NoTrack = NoTrack
  NoID = ""
  NoProvider = NoProvider
  Volumes = {0}
  Positions = {0}
  Buffers = {1}
  DefaultBuffer = 1
  MaxSubs = 1
  Debounce = 3
  Latency = 1
  MaxTime = 3
  MaxRuns = 2
  MaxSets = 0
  MaxCommands = 2
  MaxFlips = 1
PROPERTIES
  NoBounce
  Settles
CHECK_DEADLOCK FALSE
