SPECIFICATION ServicesSpec
CONSTANTS
  NoTokens = NoTokens
  Torn = Torn
  MaxRequests = 2
  MaxCallbacks = 2
  MaxGrants = 3
  MaxTroubles = 1
  MaxStarters = 3
  MaxPolls = 2
  MaxKills = 1
  MaxFrameSize = 4
  BufferSize = 2
  SocketSize = 2
  Lengths = {1, 3, 4}
  MaxReads = 2
  RingSize = 4
  Word = 16
  BufferLength = 3
  FFTSize = 2
  Deliveries = {1, 2, 5}
  MaxSamples = 36
  Prime = 17
  Omega = 3
  Order = 16
  FourierSizes = {2, 4, 8, 16}
  MaxBands = 5
INVARIANTS
  ServicesTypeOK
  NotLockedOut
  FileKeepsUp
  LikesToggle
  OneAtATime
  FramesIntact
  BandsPartition
  LoudAsDefined
PROPERTIES
  WebRequestsEnd
  StartSucceeds
  AnswersArrive
  ImplementsStream
  ImplementsQueue
CHECK_DEADLOCK FALSE
