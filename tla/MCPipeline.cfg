SPECIFICATION FairPipelineSpec
CONSTANTS
  Clients = {c1, c2}
  NoClient = NoClient
  UpCap = 2
  SockCap = 1
  NotifyCap = 1
  MaxVersion = 3
  MaxDisturbances = 1
INVARIANTS
  PipelineTypeOK
  ClientsAgree
PROPERTIES
  NeverGoesBack
  CatchesUp
CHECK_DEADLOCK FALSE
