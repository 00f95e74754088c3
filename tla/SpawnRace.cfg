SPECIFICATION SpawnSpec
CONSTANTS
  MaxStarters = 2
  MaxPolls = 2
  MaxKills = 0
INVARIANT OneDaemon
CHECK_DEADLOCK FALSE
