CONSTANTS
  Daemons = {d1, d2}
  Clients = {c1, c2}
  None = None
  ChannelLimit = 1
  BatchLimit = 3
  Stride = 2
  MaxPolls = 1
  MaxCommands = 3
  MaxFaults = 1
SPECIFICATION FairSpec
INVARIANTS
  TypeOK
  ServingIsReachable
  DeadlinesNotStarved
PROPERTIES
  DaemonGoesWithServer
  CommandsEnd
CHECK_DEADLOCK FALSE
