CONSTANTS
  Daemons = {d1, d2}
  Clients = {c1}
  None = None
  ChannelLimit = 1
  BatchLimit = 3
  Stride = 2
  MaxPolls = 1
  MaxCommands = 3
  MaxFaults = 0
SPECIFICATION FairSpec
PROPERTIES
  EnsuredServes
CHECK_DEADLOCK FALSE
