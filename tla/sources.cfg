CONSTANTS
  MaxServers = 2
  Files = {f1}
  Rows = {r1, r2}
  None = None
  Never = Never
  MaxChanges = 2
  MaxFaults = 1
SPECIFICATION FairSpec
INVARIANTS
  TypeOK
  CacheIsTrue
  CleanExitLeavesNothing
PROPERTIES
  PublicationImplemented
  SourceConverges
