CONSTANTS
  Panes = {p1, p2}
  Sessions = {s1, s2}
  None = None
  MaxFaults = 1
  Launchers = {"first", "second"}
  MaxNumber = 3
  Directory = 0
  Begins <- MCBegins
  Conversations = {"saved"}
  Unset = Unset
SPECIFICATION MCSpec
INVARIANTS
  TypeOK
  OkIsComplete
  OkIsForgotten
  OwnSession
  InstanceNamesSession
PROPERTIES
  RecordedTurnsSurvive
SYMMETRY Interchangeable
