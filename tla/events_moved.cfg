CONSTANTS
  Tools = {t1}
  Panes = {p1, p2}
  Sessions = {s1, s2}
  None = None
  MaxGeneration = 1
  MaxSequence = 1
  MaxMessages = 2
  ReportedStates = {"working", "done"}
  StateTtl = 0
  RetiredTtl = 1
  MaxRetired = 1
SPECIFICATION Spec
INVARIANTS
  RunningNotRetired
