CONSTANTS
  Tools = {t1}
  Panes = {p1}
  Sessions = {s1, s2}
  None = None
  MaxGeneration = 2
  MaxSequence = 2
  MaxMessages = 2
  ReportedStates = {"working", "done"}
  StateTtl = 1
  RetiredTtl = 1
  MaxRetired = 1
SPECIFICATION FairSpec
INVARIANTS
  TypeOK
  OneGenerationPerPane
  RetiredStayGone
PROPERTIES
  SequenceOnlyAdvances
  RetirementIsExact
  ClosedPaneForgotten
