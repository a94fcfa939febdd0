CONSTANTS
  Panes = {p1}
  Interval = 4
  Recheck = 1
  FullInterval = 5
  Cap = 3
  Confirmations = 3
  StateTtl = 6
  Noise <- AnyNoise
  Reports <- NoReports
  MaxRedraws = 3
  MaxFaults = 2
  MaxOutbox = 0
SPECIFICATION FairSpec
INVARIANTS
  TypeOK
  PendingBelongsToWorking
PROPERTIES
  ReleaseNeedsEvidence
  TurnsImplemented
  ConfirmationsEnd
  RestEventuallyShown
  WorkEventuallyShown
