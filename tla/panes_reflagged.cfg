CONSTANTS
  Panes = {p1}
  Interval = 1
  Recheck = 1
  FullInterval = 1
  Cap = 1
  Confirmations = 2
  StateTtl = 0
  Noise <- NoNoise
  Reports <- TurnReports
  MaxRedraws = 0
  MaxFaults = 0
  MaxOutbox = 1
SPECIFICATION Spec
PROPERTIES
  AnnouncedOnce
