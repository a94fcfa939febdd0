---------------------------- MODULE MCPaneStates ----------------------------
(* Instances of PaneStates for TLC: values for the constants a cfg cannot  *)
(* write.                                                                  *)
EXTENDS PaneStates

NoNoise == {}
RedrawNoise == {"idle"}
AnyNoise == {"idle", "skip"}

NoReports == {}
TurnReports == {"working", "done", "idle"}
CompletionReports == {"working", "done"}
=============================================================================
