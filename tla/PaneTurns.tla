------------------------------ MODULE PaneTurns ------------------------------
(***************************************************************************)
(* What the user of panes without program reports may rely on (README.md,  *)
(* 254, 342): a pane shows no turn but one that was on, and a turn that it *)
(* showed and that ended while nobody watched is announced, once. Screens, *)
(* confirmations and deadlines, by which PaneStates keeps this, are not    *)
(* visible here. A step that opens a pane looks like one that loses its    *)
(* announcement: that none is lost is DoneUntilSeen of PaneStates.         *)
(***************************************************************************)
CONSTANT Panes

VARIABLES
    doing,           \* doing[p]: what the agent of p does
    watched,         \* watched[p]: somebody looks at p
    shown,           \* shown[p]: the state of p, "none" without one
    stale,           \* stale[p]: p has shown a turn for longer than the TTL
    owed             \* owed[p]: a turn of p ended that was not announced

vars == <<doing, watched, shown, stale, owed>>

InTurn == {"working", "asking"}
ShowsTurn == {"working", "blocked"}

After(d) ==
    CASE d = "absent"  -> {"resting"}
      [] d = "resting" -> {"working", "absent"}
      [] d = "working" -> {"asking", "resting", "absent"}
      [] d = "asking"  -> {"working", "resting", "absent"}

Init ==
    /\ doing \in [Panes -> {"absent", "resting", "working"}]
    /\ watched = [p \in Panes |-> FALSE]
    /\ shown = [p \in Panes |-> "none"]
    /\ stale = [p \in Panes |-> FALSE]
    /\ owed = [p \in Panes |-> FALSE]

\* The agent goes on; whatever ends a turn owes its announcement.
Acts(p) ==
    \E d \in After(doing[p]) :
        /\ doing' = [doing EXCEPT ![p] = d]
        /\ owed' = [owed EXCEPT ![p] = @ \/ (doing[p] \in InTurn /\ d \notin InTurn)]
        /\ UNCHANGED <<watched, shown, stale>>

Watches(p) ==
    /\ watched' = [watched EXCEPT ![p] = ~@]
    /\ UNCHANGED <<doing, shown, stale, owed>>

Opens(p) ==
    /\ shown[p] = "done"
    /\ shown' = [shown EXCEPT ![p] = "idle"]
    /\ UNCHANGED <<doing, watched, stale, owed>>

\* The session of the pane is killed.
Closes(p) ==
    /\ shown' = [shown EXCEPT ![p] = "none"]
    /\ stale' = [stale EXCEPT ![p] = FALSE]
    /\ UNCHANGED <<doing, watched, owed>>

\* Time passes: only a turn that is shown gets stale.
Ages ==
    /\ stale' \in [Panes -> BOOLEAN]
    /\ \A p \in Panes : /\ stale[p] => stale'[p]
                        /\ stale'[p] => stale[p] \/ shown[p] \in ShowsTurn
    /\ UNCHANGED <<doing, watched, shown, owed>>

Fresh(p) == IF stale[p] THEN "none" ELSE shown[p]

\* A turn is over, or a redraw is taken for the end of one. One that nobody
\* watched is announced, if it was shown and its announcement is owed.
Over(p) ==
    IF Fresh(p) \in ShowsTurn /\ ~watched[p]
    THEN {state \in {"done"} : owed[p] \/ doing[p] = "working"}
    ELSE {IF Fresh(p) = "done" THEN "done" ELSE "idle"}

\* What p shows next: what it showed, unless that is stale, or what its agent does.
Views(p) ==
    {Fresh(p)} \cup
    CASE doing[p] = "absent"  -> {"none"}
      [] doing[p] = "resting" -> Over(p)
      [] doing[p] = "working" -> {"working"} \cup Over(p)
      [] doing[p] = "asking"  -> {"blocked"}

Refreshes ==
    /\ \A p \in Panes : shown'[p] \in Views(p)
    /\ shown' \in [Panes -> {"none", "idle", "working", "blocked", "done"}]
    /\ stale' = [p \in Panes |-> FALSE]
    /\ owed' = [p \in Panes |-> owed[p] /\ ~(shown[p] # "done" /\ shown'[p] = "done")]
    /\ UNCHANGED <<doing, watched>>

Next ==
    \/ \E p \in Panes : Acts(p) \/ Watches(p) \/ Opens(p) \/ Closes(p)
    \/ Ages \/ Refreshes

Spec == Init /\ [][Next]_vars
=============================================================================
