------------------------------ MODULE MCScripts ------------------------------
\* The scripts that create and end agent sessions, one of them in each behaviour:
\* a picker that kills sessions, or launchers that race for names.
EXTENDS BulkKill, Launcher, TLC

VARIABLES running

\* Session 3 begins with the name of session 1, say 10.
MCBegins == {<<1, 3>>}

MCInit ==
    /\ running \in {"picker", "launchers"}
    /\ Init /\ LauncherInit
    /\ running = "picker" => names = {}
    /\ running = "launchers" => \A p, q \in Panes : home[p] = home[q]

InPicker(A) == running = "picker" /\ A /\ UNCHANGED <<running, launcherVars>>
InLaunchers(A) == running = "launchers" /\ A /\ UNCHANGED <<running, vars>>

MCNext ==
    \/ InPicker(\E p \in Panes : AgentTurns(p)) \/ InPicker(\E p \in Panes : MirrorSet(p))
    \/ InPicker(\E p \in Panes : PaneMoves(p)) \/ InPicker(\E p \in Panes : Reported(p))
    \/ InPicker(\E s \in Sessions : SessionEnds(s)) \/ InPicker(Scan)
    \/ InPicker(DaemonRestarts) \/ InPicker(Match) \/ InPicker(MatchOne)
    \/ InPicker(Confirm) \/ InPicker(Proceeds)
    \/ InLaunchers(\E l \in Launchers : Script(l))
    \/ InLaunchers(\E n \in Names : NamedSessionEnds(n))

MCSpec == MCInit /\ [][MCNext]_<<vars, running, launcherVars>>

\* Panes and sessions of the picker are interchangeable.
Interchangeable == Permutations(Panes) \cup Permutations(Sessions)
=============================================================================
