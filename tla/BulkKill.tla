------------------------------ MODULE BulkKill ------------------------------
(***************************************************************************)
(* A picker that kills managed sessions (scripts/picker/actions.sh): one   *)
(* session at once, or after a confirmation all that the query matches,    *)
(* except those that work or wait for an answer. Every step of the script  *)
(* is a command of its own, while agents start and end turns, panes move,  *)
(* sessions end and the daemon's records follow later or fail to answer.   *)
(*                                                                         *)
(* Sessions are tmux session IDs, which are never used again. "active"     *)
(* stands for the states working and blocked, "resting" for idle, done and *)
(* unknown. History rows and panes outside managed sessions are left out.  *)
(***************************************************************************)
EXTENDS FiniteSets, Naturals

CONSTANTS
    Panes, Sessions, None,
    MaxFaults        \* commands that fail and daemons that restart

ASSUME BulkKillAssumption ==
    None \notin Sessions /\ IsFiniteSet(Sessions) /\ MaxFaults \in Nat

VARIABLES
    faults,
    \* tmux and the agents.
    live,            \* sessions that exist
    home,            \* home[p]: the session of pane p, None once p is gone
    agent,           \* agent[p]: what the agent in p does
    mirror,          \* mirror[s]: option @agent_state of s, set by its reporter
    \* The daemon.
    record,          \* record[p]: what the daemon knows of p, or None
    \* The picker.
    stage, matched,
    shown,           \* matched sessions that were listed as active
    left,            \* targets not yet looked at
    protected,       \* targets that were active when the targets were loaded
    target, killed, skipped, failed, reported, aborted, result,
    \* History: the current target became active, for the daemon or in its mirror,
    \* after the picker began to read its state.
    fresh

panes == <<home, agent>>
counts == <<killed, skipped, failed, aborted>>
batch == <<matched, shown, left, protected, target, counts, reported, result>>
picker == <<stage, batch>>
vars == <<faults, live, panes, mirror, record, picker, fresh>>

Activities == {"resting", "active"}
Records == [session : Sessions, state : Activities]
Stages == {"idle", "confirm", "load", "next", "daemon", "mirror", "kill", "single", "report"}

TypeOK ==
    /\ faults \in 0..MaxFaults
    /\ live \subseteq Sessions
    /\ home \in [Panes -> live \cup {None}]
    /\ agent \in [Panes -> Activities]
    /\ mirror \in [Sessions -> Activities]
    /\ record \in [Panes -> Records \cup {None}]
    /\ stage \in Stages
    /\ matched \subseteq Sessions
    /\ shown \subseteq matched /\ left \subseteq matched /\ protected \subseteq matched
    /\ killed \subseteq matched /\ skipped \subseteq matched /\ failed \subseteq matched
    /\ reported \subseteq killed
    /\ target \in matched \cup {None}
    /\ aborted \in BOOLEAN
    /\ result \in {"none", "ok", "failed"}
    /\ fresh \in BOOLEAN

\* The daemon has seen no pane yet; the picker may be called at any time.
Init ==
    /\ faults = 0
    /\ live = Sessions
    /\ home \in [Panes -> Sessions]
    /\ agent = [p \in Panes |-> "resting"]
    /\ mirror = [s \in Sessions |-> "resting"]
    /\ record = [p \in Panes |-> None]
    /\ stage = "idle"
    /\ matched = {} /\ shown = {} /\ left = {} /\ protected = {}
    /\ target = None
    /\ killed = {} /\ skipped = {} /\ failed = {} /\ reported = {}
    /\ aborted = FALSE
    /\ result = "none"
    /\ fresh = FALSE

Fault == faults < MaxFaults /\ faults' = faults + 1

\* Sessions with a working or blocked record.
RecordedActive ==
    {s \in Sessions : \E p \in Panes : record[p] # None /\ record[p].session = s
                                                        /\ record[p].state = "active"}

MirroredActive == {s \in Sessions : mirror[s] = "active"}

\* The history after a change of records and mirrors.
Noted ==
    fresh' = (\/ fresh
              \/ /\ stage \in {"daemon", "mirror", "kill"}
                 /\ \/ target \in RecordedActive' \ RecordedActive
                    \/ target \in MirroredActive' \ MirroredActive)

-----------------------------------------------------------------------------
(* tmux, the agents and the daemon *)

AgentTurns(p) ==
    /\ home[p] # None
    /\ \E activity \in Activities \ {agent[p]} : agent' = [agent EXCEPT ![p] = activity]
    /\ UNCHANGED <<faults, live, home, mirror, record, picker, fresh>>

\* The reporter of an agent sets the mirror before it tells the daemon.
MirrorSet(p) ==
    /\ home[p] # None
    /\ mirror' = [mirror EXCEPT ![home[p]] = agent[p]]
    /\ UNCHANGED <<faults, live, panes, record, picker>>
    /\ Noted

PaneMoves(p) ==
    /\ home[p] # None
    /\ \E s \in live \ {home[p]} : home' = [home EXCEPT ![p] = s]
    /\ UNCHANGED <<faults, live, agent, mirror, record, picker, fresh>>

\* A session ends, with its panes.
Ended(s) ==
    /\ live' = live \ {s}
    /\ home' = [p \in Panes |-> IF home[p] = s THEN None ELSE home[p]]

SessionEnds(s) ==
    /\ s \in live
    /\ Ended(s)
    /\ UNCHANGED <<faults, agent, mirror, record, picker, fresh>>

\* What a scan records of pane p.
Observed(p) ==
    IF home[p] = None THEN None ELSE [session |-> home[p], state |-> agent[p]]

\* The agent in p reports to the daemon.
Reported(p) ==
    /\ home[p] # None
    /\ record' = [record EXCEPT ![p] = Observed(p)]
    /\ UNCHANGED <<faults, live, panes, mirror, picker>>
    /\ Noted

\* The daemon scans all panes, and drops those that are gone.
Scan ==
    /\ record' = [p \in Panes |-> Observed(p)]
    /\ UNCHANGED <<faults, live, panes, mirror, picker>>
    /\ Noted

\* A new daemon that cannot list the panes at first has no records.
DaemonRestarts ==
    /\ Fault
    /\ record' = [p \in Panes |-> None]
    /\ UNCHANGED <<live, panes, mirror, picker, fresh>>

-----------------------------------------------------------------------------
(* The picker *)

\* Rows of managed sessions: the state of a row is that of one of the session's
\* records, and the mirror without one.
RowStates(s) ==
    LET recorded == {record[p].state : p \in {q \in Panes :
                        record[q] # None /\ record[q].session = s}}
    IN IF recorded = {} THEN {mirror[s]} ELSE recorded

\* Mutant: what an earlier batch has killed stays in the account.
StartsOn(rows, active) ==
    /\ matched' = rows /\ shown' = active
    /\ left' = {} /\ protected' = {} /\ target' = None
    /\ skipped' = {} /\ failed' = {} /\ reported' = {}
    /\ aborted' = FALSE /\ result' = "none"
    /\ UNCHANGED killed

Starts(rows, active) ==
    /\ matched' = rows /\ shown' = active
    /\ left' = {} /\ protected' = {} /\ target' = None
    /\ killed' = {} /\ skipped' = {} /\ failed' = {} /\ reported' = {}
    /\ aborted' = FALSE /\ result' = "none"

\* ctrl-r, with the listed rows that the query matches. Without a daemon, rows
\* are listed with their mirror.
Match ==
    /\ stage = "idle"
    /\ \E rows \in SUBSET live, active \in SUBSET live :
          /\ rows # {} /\ active \subseteq rows
          /\ \/ /\ \A s \in active : "active" \in RowStates(s)
                /\ \A s \in rows \ active : "resting" \in RowStates(s)
                /\ UNCHANGED faults
             \/ Fault /\ active = rows \cap MirroredActive
          /\ Starts(rows, active)
    /\ stage' = "confirm"
    /\ UNCHANGED <<live, panes, mirror, record, fresh>>

\* ctrl-x on the row of a session.
MatchOne ==
    /\ stage = "idle"
    /\ \E s \in live : Starts({s}, {}) /\ stage' = "single"
    /\ UNCHANGED <<faults, live, panes, mirror, record, fresh>>

\* The script returns.
Finishes(outcome) ==
    /\ stage' = "idle" /\ result' = outcome
    /\ shown' = {} /\ left' = {} /\ protected' = {} /\ target' = None

\* read_matched_session_rows and confirm_bulk_kill.
Confirm ==
    /\ stage = "confirm"
    /\ \/ stage' = "load" /\ UNCHANGED <<faults, shown, left, protected, target, result>>
       \/ Finishes("none") /\ UNCHANGED faults
       \/ Fault /\ Finishes("failed")
    /\ UNCHANGED <<live, panes, mirror, record, matched, counts, reported, fresh>>

\* load_validated_targets: a fresh snapshot, joined with the listed rows.
Load ==
    /\ stage = "load"
    /\ \/ /\ left' = matched
          /\ protected' = matched \cap (shown \cup RecordedActive)
          /\ stage' = "next"
          /\ UNCHANGED <<faults, shown, target, result>>
       \/ Fault /\ Finishes("failed")
    /\ UNCHANGED <<live, panes, mirror, record, matched, counts, reported, fresh>>

\* Mutant: the snapshot before the first kill is relied on.
ReliesOnSnapshot(s) == target' = s /\ stage' = "mirror"

\* revalidate_target_before_kill begins.
Revalidates(s) == target' = s /\ stage' = "daemon"

\* execute_validated_targets takes the next target.
NextTarget ==
    /\ stage = "next"
    /\ \/ left = {} /\ stage' = "report" /\ UNCHANGED <<left, skipped, target>>
       \/ \E s \in left :
             /\ left' = left \ {s}
             /\ \/ /\ s \in protected
                   /\ skipped' = skipped \cup {s}
                   /\ UNCHANGED <<target, stage>>
                \/ s \notin protected /\ Revalidates(s) /\ UNCHANGED skipped
    /\ fresh' = FALSE
    /\ UNCHANGED <<faults, live, panes, mirror, record, matched, shown, protected,
                   killed, failed, aborted, reported, result>>

Skips == skipped' = skipped \cup {target} /\ stage' = "next" /\ UNCHANGED <<failed, aborted>>
Fails == failed' = failed \cup {target} /\ stage' = "next" /\ UNCHANGED <<skipped, aborted>>

\* Mutant: an abort is not a failure.
AbortsUncounted == aborted' = TRUE /\ stage' = "report" /\ UNCHANGED <<skipped, failed>>

Aborts ==
    /\ failed' = failed \cup {target}
    /\ aborted' = TRUE /\ stage' = "report"
    /\ UNCHANGED skipped

\* read_current_target_protection: unavailable or malformed records abort.
ReadDaemon ==
    /\ stage = "daemon"
    /\ \/ Fault /\ Aborts
       \/ target \in RecordedActive /\ Skips /\ UNCHANGED faults
       \/ /\ target \notin RecordedActive /\ stage' = "mirror"
          /\ UNCHANGED <<faults, skipped, failed, aborted>>
    /\ UNCHANGED <<live, panes, mirror, record, matched, shown, left, protected,
                   target, killed, reported, result, fresh>>

\* read_current_managed_session_state: a malformed mirror aborts, and a session
\* that has ended fails alone.
ReadMirror ==
    /\ stage = "mirror"
    /\ \/ target \notin live /\ Fails /\ UNCHANGED faults
       \/ target \in live /\ Fault /\ Aborts
       \/ target \in live /\ mirror[target] = "active" /\ Skips /\ UNCHANGED faults
       \/ /\ target \in live /\ mirror[target] = "resting" /\ stage' = "kill"
          /\ UNCHANGED <<faults, skipped, failed, aborted>>
    /\ UNCHANGED <<live, panes, mirror, record, matched, shown, left, protected,
                   target, killed, reported, result, fresh>>

\* tmux kill-session.
Kills(s) ==
    \/ s \in live /\ Ended(s) /\ killed' = killed \cup {s} /\ UNCHANGED <<faults, failed>>
    \/ /\ (s \notin live /\ UNCHANGED faults) \/ (s \in live /\ Fault)
       /\ failed' = failed \cup {s}
       /\ UNCHANGED <<live, home, killed>>

\* The end of kill_validated_target.
Kill ==
    /\ stage = "kill"
    /\ Kills(target)
    /\ stage' = "next"
    /\ UNCHANGED <<agent, mirror, record, matched, shown, left, protected,
                   target, skipped, aborted, reported, result, fresh>>

\* kill_target of a single session: working or not, as the user says.
KillTarget ==
    /\ stage = "single"
    /\ \E s \in matched : Kills(s)
    /\ stage' = "report"
    /\ UNCHANGED <<agent, mirror, record, matched, shown, left, protected,
                   target, skipped, aborted, reported, result, fresh>>

\* apply_exit of the daemon.
Forgotten(s) ==
    record' = [p \in Panes |->
        IF record[p] # None /\ record[p].session = s THEN None ELSE record[p]]

\* Mutant: a report that fails is passed over.
ReportAnyway ==
    /\ stage = "report"
    /\ \/ /\ killed = reported
          /\ Finishes(IF failed = {} THEN "ok" ELSE "failed")
          /\ UNCHANGED <<faults, record, reported>>
       \/ \E s \in killed \ reported :
             /\ reported' = reported \cup {s}
             /\ \/ Forgotten(s) /\ UNCHANGED faults
                \/ Fault /\ UNCHANGED record
             /\ UNCHANGED <<stage, shown, left, protected, target, result>>
    /\ UNCHANGED <<live, panes, mirror, matched, counts, fresh>>

\* report_session_exits, one report after the other up to the first that fails,
\* and the message to the user.
Report ==
    /\ stage = "report"
    /\ \/ /\ killed = reported
          /\ Finishes(IF failed = {} THEN "ok" ELSE "failed")
          /\ UNCHANGED <<faults, record, reported>>
       \/ \E s \in killed \ reported :
             \/ /\ Forgotten(s) /\ reported' = reported \cup {s}
                /\ UNCHANGED <<faults, stage, shown, left, protected, target, result>>
             \/ Fault /\ Finishes("failed") /\ UNCHANGED <<record, reported>>
    /\ UNCHANGED <<live, panes, mirror, matched, counts, fresh>>

Proceeds ==
    \/ Load \/ NextTarget \/ ReadDaemon \/ ReadMirror
    \/ Kill \/ KillTarget \/ Report

Next ==
    \/ \E p \in Panes : AgentTurns(p) \/ MirrorSet(p) \/ PaneMoves(p) \/ Reported(p)
    \/ \E s \in Sessions : SessionEnds(s)
    \/ Scan \/ DaemonRestarts
    \/ Match \/ MatchOne \/ Confirm \/ Proceeds

Spec == Init /\ [][Next]_vars

-----------------------------------------------------------------------------
(* Properties *)

\* Screen-detected turns that start while earlier targets are killed protect
\* their session, and so do turns that reached only the mirror: a bulk kill ends
\* an active session only if it became active after its own state was read.
RecordedTurnsSurvive ==
    [][\A s \in killed' \ killed :
          stage = "kill" /\ s \in RecordedActive \cup MirroredActive => fresh]_vars

\* A failed reading ends the batch: nothing more is killed until the next one.
AbortIsFinal == [][aborted => killed' \subseteq killed]_vars

\* A message without failures accounts for every matched session: each one was
\* either killed or skipped.
OkIsComplete ==
    result = "ok" =>
        /\ ~aborted /\ failed = {}
        /\ matched = killed \cup skipped /\ killed \cap skipped = {}

\* When the picker is interactive again without a failure, the daemon shows no
\* record of a session that it killed.
OkIsForgotten ==
    result = "ok" => \A p \in Panes : record[p] # None => record[p].session \notin killed
=============================================================================
