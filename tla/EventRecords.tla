---------------------------- MODULE EventRecords ----------------------------
(***************************************************************************)
(* The event-owned records of the state daemon (daemon/src/model/          *)
(* state_events.rs): agents other than pi, codex and claude report their   *)
(* own state. Each report is a connection of its own and carries the tool, *)
(* the pane, the process generation and a sequence number, so reports may  *)
(* be handled late and out of order. The daemon keeps one record per       *)
(* reporting process, remembers the generations that exited, and follows   *)
(* panes through tmux sessions on its regular scan.                        *)
(*                                                                         *)
(* The reporting processes, tmux and the picker are environment. Pane and  *)
(* session IDs are immutable and never reused within a tmux server.        *)
(***************************************************************************)
EXTENDS Naturals, FiniteSets

CONSTANTS
    Tools, Panes, Sessions,
    None,
    MaxGeneration,    \* processes started in one pane
    MaxSequence,      \* reports of one process
    MaxMessages,      \* requests in flight
    ReportedStates,
    StateTtl,         \* config.state_ttl; 0 disables expiry
    RetiredTtl,       \* RETIRED_GENERATION_TTL
    MaxRetired        \* MAX_RETIRED_GENERATIONS

AgentStates == {"idle", "working", "blocked", "done"}
ActiveStates == {"working", "blocked"}

ASSUME EventAssumption ==
    /\ None \notin Sessions
    /\ MaxGeneration \in Nat /\ MaxSequence \in Nat /\ MaxMessages \in Nat
    /\ ReportedStates \subseteq AgentStates
    /\ StateTtl \in Nat /\ RetiredTtl \in Nat /\ MaxRetired \in Nat
    /\ IsFiniteSet(Panes)

\* Generation 0 is the one restore_mirror_row makes up for a pane whose mirror
\* does not name the process.
Generations == 0..MaxGeneration
Sequences == 0..MaxSequence
MaxAge == IF StateTtl = 0 THEN 0 ELSE StateTtl + 1

\* The HashMap key event_key(tool, pane, generation).
Keys == [tool : Tools, pane : Panes, generation : Generations]
KeyOf(r) == [tool |-> r.tool, pane |-> r.pane, generation |-> r.generation]

AgentRecords == [tool : Tools, pane : Panes, generation : Generations,
                 session : Sessions, sequence : Sequences, state : AgentStates,
                 age : 0..MaxAge]
RetiredRecords == [key : Keys, age : 0..(RetiredTtl + 1)]

Reports == [type : {"report"}, tool : Tools, pane : Panes,
            generation : 1..MaxGeneration, session : Sessions,
            sequence : Sequences, state : AgentStates]
PaneExits == [type : {"exited"}, pane : Panes]
SessionExits == [type : {"exited"}, session : Sessions]

Processes == [tool : Tools, generation : 1..MaxGeneration, sequence : Sequences]
Mirrors == [tool : Tools, generation : Generations, sequence : Sequences, state : AgentStates]

VARIABLES
    session,     \* session[p]: the session that holds pane p, None if p is closed
    process,     \* process[p]: the reporting process that runs in p, or None
    started,     \* started[p]: generations started in p so far
    mirror,      \* mirror[p]: p's @agent_* options, or None
    messages,    \* requests sent and not handled
    agents,      \* StateCenter.agents with source Event, at most one per key
    retired      \* StateCenter.retired_event_generations

environment == <<session, process, started, mirror>>
vars == <<session, process, started, mirror, messages, agents, retired>>

TypeOK ==
    /\ session \in [Panes -> Sessions \cup {None}]
    /\ process \in [Panes -> Processes \cup {None}]
    /\ started \in [Panes -> Generations]
    /\ mirror \in [Panes -> Mirrors \cup {None}]
    /\ messages \subseteq Reports \cup PaneExits \cup SessionExits
    /\ agents \subseteq AgentRecords
    /\ retired \subseteq RetiredRecords

Init ==
    /\ session \in [Panes -> Sessions]
    /\ process = [p \in Panes |-> None]
    /\ started = [p \in Panes |-> 0]
    /\ mirror = [p \in Panes |-> None]
    /\ messages = {}
    /\ agents = {}
    /\ retired = {}

-----------------------------------------------------------------------------
(* The environment *)

Sends(m) ==
    /\ Cardinality(messages) < MaxMessages
    /\ messages' = messages \cup {m}

\* A managed launch tags the session it created with the tool and "idle"; a
\* process started by hand leaves no mirror until it reports.
ProcessStarts(p) ==
    /\ session[p] # None /\ process[p] = None /\ started[p] < MaxGeneration
    /\ started' = [started EXCEPT ![p] = @ + 1]
    /\ \E tool \in Tools :
          /\ process' = [process EXCEPT ![p] =
                [tool |-> tool, generation |-> started[p] + 1, sequence |-> 0]]
          /\ mirror' \in {mirror, [mirror EXCEPT ![p] =
                [tool |-> tool, generation |-> 0, sequence |-> 0, state |-> "idle"]]}
    /\ UNCHANGED <<session, messages, agents, retired>>

\* A reporter writes the mirror options and then sends its event.
ProcessReports(p) ==
    /\ process[p] # None /\ process[p].sequence < MaxSequence
    /\ \E state \in ReportedStates :
          /\ process' = [process EXCEPT ![p].sequence = @ + 1]
          /\ mirror' = [mirror EXCEPT ![p] =
                [tool |-> process[p].tool, generation |-> process[p].generation,
                 sequence |-> process[p].sequence + 1, state |-> state]]
          /\ Sends([type |-> "report", tool |-> process[p].tool, pane |-> p,
                    generation |-> process[p].generation, session |-> session[p],
                    sequence |-> process[p].sequence + 1, state |-> state])
    /\ UNCHANGED <<session, started, agents, retired>>

ProcessExits(p) ==
    /\ process[p] # None
    /\ process' = [process EXCEPT ![p] = None]
    /\ UNCHANGED <<session, started, mirror, messages, agents, retired>>

PaneMoves(p) ==
    /\ session[p] # None
    /\ \E s \in Sessions \ {session[p]} : session' = [session EXCEPT ![p] = s]
    /\ UNCHANGED <<process, started, mirror, messages, agents, retired>>

Closes(panes) ==
    /\ session' = [p \in Panes |-> IF p \in panes THEN None ELSE session[p]]
    /\ process' = [p \in Panes |-> IF p \in panes THEN None ELSE process[p]]
    /\ mirror' = [p \in Panes |-> IF p \in panes THEN None ELSE mirror[p]]
    /\ UNCHANGED <<started, agents, retired>>

\* A pane closes, with an exited-pane event or unnoticed.
PaneCloses(p) ==
    /\ session[p] # None
    /\ Closes({p})
    /\ UNCHANGED messages \/ Sends([type |-> "exited", pane |-> p])

\* The picker kills a session and reports its immutable ID.
SessionKilled(s) ==
    /\ \E p \in Panes : session[p] = s
    /\ Closes({p \in Panes : session[p] = s})
    /\ Sends([type |-> "exited", session |-> s])

MessageLost(m) ==
    /\ messages' = messages \ {m}
    /\ UNCHANGED <<environment, agents, retired>>

Least(m, n) == IF m < n THEN m ELSE n

Tick ==
    /\ agents' = {[r EXCEPT !.age = Least(@ + 1, MaxAge)] : r \in agents}
    /\ retired' = {[t EXCEPT !.age = Least(@ + 1, RetiredTtl + 1)] : t \in retired}
    /\ UNCHANGED <<environment, messages>>

-----------------------------------------------------------------------------
(* StateCenter *)

\* prune_retired_generations
Unpruned == {t \in retired : t.age <= RetiredTtl}

RetiredKeys(known) == {t.key : t \in known}

\* Mutant: a full map of retired generations takes no more.
RetiringWhileRoom(keys, known) ==
    LET all == {t \in known : t.key \notin keys} \cup {[key |-> k, age |-> 0] : k \in keys}
    IN IF Cardinality(all) <= MaxRetired THEN {all} ELSE {known}

\* retire_event_generation for each of the keys: a full map loses its oldest
\* entries, in any order among those of one age.
Retiring(keys, known) ==
    LET all == {t \in known : t.key \notin keys} \cup {[key |-> k, age |-> 0] : k \in keys}
    IN {kept \in SUBSET all :
            /\ Cardinality(kept) = Least(Cardinality(all), MaxRetired)
            /\ \A t \in kept, lost \in all \ kept : t.age <= lost.age}

\* Mutant: a new process does not take its pane over.
ReusedNone(m) == {}

\* remove_reused_pane: records another process of this tool left in the pane.
Reused(m) == {r \in agents : r.tool = m.tool /\ r.pane = m.pane
                             /\ r.generation # m.generation}

Current(m) == {r \in agents : KeyOf(r) = KeyOf(m)}

RecordOf(m) ==
    [tool |-> m.tool, pane |-> m.pane, generation |-> m.generation,
     session |-> m.session, sequence |-> m.sequence, state |-> m.state, age |-> 0]

\* Mutants: retired generations may report, and reports apply in any order.
IsRetiredNever(m) == FALSE

IsStaleNever(m) == FALSE

IsRetired(m) == KeyOf(m) \in RetiredKeys(Unpruned)

IsStale(m) == \E r \in Current(m) : m.sequence <= r.sequence

\* apply_report: a retired generation is ignored, any other takes the pane
\* over, and a report that is not newer than the record is then dropped.
ApplyReport(m) ==
    /\ m \in Reports
    /\ IF IsRetired(m)
       THEN agents' = agents /\ retired' = Unpruned
       ELSE /\ retired' \in Retiring({KeyOf(r) : r \in Reused(m)}, Unpruned)
            /\ agents' =
                 IF IsStale(m)
                 THEN agents \ Reused(m)
                 ELSE (agents \ (Reused(m) \cup Current(m))) \cup {RecordOf(m)}
    /\ messages' = messages \ {m}
    /\ UNCHANGED environment

\* record_matches_exit
Matches(r, m) == \/ m \in PaneExits /\ r.pane = m.pane
                 \/ m \in SessionExits /\ r.session = m.session

\* apply_exit
ApplyExit(m) ==
    /\ m \in PaneExits \cup SessionExits
    /\ LET exited == {r \in agents : Matches(r, m)}
       IN /\ retired' \in Retiring({KeyOf(r) : r \in exited}, Unpruned)
          /\ agents' = agents \ exited
    /\ messages' = messages \ {m}
    /\ UNCHANGED environment

\* apply_seen: the user opened pane p.
ApplySeen(p) ==
    /\ agents' = {IF r.pane = p /\ r.state = "done"
                  THEN [r EXCEPT !.state = "idle", !.age = 0] ELSE r : r \in agents}
    /\ retired' = Unpruned
    /\ UNCHANGED <<environment, messages>>

\* expire_states; an expired record is not retired.
Expired(r) == StateTtl # 0 /\ r.state \in ActiveStates /\ r.age > StateTtl

Unexpired == {r \in agents : ~Expired(r)}

\* process_deadlines when no scan is due, or its list-panes failed.
ProcessDeadlines ==
    /\ agents' = Unexpired
    /\ retired' = Unpruned
    /\ UNCHANGED <<environment, messages>>

\* Mutants: records outlive their panes, or go with the session they were
\* reported from.
ExitedNone == {}

ExitedBySession == {r \in Unexpired : \A p \in Panes : session[p] # r.session}

Exited == {r \in Unexpired : session[r.pane] = None}

\* process_deadlines with remove_exited_records: records follow their panes,
\* and those whose pane is gone are retired.
Scan ==
    /\ agents' = {[r EXCEPT !.session = session[r.pane]] : r \in Unexpired \ Exited}
    /\ retired' \in Retiring({KeyOf(r) : r \in Exited}, Unpruned)
    /\ UNCHANGED <<environment, messages>>

\* The daemon is started anew: restore_once rebuilds records from the mirror
\* options, of whatever age they are, and nothing is known to be retired.
Restart ==
    /\ \E age \in 0..MaxAge :
          agents' = {[tool |-> mirror[p].tool, pane |-> p,
                      generation |-> mirror[p].generation, session |-> session[p],
                      sequence |-> mirror[p].sequence, state |-> mirror[p].state,
                      age |-> age] : p \in {q \in Panes : mirror[q] # None}}
    /\ retired' = {}
    /\ UNCHANGED <<environment, messages>>

Handle == \E m \in messages : ApplyReport(m) \/ ApplyExit(m)

Environment ==
    \/ \E p \in Panes : ProcessStarts(p) \/ ProcessReports(p) \/ ProcessExits(p)
                        \/ PaneMoves(p) \/ PaneCloses(p)
    \/ \E s \in Sessions : SessionKilled(s)
    \/ \E m \in messages : MessageLost(m)

Next ==
    \/ Environment \/ Tick \/ Handle \/ Scan \/ ProcessDeadlines \/ Restart
    \/ \E p \in Panes : ApplySeen(p)

Spec == Init /\ [][Next]_vars

\* The event loop keeps handling requests and keeps scanning.
FairSpec == Spec /\ WF_vars(Handle) /\ WF_vars(Scan)

-----------------------------------------------------------------------------
(* Properties *)

Running(k) == /\ process[k.pane] # None
              /\ process[k.pane].tool = k.tool
              /\ process[k.pane].generation = k.generation

\* However reports interleave, a tool has at most one record per pane: the
\* process that took the pane over last, never it and a predecessor.
OneGenerationPerPane ==
    \A r1, r2 \in agents : r1.tool = r2.tool /\ r1.pane = r2.pane => r1 = r2

\* A generation remembered as retired has no record, so whatever reports of it
\* are still on their way cannot bring it back.
RetiredStayGone == \A r \in agents : KeyOf(r) \notin RetiredKeys(retired)

\* A generation is remembered once, and no more than MaxRetired are.
RetiredBounded ==
    /\ Cardinality(retired) <= MaxRetired
    /\ \A t1, t2 \in retired : t1.key = t2.key => t1 = t2

\* A record that stays never goes back to an earlier report of its process.
SequenceOnlyAdvances ==
    [][Restart \/
       \A r1 \in agents, r2 \in agents' :
          KeyOf(r1) = KeyOf(r2) =>
             \/ r1.sequence < r2.sequence
             \/ r1.sequence = r2.sequence /\ r2.state \in {r1.state, "idle"}]_vars

\* Records and retired generations are exchanged exactly, whichever request or scan
\* ends a record: what is retired had a record and loses it; who loses it is retired,
\* unless the TTL took it or the map is full of generations retired just now; and the
\* scan retires no process that still runs, even if its pane has moved to another
\* session since it reported.
FullOfNew == Cardinality(retired) = MaxRetired /\ \A t \in retired : t.age = 0

RecordKeys == {KeyOf(r) : r \in agents}

RetirementIsExact ==
    [][Restart \/
       /\ \A k \in RetiredKeys(retired') \ RetiredKeys(retired) :
             k \in RecordKeys \ RecordKeys' /\ (Scan => ~Running(k))
       /\ \A r \in agents :
             \/ KeyOf(r) \in RecordKeys' \cup RetiredKeys(retired')
             \/ Expired(r) \/ FullOfNew']_vars

\* A closed pane is forgotten for good: late reports may show it again, but not
\* beyond the scans that follow.
ClosedPaneForgotten ==
    \A p \in Panes :
        [](started[p] > 0 /\ session[p] = None
             => <>[](\A r \in agents : r.pane # p))

\* state_scan.rs: the closure of a session a pane has left cannot retire an
\* event generation that still runs.
RunningNotRetired == \A k \in RetiredKeys(retired) : ~Running(k)
=============================================================================
