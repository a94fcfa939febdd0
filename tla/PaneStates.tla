----------------------------- MODULE PaneStates -----------------------------
(***************************************************************************)
(* How the state daemon (daemon/src/model) derives the state it shows for  *)
(* the panes of pi, codex and claude: periodic scans that capture screens, *)
(* OSC 7501 reports relayed from the panes, the confirmation of plain idle *)
(* screens, "done until seen", the state TTL, and configuration reloads.   *)
(*                                                                         *)
(* An element of Panes is one screen key (tool and pane). The agents that  *)
(* run in the panes, the user's clients and the relays are environment;    *)
(* StateCenter is owned by one thread, so every handler is one action.     *)
(* Durations are ticks, kept as ages and countdowns rather than instants.  *)
(***************************************************************************)
EXTENDS Naturals, Sequences, FiniteSets, ScreenRules

CONSTANTS
    Panes,
    Interval,        \* screen_interval
    Recheck,         \* PENDING_IDLE_RECHECK
    FullInterval,    \* screen_full_scan_interval
    StateTtl,        \* state_ttl; 0 disables expiry
    Noise,           \* frames an agent may show that do not tell its state
    Reports,         \* the program states the relays send
    MaxRedraws,      \* consecutive plain idle captures of a working agent
    MaxFaults,       \* failed listings and captures, reloads and stray exits
    MaxOutbox        \* reports in flight from the relays of one pane

ASSUME PaneAssumption ==
    /\ IsFiniteSet(Panes)
    /\ Interval \in Nat \ {0} /\ Recheck \in Nat \ {0} /\ FullInterval \in Nat \ {0}
    /\ StateTtl \in Nat
    /\ Noise \subseteq {"idle", "skip"}
    /\ Reports \subseteq ProgramStates
    /\ MaxRedraws \in Nat /\ MaxFaults \in Nat /\ MaxOutbox \in Nat

VARIABLES
    \* The environment: what runs in the panes and who looks at them.
    agent,          \* agent[p]: "absent", or what the agent in p is doing
    visible,        \* visible[p]: some client shows p
    viewer,         \* viewer[p]: the agent shows a transcript or a picker instead of itself
    piped,          \* piped[p]: what tmux pipes p's output to, if anything
    outbox,         \* outbox[p]: reports of p's relay the daemon has not handled
    leaving,        \* leaving[p]: the last reports of a relay that lost its pipe
    faults,         \* failed tmux calls, reloads and stray exits so far
    \* StateCenter.
    agents,         \* agents[p]: the state of p's record, "none" without one
    age,            \* age[p]: ticks since changed_at, of an active state that can expire
    pending,        \* pending_idle_confirmations
    programs,       \* program_statuses
    enabled,        \* config.program_status_enabled
    screenWait,     \* ticks until screen_deadline
    fullWait,       \* ticks until full_screen_scan_deadline
    \* History: what the captures have really shown.
    streak,         \* plain idle captures of p in a row, and since when
    owed            \* owed[p]: a turn of p ended that no "done" announced yet

environment == <<agent, visible, viewer, piped, outbox, leaving, faults>>
center == <<agents, age, pending, programs, enabled, screenWait, fullWait>>
history == <<streak, owed>>
vars == <<agent, visible, viewer, piped, outbox, leaving, faults,
          agents, age, pending, programs, enabled, screenWait, fullWait,
          streak, owed>>

Doings == {"absent", "resting", "working", "asking"}
Active == {"working", "asking"}

\* A stored report. Its app names the agent the pane runs, or another program
\* running inside it ("nested").
Stored == [state : ProgramStates \ {"clear"}, own : BOOLEAN, completion : BOOLEAN]
NoReport == [state |-> "none", own |-> FALSE, completion |-> FALSE]
Message == [state : ProgramStates, own : BOOLEAN]

MaxAge == IF StateTtl = 0 THEN 0 ELSE StateTtl + 1
MaxStreak == Confirmations + 1
NoStreak == [count |-> 0, age |-> 0]

Least(m, n) == IF m < n THEN m ELSE n

TypeOK ==
    /\ agent \in [Panes -> Doings]
    /\ visible \in [Panes -> BOOLEAN] /\ viewer \in [Panes -> BOOLEAN]
    /\ piped \in [Panes -> {"none", "relay", "other"}]
    /\ outbox \in [Panes -> Seq(Message)]
    /\ leaving \in [Panes -> Seq(Message)]
    /\ faults \in 0..MaxFaults
    /\ agents \in [Panes -> AgentStates \cup {"none"}]
    /\ age \in [Panes -> 0..MaxAge]
    /\ pending \in [Panes -> Confirming]
    /\ programs \in [Panes -> Stored \cup {NoReport}]
    /\ enabled \in BOOLEAN
    /\ screenWait \in Nat /\ fullWait \in Nat
    /\ streak \in [Panes -> [count : 0..MaxStreak, age : 0..Cap]]
    /\ owed \in [Panes -> BOOLEAN]

Init ==
    /\ agent \in [Panes -> {"absent", "resting", "working"}]
    /\ visible = [p \in Panes |-> FALSE]
    /\ viewer = [p \in Panes |-> FALSE]
    /\ piped = [p \in Panes |-> "none"]
    /\ outbox = [p \in Panes |-> <<>>]
    /\ leaving = [p \in Panes |-> <<>>]
    /\ faults = 0
    /\ agents = [p \in Panes |-> "none"]
    /\ age = [p \in Panes |-> 0]
    /\ pending = [p \in Panes |-> NotHeld]
    /\ programs = [p \in Panes |-> NoReport]
    /\ enabled = (Reports # {})
    /\ screenWait = 0
    /\ fullWait = 0
    /\ streak = [p \in Panes |-> NoStreak]
    /\ owed = [p \in Panes |-> FALSE]

-----------------------------------------------------------------------------
(* The environment *)

\* n tmux calls fail, or a reload or a stray exit disturbs the scans.
Fault(n) == faults + n <= MaxFaults /\ faults' = faults + n

\* The relay of p passes a report on, or loses it: delivery faults are
\* ignored because the next report carries the whole state again.
Relayed(p, state, own) ==
    \/ UNCHANGED outbox
    \/ /\ piped[p] = "relay" /\ state \in Reports /\ Len(outbox[p]) < MaxOutbox
       /\ outbox' = [outbox EXCEPT ![p] = Append(@, [state |-> state, own |-> own])]

\* An agent starts a turn, asks and is answered, ends a turn, or exits.
TurnStarts(p) ==
    /\ agent[p] = "resting"
    /\ agent' = [agent EXCEPT ![p] = "working"]
    /\ Relayed(p, "working", TRUE)
    /\ UNCHANGED <<visible, viewer, piped, leaving, faults, center, history>>

AgentAsks(p) ==
    /\ agent[p] = "working"
    /\ agent' = [agent EXCEPT ![p] = "asking"]
    /\ Relayed(p, "blocked", TRUE)
    /\ UNCHANGED <<visible, viewer, piped, leaving, faults, center, history>>

AgentAnswered(p) ==
    /\ agent[p] = "asking"
    /\ agent' = [agent EXCEPT ![p] = "working"]
    /\ Relayed(p, "working", TRUE)
    /\ UNCHANGED <<visible, viewer, piped, leaving, faults, center, history>>

TurnEnds(p) ==
    /\ agent[p] \in Active
    /\ agent' = [agent EXCEPT ![p] = "resting"]
    /\ owed' = [owed EXCEPT ![p] = TRUE]
    /\ \E state \in {"done", "error", "idle"} : Relayed(p, state, TRUE)
    /\ UNCHANGED <<visible, viewer, piped, leaving, faults, center, streak>>

AgentExits(p) ==
    /\ agent[p] # "absent"
    /\ agent' = [agent EXCEPT ![p] = "absent"]
    /\ viewer' = [viewer EXCEPT ![p] = FALSE]
    /\ owed' = [owed EXCEPT ![p] = owed[p] \/ agent[p] \in Active]
    /\ UNCHANGED <<visible, piped, outbox, leaving, faults, center, streak>>

AgentStarts(p) ==
    /\ agent[p] = "absent"
    /\ agent' = [agent EXCEPT ![p] = "resting"]
    /\ Relayed(p, "idle", TRUE)
    /\ UNCHANGED <<visible, viewer, piped, leaving, faults, center, history>>

\* A resting agent reports again (a new session), or a program it runs does.
SpareReport(p) ==
    /\ agent[p] # "absent"
    /\ \/ agent[p] = "resting" /\ Relayed(p, "idle", TRUE)
       \/ \E state \in Reports \ {"clear"} : Relayed(p, state, FALSE)
    /\ UNCHANGED <<agent, visible, viewer, piped, leaving, faults, center, history>>

\* The relay is killed: what it had not sent is lost, and pane_pipe cleared.
RelayDies(p) ==
    /\ piped[p] = "relay"
    /\ piped' = [piped EXCEPT ![p] = "none"]
    /\ outbox' = [outbox EXCEPT ![p] = <<>>]
    /\ UNCHANGED <<agent, visible, viewer, leaving, faults, center, history>>

\* A pipe-pane command takes the relay's pipe away, with or without putting its
\* own command there. The relay reads to the end of its input, sends what that
\* held and then always withdraws its report.
RelayReplaced(p) ==
    /\ piped[p] = "relay" /\ leaving[p] = <<>>
    /\ \E other \in {"none", "other"} : piped' = [piped EXCEPT ![p] = other]
    /\ outbox' = [outbox EXCEPT ![p] = <<>>]
    /\ leaving' = [leaving EXCEPT ![p] =
          Append(outbox[p], [state |-> "clear", own |-> FALSE])]
    /\ UNCHANGED <<agent, visible, viewer, faults, center, history>>

OtherPipeEnds(p) ==
    /\ piped[p] = "other"
    /\ piped' = [piped EXCEPT ![p] = "none"]
    /\ UNCHANGED <<agent, visible, viewer, outbox, leaving, faults, center, history>>

Look(p) ==
    /\ visible' = [visible EXCEPT ![p] = ~@]
    /\ UNCHANGED <<agent, viewer, piped, outbox, leaving, faults, center, history>>

\* The agent's transcript viewer or model picker is opened or closed.
View(p) ==
    /\ agent[p] # "absent" /\ "skip" \in Noise
    /\ viewer' = [viewer EXCEPT ![p] = ~@]
    /\ UNCHANGED <<agent, visible, piped, outbox, leaving, faults, center, history>>

Tick ==
    /\ age' = [p \in Panes |->
          IF agents[p] \in ActiveStates THEN Least(age[p] + 1, MaxAge) ELSE 0]
    /\ pending' = [p \in Panes |->
          IF pending[p].held THEN [pending[p] EXCEPT !.age = Least(@ + 1, Cap)]
          ELSE pending[p]]
    /\ streak' = [p \in Panes |->
          IF streak[p].count > 0 THEN [streak[p] EXCEPT !.age = Least(@ + 1, Cap)]
          ELSE streak[p]]
    /\ screenWait' = IF screenWait = 0 THEN 0 ELSE screenWait - 1
    /\ fullWait' = IF fullWait = 0 THEN 0 ELSE fullWait - 1
    /\ UNCHANGED <<environment, agents, programs, enabled, owed>>

-----------------------------------------------------------------------------
(* Requests the daemon handles *)

\* StateCenter::apply_program_status. Any report replaces the stored one, and
\* one that is withdrawn is forgotten; both make a scan due at once.
ApplyProgramStatus(p, report) ==
    /\ IF ~enabled
       THEN UNCHANGED <<programs, screenWait>>
       ELSE /\ programs' = [programs EXCEPT ![p] =
                  IF report.state = "clear" THEN NoReport
                  ELSE [state |-> report.state, own |-> report.own,
                        completion |-> report.state \in Completions]]
            /\ screenWait' = 0
    /\ UNCHANGED <<agents, age, pending, enabled, fullWait>>

ProgramStatus(p) ==
    /\ \/ /\ outbox[p] # <<>>
          /\ ApplyProgramStatus(p, Head(outbox[p]))
          /\ outbox' = [outbox EXCEPT ![p] = Tail(@)]
          /\ UNCHANGED leaving
       \/ /\ leaving[p] # <<>>
          /\ ApplyProgramStatus(p, Head(leaving[p]))
          /\ leaving' = [leaving EXCEPT ![p] = Tail(@)]
          /\ UNCHANGED outbox
    /\ UNCHANGED <<agent, visible, viewer, piped, faults, history>>

\* StateCenter::apply_seen: the user opened p, possibly some time ago.
Seen(p) ==
    /\ agents[p] = "done"
    /\ agents' = [agents EXCEPT ![p] = "idle"]
    /\ age' = [age EXCEPT ![p] = 0]
    /\ UNCHANGED <<environment, pending, programs, enabled, screenWait, fullWait, history>>

\* StateCenter::apply_exit: the session that p's record names was killed, with
\* the agent or, if p has moved since the last scan, without it.
Exited(p) ==
    /\ agents[p] # "none"
    /\ IF agent[p] = "absent" THEN UNCHANGED faults ELSE Fault(1)
    /\ agents' = [agents EXCEPT ![p] = "none"]
    /\ age' = [age EXCEPT ![p] = 0]
    /\ UNCHANGED <<agent, visible, viewer, piped, outbox, leaving, pending, programs,
                   enabled, screenWait, fullWait, history>>

\* StateCenter::replace_config after a valid reload; records are kept.
ReloadConfig ==
    /\ Fault(1)
    /\ enabled' \in IF Reports = {} THEN {FALSE} ELSE BOOLEAN
    /\ programs' = IF enabled' THEN programs ELSE [p \in Panes |-> NoReport]
    /\ pending' = [p \in Panes |-> NotHeld]
    /\ screenWait' = 0
    /\ fullWait' = 0
    /\ UNCHANGED <<agent, visible, viewer, piped, outbox, leaving, agents, age, history>>

-----------------------------------------------------------------------------
(* StateCenter::process_deadlines *)

\* expire_states: an active state nobody renewed for longer than the TTL.
Expired(p) == /\ StateTtl # 0 /\ age[p] > StateTtl
              /\ agents[p] \in ActiveStates

Unexpired(p) == IF Expired(p) THEN "none" ELSE agents[p]

\* Mutant: confirmations that can no longer resolve are kept.
ResolvableAlways(confirming) == confirming

\* retain_resolvable_idle_confirmations
Resolvable(confirming) ==
    IF confirming.held /\ confirming.age >= Cap THEN NotHeld ELSE confirming

\* next_screen_deadline: a recheck while a confirmation is open.
NextScan(confirming) ==
    IF \E p \in Panes : confirming[p].held THEN Recheck ELSE Interval

\* insert_pane_record keeps changed_at while the state is unchanged.
RecordedAge(p, state) ==
    IF state = agents[p] /\ ~Expired(p) /\ state \in ActiveStates THEN age[p] ELSE 0

\* No scan is due; the wakeup only expires states.
ExpireStates ==
    /\ screenWait # 0
    /\ \E p \in Panes : Expired(p)
    /\ agents' = [p \in Panes |-> Unexpired(p)]
    /\ age' = [p \in Panes |-> RecordedAge(p, Unexpired(p))]
    /\ UNCHANGED <<environment, pending, programs, enabled,
                   screenWait, fullWait, history>>

\* list-panes failed: nothing is learnt, but a confirmation that can no longer
\* resolve is dropped.
ScanFails ==
    /\ screenWait = 0
    /\ Fault(1)
    /\ agents' = [p \in Panes |-> Unexpired(p)]
    /\ age' = [p \in Panes |-> RecordedAge(p, Unexpired(p))]
    /\ pending' = [p \in Panes |-> Resolvable(pending[p])]
    /\ screenWait' = NextScan(pending')
    /\ UNCHANGED <<agent, visible, viewer, piped, outbox, leaving, programs, enabled,
                   fullWait, history>>

\* resolve_screen_rows: the panes whose agent runs.
Resolved == {p \in Panes : agent[p] # "absent"}

\* prune_program_statuses: a report needs its agent and some pipe.
Kept(p) == IF p \in Resolved /\ piped[p] # "none" THEN programs[p] ELSE NoReport

\* has_program_status: these panes are not captured.
ProgramPanes == {p \in Resolved : enabled /\ Kept(p) # NoReport /\ Kept(p).own}

\* Mutants: panes without a record are left out, and there is no full scan.
AlwaysDirtyKnown ==
    {p \in Resolved \ ProgramPanes :
        Unexpired(p) # "none" /\ (pending[p].held \/ fullWait = 0)}

AlwaysDirtyPartial ==
    {p \in Resolved \ ProgramPanes : Unexpired(p) = "none" \/ pending[p].held}

\* select_dirty_panes always takes these; for others window activity decides.
AlwaysDirty ==
    {p \in Resolved \ ProgramPanes :
        Unexpired(p) = "none" \/ pending[p].held \/ fullWait = 0}

\* What a capture of p may show: its agent's doings, a frame of a redraw, or a
\* viewer, behind which only the pane's title can still tell an active agent.
Shown(p) ==
    CASE agent[p] = "resting" -> IF viewer[p] THEN {"skip"} ELSE {"idle", "visible_idle"}
      [] agent[p] = "asking"  -> {"blocked"} \cup IF viewer[p] THEN {"skip"} ELSE {}
      [] agent[p] = "working" ->
           {"working"} \cup IF viewer[p] THEN {"skip"}
                            ELSE IF streak[p].count < MaxRedraws THEN Noise \cap {"idle"}
                            ELSE {}

\* The record a pane leaves the scan with, given the frame it was captured with
\* ("none": not captured).
Recorded(p, frame) ==
    LET previous == Unexpired(p)
    IN CASE p \notin Resolved -> "none"
         [] p \in ProgramPanes ->
              ProgramDisplayState(Kept(p).state, Kept(p).completion, previous, visible[p])
         [] p \in Resolved \ ProgramPanes ->
              IF \/ frame \in {"none", "skip"}
                 \/ ShouldHold(pending[p], previous, frame)
              THEN previous
              ELSE ScreenDisplayState(previous, frame, visible[p])

\* Mutant: a released confirmation is not removed.
ConfirmedStays(p, frame) ==
    IF p \in Resolved \ ProgramPanes /\ frame # "none"
       /\ ShouldHold(pending[p], Unexpired(p), frame)
    THEN AfterHold(pending[p]) ELSE pending[p]

\* pending_idle_confirmations after the scan.
Confirmed(p, frame) ==
    CASE p \notin Resolved \/ p \in ProgramPanes -> NotHeld
      [] p \in Resolved \ ProgramPanes ->
           IF frame = "none" THEN pending[p]
           ELSE IF ShouldHold(pending[p], Unexpired(p), frame) THEN AfterHold(pending[p])
           ELSE NotHeld

\* capture_panes_batch and capture_pane: if the batch fails, each pane is
\* captured by itself, and may be gone or missed by itself.
Captures(frame) ==
    LET captured == {p \in Panes : frame[p] # "none"}
    IN /\ captured \subseteq Resolved \ ProgramPanes
       /\ \A p \in captured : frame[p] \in Shown(p)
       /\ Fault(Cardinality(AlwaysDirty \ captured))

\* attach_program_status_relays: the panes to be piped. Only those of pi are; the
\* pipe of a pane that reports nothing makes no difference.
Attachable == {p \in Resolved : enabled /\ piped[p] = "none"}

\* One chain of pipe-pane commands, which may fail as a whole: no relay binary
\* that can be run, or a pane that is gone.
PipedAfter(p, attached) == IF attached /\ p \in Attachable THEN "relay" ELSE piped[p]

\* scan_screen_agents
Scan(frame, attached) ==
    /\ screenWait = 0
    /\ Captures(frame)
    /\ agents' = [p \in Panes |-> Recorded(p, frame[p])]
    /\ age' = [p \in Panes |-> RecordedAge(p, Recorded(p, frame[p]))]
    /\ pending' = [p \in Panes |-> Resolvable(Confirmed(p, frame[p]))]
    /\ programs' = [p \in Panes |->
          IF p \in ProgramPanes THEN [Kept(p) EXCEPT !.completion = FALSE] ELSE Kept(p)]
    /\ piped' = [p \in Panes |-> PipedAfter(p, attached)]
    /\ fullWait' = IF fullWait = 0 THEN FullInterval ELSE fullWait
    /\ screenWait' = NextScan(pending')
    /\ streak' = [p \in Panes |->
          IF p \notin Resolved \/ p \in ProgramPanes THEN NoStreak
          ELSE IF frame[p] = "none" THEN streak[p]
          ELSE IF frame[p] # "idle" THEN NoStreak
          ELSE [streak[p] EXCEPT !.count = Least(@ + 1, MaxStreak)]]
    /\ owed' = [p \in Panes |->
          owed[p] /\ ~(agents[p] # "done" /\ agents'[p] = "done")]
    /\ UNCHANGED <<agent, visible, viewer, outbox, leaving, enabled>>

ScanSucceeds ==
    \E frame \in [Panes -> Frames \cup {"none"}], attached \in BOOLEAN :
        Scan(frame, attached)

ProcessDeadlines == ExpireStates \/ ScanFails \/ ScanSucceeds

EnvironmentStep(p) ==
    \/ TurnStarts(p) \/ AgentAsks(p) \/ AgentAnswered(p) \/ TurnEnds(p)
    \/ AgentExits(p) \/ AgentStarts(p) \/ SpareReport(p)
    \/ RelayDies(p) \/ RelayReplaced(p) \/ OtherPipeEnds(p)
    \/ Look(p) \/ View(p)

Next ==
    \/ \E p \in Panes : EnvironmentStep(p) \/ ProgramStatus(p) \/ Seen(p) \/ Exited(p)
    \/ Tick \/ ReloadConfig \/ ProcessDeadlines

Spec == Init /\ [][Next]_vars

\* The daemon's event loop keeps running: time passes, every deadline that is
\* due is processed, and a request that was sent is handled.
Fairness ==
    /\ WF_vars(Tick)
    /\ WF_vars(ProcessDeadlines)
    /\ \A p \in Panes : WF_vars(ProgramStatus(p))

FairSpec == Spec /\ Fairness

-----------------------------------------------------------------------------
(* Properties *)

\* A confirmation belongs to a record that says "working", unless the TTL or an
\* exit has just removed that record: no path that changes a record (reports, seen,
\* exits, reloads) leaves a confirmation behind that a later scan would count.
PendingBelongsToWorking ==
    \A p \in Panes : pending[p].held => agents[p] \in {"working", "none"}

\* While any confirmation is open the next scan is at most a recheck away.
HeldIsRechecked ==
    (\E p \in Panes : pending[p].held) => screenWait <= Recheck

\* "done" remains until the pane is seen: no scan, report or reload turns it
\* into "idle". Only a new turn or an exit takes it away otherwise.
DoneUntilSeen ==
    [][\A p \in Panes :
          agents[p] = "done" /\ agents'[p] # "done"
            => \/ Seen(p) \/ Exited(p)
               \/ agents'[p] \in ActiveStates \/ agent[p] = "absent"]_vars

\* A plain idle screen ends a "working" state only on evidence: Confirmations
\* captures after the first, all plainly idle with nothing else captured in
\* between, or two that are Cap ticks apart.
ReleaseNeedsEvidence ==
    [][\A p \in Panes :
          agents[p] = "working" /\ ~Expired(p)
          /\ agents'[p] \in {"idle", "done"} /\ streak'[p].count > 0
            => \/ streak'[p].count >= Confirmations + 1
               \/ streak'[p].count >= 2 /\ streak[p].age >= Cap]_vars

\* A finished turn is announced at most once: a record becomes "done" only if
\* a turn has ended since the last time it did, or if captures take an agent
\* that works for an idle one.
AnnouncedOnce ==
    [][\A p \in Panes :
          agents[p] # "done" /\ agents'[p] = "done"
            => owed[p] \/ (agent[p] = "working" /\ streak'[p].count > 0)]_vars

\* Without reports, the records are what PaneTurns promises the user: every turn
\* that a pane shows was one, and its end is announced, once, if nobody watched and
\* the TTL had not dropped it.
Turns == INSTANCE PaneTurns WITH
    doing <- agent, watched <- visible, shown <- agents, stale <- [p \in Panes |-> Expired(p)]

TurnsImplemented == Turns!Spec

\* README.md: a "done" or "error" report of an unwatched pane makes it "done".
\* A stored completion may be overtaken by the next turn, withdrawn with the
\* whole feature, or go with its agent or its pipe, but nothing else.
CompletionNotLost ==
    [][\A p \in Panes :
          programs[p].completion /\ programs[p].own /\ ~programs'[p].completion
            => \/ agents'[p] = "done" \/ visible[p]
               \/ programs'[p].own /\ programs'[p].state \in ActiveStates
               \/ agent[p] = "absent" \/ piped[p] = "none" \/ ~enabled']_vars

\* Once an agent rests for good its pane stops showing a turn, however often
\* captures failed before, whatever the last working screens looked like, and
\* even if they were hidden by a viewer until it was closed.
RestEventuallyShown ==
    \A p \in Panes :
        <>[](agent[p] = "resting" /\ ~viewer[p]) => <>[](agents[p] \in {"idle", "done"})

\* Once an agent works for good its pane keeps coming back to "working": expiry
\* and redraws that outlast the cap may interrupt that, but never end it.
WorkEventuallyShown ==
    \A p \in Panes :
        <>[](agent[p] = "working" /\ ~viewer[p]) => []<>(agents[p] = "working")

\* A resting agent whose pane has no report left (withdrawn, or dropped with
\* its relay) does not keep showing the turn the last report spoke of.
FallbackEventuallyShown ==
    \A p \in Panes :
        <>[](agent[p] = "resting" /\ programs[p] = NoReport)
            => <>[](agents[p] \in {"idle", "done"})

\* No scan leaves a confirmation open that began Cap ticks ago, even if it
\* could not list the panes or could not capture this one.
ConfirmationsEnd ==
    [][\A p \in Panes :
          screenWait = 0 /\ screenWait' > 0 /\ pending'[p].held
            => pending[p].age < Cap]_vars
=============================================================================
