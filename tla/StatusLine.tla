------------------------------ MODULE StatusLine ------------------------------
(***************************************************************************)
(* From the screens of agents to the status line (daemon/src/model/        *)
(* state_scan.rs, state_output.rs, screen_io.rs): which panes a scan       *)
(* captures, judged by tmux's activity timestamps, which have one second   *)
(* and one window as their grain; the summary of the records with its      *)
(* animated icon; and the tmux option that holds it, which the daemon      *)
(* writes only when it believes that the option holds something else.      *)
(*                                                                         *)
(* A tick is a fraction of a second. Screens show their state plainly and  *)
(* nobody watches a pane: redraws are the subject of PaneStates.           *)
(***************************************************************************)
EXTENDS Naturals, Sequences, FiniteSets

CONSTANTS
    Listed,          \* the panes in the order of list-panes
    Windows,         \* WindowOf: Panes -> Windows
    WindowOf,
    Screens,         \* detected frames in use, other than "idle" and "skip"
    Options,         \* values of the tmux options in use
    MaxFrames,       \* MAX_FRAMES
    MinInterval,     \* the smallest animation and screen interval allowed
    TicksPerSecond,
    None,
    MaxAge,          \* bound of the seconds counted since an activity
    MaxEvents        \* bound of redraws, reloads and events in a behaviour

Panes == {Listed[i] : i \in DOMAIN Listed}

Rules == INSTANCE ScreenRules WITH Cap <- 1, Confirmations <- 1

\* Config::from_values: options that are refused as a whole.
Valid(option) ==
    /\ option.frames \in 1..MaxFrames
    /\ option.animation >= MinInterval /\ option.interval >= MinInterval
    /\ option.full >= option.interval

Configs == {option \in Options : Valid(option)}

ASSUME StatusAssumption ==
    /\ Listed \in Seq(Panes) /\ WindowOf \in [Panes -> Windows]
    /\ {"none", "listing", "summary", "answer"} \cap Panes = {}
    /\ Screens \subseteq Rules!Frames \ {"idle", "skip"}
    /\ Options \subseteq [status : BOOLEAN, animate : BOOLEAN, idles : BOOLEAN, frames : Nat,
                          animation : Nat, interval : Nat, full : Nat]
    /\ MinInterval \in Nat \ {0} /\ TicksPerSecond \in Nat \ {0}
    /\ MaxEvents \in Nat
    /\ None \notin Nat

VARIABLES
    \* tmux and the agents.
    screen,          \* screen[p]: what the agent of p shows, "gone" without one
    age,             \* age[w]: seconds since the second of window_activity
    phase,           \* ticks of the current second
    option, cache,   \* the options, and @agent_status_cache
    reloading,       \* a reload by the plugin is on its way to the daemon
    events,          \* redraws, reloads and faults so far
    \* The daemon.
    running, woken,  \* woken: it has handled a request, and will reconcile
    config, records,
    noted,           \* noted[w]: last_window_activity holds the current second
    screenWait, fullWait,
    frame, animation, \* frame_index, animation_deadline
    published,       \* published_summary
    \* History.
    recent,          \* panes drawn since the last scan
    orderly,         \* since the last scan no turn was late and no listing failed
    overwritten      \* the cache was written since and the daemon does not know: by
                     \* somebody else, or by a call of its own that it takes for failed

world == <<screen, age, phase>>
tmux == <<option, cache, reloading>>
scanned == <<records, noted, fullWait, recent, orderly>>
line == <<frame, animation, published, cache, overwritten>>
vars == <<screen, age, phase, option, cache, reloading, events, running, woken,
          config, records, noted, screenWait, fullWait, frame, animation, published,
          recent, orderly, overwritten>>

States == {"none"} \cup Rules!AgentStates
Empty == <<>>

\* Mutant: the grace is the interval, without the second in which it began.
ShortGrace(c) == c.interval \div TicksPerSecond

\* select_dirty_panes: the grace, in whole seconds.
Grace(c) == (c.interval + TicksPerSecond) \div TicksPerSecond

ASSUME AgeAssumption == MaxAge \in Nat /\ \A c \in Configs : Grace(c) < MaxAge

\* A summary: how many records are in each state shown, and the icon of those
\* that work, the index of an animation frame or None. No segment, no text.
Summary(c, recs, f) ==
    LET count == [s \in Rules!AgentStates |-> Cardinality({p \in Panes : recs[p] = s})]
        shown == {s \in Rules!AgentStates : count[s] > 0 /\ (s = "idle" => c.idles)}
    IN IF ~c.status \/ shown = {} THEN Empty
       ELSE <<[s \in shown |-> count[s]],
              IF c.animate /\ "working" \in shown THEN f ELSE None>>

Rendered == Summary(config, records, frame)

TypeOK ==
    /\ screen \in [Panes -> Screens \cup {"gone"}]
    /\ age \in [Windows -> 0..MaxAge] /\ phase \in 0..(TicksPerSecond - 1)
    /\ option \in Options /\ reloading \in BOOLEAN
    /\ events \in 0..MaxEvents
    /\ running \in BOOLEAN /\ woken \in BOOLEAN
    /\ config \in Configs
    /\ records \in [Panes -> States]
    /\ noted \in [Windows -> BOOLEAN]
    /\ screenWait \in 0..config.interval /\ fullWait \in 0..config.full
    /\ frame \in 0..(config.frames - 1)
    /\ animation \in 0..config.animation \cup {None}
    /\ recent \subseteq Panes /\ orderly \in BOOLEAN /\ overwritten \in BOOLEAN

\* The plugin is loaded while agents run.
Init ==
    /\ screen \in [Panes -> Screens]
    /\ age = [w \in Windows |-> MaxAge] /\ phase = 0
    /\ option \in Configs /\ cache = Empty /\ reloading = FALSE
    /\ events = 0
    /\ running = TRUE /\ woken = TRUE
    /\ config = option
    /\ records = [p \in Panes |-> "none"]
    /\ noted = [w \in Windows |-> FALSE]
    /\ screenWait = 0 /\ fullWait = 0
    /\ frame = 0 /\ animation = None /\ published = None
    /\ recent = {} /\ orderly = TRUE /\ overwritten = TRUE

Event == events < MaxEvents /\ events' = events + 1

-----------------------------------------------------------------------------
(* tmux, agents and the plugin *)

\* An agent draws, starts or exits; tmux stamps the window with the second.
Draw(p) ==
    /\ Event
    /\ \E s \in (Screens \cup {"gone"}) \ {screen[p]} : screen' = [screen EXCEPT ![p] = s]
    /\ age' = [age EXCEPT ![WindowOf[p]] = 0]
    /\ noted' = [noted EXCEPT ![WindowOf[p]] = @ /\ age[WindowOf[p]] = 0]
    /\ recent' = recent \cup {p}
    /\ UNCHANGED <<phase, tmux, running, woken, config, records, screenWait, fullWait,
                   frame, animation, published, orderly, overwritten>>

\* The deadlines that next_wait waits for, and a request to be reconciled.
Due == running /\ (woken \/ screenWait = 0 \/ animation = 0)

Sooner(wait) == IF wait \in Nat \ {0} THEN wait - 1 ELSE wait

\* Time passes. A turn that is due may be late when tmux or a batch is slow.
Tick ==
    /\ IF Due THEN Event /\ orderly' = FALSE ELSE UNCHANGED <<events, orderly>>
    /\ phase' = (phase + 1) % TicksPerSecond
    /\ age' = [w \in Windows |-> IF phase' = 0 /\ age[w] < MaxAge THEN age[w] + 1 ELSE age[w]]
    /\ IF running
       THEN /\ screenWait' = Sooner(screenWait) /\ fullWait' = Sooner(fullWait)
            /\ animation' = Sooner(animation)
       ELSE UNCHANGED <<screenWait, fullWait, animation>>
    /\ UNCHANGED <<screen, tmux, running, woken, config, records, noted, frame,
                   published, recent, overwritten>>

\* The user changes options and the plugin is loaded again: it clears the cache
\* of a status line that is switched off, and asks the daemon to reload.
LoadPlugin ==
    /\ Event
    /\ \E o \in Options \ {option} : option' = o
    /\ IF option'.status THEN UNCHANGED <<cache, overwritten>>
       ELSE cache' = Empty /\ overwritten' = TRUE
    /\ reloading' = TRUE
    /\ UNCHANGED <<world, running, woken, config, scanned, screenWait, frame, animation,
                   published>>

\* A daemon of the server before, which has not yet seen that its server is
\* gone, writes its summary: publish does not ask who runs on the socket.
OldDaemonPublishes ==
    /\ Event
    /\ \E recs \in [Panes -> {"none", "working"}] : cache' = Summary(config, recs, 0)
    /\ cache' # cache
    /\ overwritten' = TRUE
    /\ UNCHANGED <<world, option, reloading, running, woken, config, scanned,
                   screenWait, frame, animation, published>>

-----------------------------------------------------------------------------
(* The daemon *)

\* StateCenter::new, with the options as they are then.
NewDaemon ==
    /\ config' = option
    /\ records' = [p \in Panes |-> "none"]
    /\ noted' = [w \in Windows |-> FALSE]
    /\ screenWait' = 0 /\ fullWait' = 0
    /\ frame' = 0 /\ animation' = None /\ published' = None

\* It crashes, is shut down, or its server check fails. The cache stays.
Stops ==
    /\ running /\ Event
    /\ running' = FALSE /\ woken' = FALSE
    /\ UNCHANGED <<world, tmux, config, scanned, screenWait, frame, animation, published,
                   overwritten>>

Starts ==
    /\ ~running /\ Valid(option)
    /\ running' = TRUE /\ woken' = TRUE
    /\ NewDaemon
    /\ orderly' = TRUE /\ overwritten' = TRUE
    /\ UNCHANGED <<world, tmux, events, recent>>

\* Mutant: the frame index outlives the frames.
ReplaceConfigKeepingFrame ==
    /\ config' = option /\ animation' = None
    /\ screenWait' = 0 /\ fullWait' = 0 /\ noted' = [w \in Windows |-> FALSE]
    /\ UNCHANGED frame

ReplaceConfig ==
    /\ config' = option /\ frame' = 0 /\ animation' = None
    /\ screenWait' = 0 /\ fullWait' = 0 /\ noted' = [w \in Windows |-> FALSE]

\* reload_config: refused options leave everything as it was.
ReloadConfig ==
    /\ reloading /\ running
    /\ reloading' = FALSE /\ woken' = TRUE
    /\ IF Valid(option) THEN ReplaceConfig
       ELSE UNCHANGED <<config, frame, animation, screenWait, fullWait, noted>>
    /\ UNCHANGED <<world, option, cache, events, running, records, published,
                   recent, orderly, overwritten>>

\* apply_seen: the user opens the pane.
Seen(p) ==
    /\ running /\ records[p] = "done"
    /\ records' = [records EXCEPT ![p] = "idle"]
    /\ woken' = TRUE
    /\ UNCHANGED <<world, tmux, events, running, config, noted, screenWait, fullWait, frame,
                   animation, published, recent, orderly, overwritten>>

Resolved == {p \in Panes : screen[p] # "gone"}

\* Is the activity of p's window known when the loop over the rows comes to p?
\* The loop notes it at the first pane of the window that has an agent.
NotedAt(p) ==
    \/ noted[WindowOf[p]]
    \/ \E i, j \in DOMAIN Listed :
          /\ i < j /\ Listed[j] = p
          /\ Listed[i] \in Resolved /\ WindowOf[Listed[i]] = WindowOf[p]

\* Mutant: there is no full scan.
DirtyByActivity ==
    {p \in Resolved : records[p] = "none" \/ ~NotedAt(p) \/ age[WindowOf[p]] <= Grace(config)}

\* should_capture_screen
Dirty ==
    {p \in Resolved :
        \/ records[p] = "none" \/ fullWait = 0
        \/ ~NotedAt(p)
        \/ age[WindowOf[p]] <= Grace(config)}

\* A pane captured shows its state, and one that has lost its agent is dropped.
Recorded(captured) ==
    [p \in Panes |->
        IF p \notin Resolved THEN "none"
        ELSE IF p \in captured THEN Rules!ScreenDisplayState(records[p], screen[p], FALSE)
        ELSE records[p]]

\* What tmux may refuse in a turn: the listing, the capture of one pane (the
\* batch then fails, and the panes are captured one by one), the new summary. The
\* summary may also be set by a call that fails afterwards, whose answer is lost.
Troubles == {"none", "listing", "summary", "answer"} \cup Panes

\* process_deadlines: scan_screen_agents. The activity of a window is noted
\* whether or not the capture succeeds.
Scan(trouble) ==
    IF screenWait # 0 THEN UNCHANGED <<scanned, screenWait>>
    ELSE /\ screenWait' = config.interval
         /\ IF trouble = "listing" THEN orderly' = FALSE /\ UNCHANGED <<records, noted, fullWait, recent>>
            ELSE /\ records' = Recorded(Dirty \ {trouble})
                 /\ noted' = [w \in Windows |-> \E p \in Resolved : WindowOf[p] = w]
                 /\ fullWait' = IF fullWait = 0 THEN config.full ELSE fullWait
                 /\ recent' = {} /\ orderly' = TRUE

\* process_deadlines advances the frame; reconcile starts or stops the animation.
Animate ==
    LET due == animation = 0
    IN IF config.status /\ config.animate /\ \E p \in Panes : records'[p] = "working"
       THEN /\ animation' = IF due \/ animation = None THEN config.animation ELSE animation
            /\ frame' = IF due THEN (frame + 1) % config.frames ELSE frame
       ELSE animation' = None /\ frame' = 0

\* Mutant: a summary is remembered whether or not tmux took it.
PublishOptimistic(summary, trouble) ==
    IF published = summary THEN UNCHANGED <<published, cache, overwritten>>
    ELSE /\ published' = summary /\ overwritten' = FALSE
         /\ cache' = IF trouble = "summary" THEN cache ELSE summary

\* publish, as reconcile uses it: what tmux confirmed is remembered, and is not
\* written again until the summary differs.
Publish(summary, trouble) ==
    IF published = summary \/ trouble = "summary" THEN UNCHANGED <<published, cache, overwritten>>
    ELSE /\ cache' = summary
         /\ published' = IF trouble = "answer" THEN published ELSE summary
         /\ overwritten' = (trouble = "answer")

\* reconcile_center, when a deadline is due or a request was handled.
Turn ==
    /\ Due /\ woken' = FALSE
    /\ \E trouble \in Troubles :
          /\ IF trouble = "none" THEN UNCHANGED events ELSE Event
          /\ Scan(trouble)
          /\ Animate
          /\ Publish(Summary(config, records', frame'), trouble)
    /\ UNCHANGED <<world, option, reloading, running, config>>

Next ==
    \/ \E p \in Panes : Draw(p) \/ Seen(p)
    \/ Tick \/ LoadPlugin \/ OldDaemonPublishes
    \/ Stops \/ Starts \/ ReloadConfig \/ Turn

Spec == Init /\ [][Next]_vars

\* Time passes, the loop runs, ensure starts a daemon, a reload sent arrives.
FairSpec == Spec /\ WF_vars(Tick) /\ WF_vars(Turn) /\ WF_vars(Starts) /\ WF_vars(ReloadConfig)

-----------------------------------------------------------------------------
(* Properties *)

\* What the daemon believes of the cache is so, as long as it alone writes it and
\* learns what becomes of its calls: no summary is remembered that tmux refused
\* (publish, reconcile).
PublishedIsShown ==
    running /\ ~overwritten => cache = published

\* A scan that is on time misses no redraw, though an activity is compared by
\* the second and by the window: each pane drawn since the scan before is
\* captured, and its record says what is on it (select_dirty_panes).
Shows(recs, p) ==
    CASE screen[p] = "gone" -> recs[p] = "none"
      [] screen[p] = "visible_idle" -> recs[p] \in {"idle", "done"}
      [] OTHER -> recs[p] = screen[p]

CapturedNextScan ==
    [][ screenWait = 0 /\ screenWait' > 0 /\ orderly /\ orderly' /\ events' = events
        => \A p \in recent : Shows(records', p) ]_vars

\* When options, screens and tmux come to rest, whatever was late, missed or
\* refused before is made good: the status line shows what a fresh look at
\* every pane would, with the options last accepted. The exception is a cache that
\* was written without the daemon's knowledge, and that the daemon leaves because
\* what it renders is what it remembers (see PublishedIsShown).
LineConverges ==
    <>[](running /\ ~overwritten) =>
        <>[](/\ \A p \in Panes : Shows(records, p)
             /\ Valid(option) => config = option
             /\ cache = Rendered)
=============================================================================
