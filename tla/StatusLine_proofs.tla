-------------------------- MODULE StatusLine_proofs --------------------------
(***************************************************************************)
(* Proofs about StatusLine, for any panes, windows, options and clock.     *)
(* Types: the frame shown stays one of the frames configured although a    *)
(* reload may leave fewer of them. The cache: what the daemon remembers is *)
(* what tmux holds, whatever tmux refused, until somebody else writes it.  *)
(***************************************************************************)
EXTENDS StatusLine, TLAPS

WorldType ==
    /\ screen \in [Panes -> Screens \cup {"gone"}]
    /\ age \in [Windows -> 0..MaxAge] /\ phase \in 0..(TicksPerSecond - 1)
    /\ option \in Options /\ reloading \in BOOLEAN
    /\ events \in 0..MaxEvents

DaemonType ==
    /\ running \in BOOLEAN /\ woken \in BOOLEAN
    /\ records \in [Panes -> States]
    /\ recent \subseteq Panes /\ orderly \in BOOLEAN /\ overwritten \in BOOLEAN

DeadlineType ==
    /\ config \in Configs
    /\ noted \in [Windows -> BOOLEAN]
    /\ screenWait \in 0..config.interval /\ fullWait \in 0..config.full

FrameType ==
    /\ frame \in 0..(config.frames - 1)
    /\ animation \in 0..config.animation \cup {None}

TypeInv == WorldType /\ DaemonType /\ DeadlineType /\ FrameType

LEMMA TypeInvTypeOK == TypeInv => TypeOK
BY DEF TypeOK, TypeInv, WorldType, DaemonType, DeadlineType, FrameType

\* Options that are accepted have frames and intervals.
LEMMA ConfigsType ==
    ASSUME NEW c \in Configs
    PROVE  /\ c \in Options
           /\ c.frames \in Nat \ {0} /\ c.animation \in Nat \ {0}
           /\ c.interval \in Nat \ {0} /\ c.full \in Nat \ {0}
BY StatusAssumption DEF Configs, Valid

LEMMA InitType == Init => TypeInv
<1> SUFFICES ASSUME Init PROVE TypeInv
    OBVIOUS
<1>1. WorldType
  <2>1. screen \in [Panes -> Screens \cup {"gone"}]
      BY DEF Init
  <2>2. age \in [Windows -> 0..MaxAge]
      BY AgeAssumption DEF Init
  <2>3. phase \in 0..(TicksPerSecond - 1) /\ events \in 0..MaxEvents
      BY StatusAssumption DEF Init
  <2>4. option \in Options /\ reloading \in BOOLEAN
      BY DEF Init, Configs
  <2> QED BY <2>1, <2>2, <2>3, <2>4 DEF WorldType
<1>2. DaemonType BY DEF Init, DaemonType, States
<1>3. DeadlineType /\ FrameType BY ConfigsType DEF Init, DeadlineType, FrameType
<1> QED BY <1>1, <1>2, <1>3 DEF TypeInv

LEMMA EventType ==
    ASSUME events \in 0..MaxEvents, Event \/ UNCHANGED events
    PROVE  events' \in 0..MaxEvents
BY StatusAssumption DEF Event

\* A wait that time shortens.
LEMMA SoonerType ==
    ASSUME NEW n \in Nat, NEW wait \in 0..n \cup {None}
    PROVE  /\ Sooner(wait) \in 0..n \cup {None}
           /\ wait # None => Sooner(wait) \in 0..n
BY StatusAssumption DEF Sooner

LEMMA TickType ==
    ASSUME TypeInv, Tick
    PROVE  TypeInv'
<1> USE DEF Tick
<1>0. WorldType /\ DaemonType /\ DeadlineType /\ FrameType
    BY DEF TypeInv
<1>1. WorldType'
  <2>1. events' \in 0..MaxEvents
      BY <1>0, EventType DEF WorldType
  <2>2. phase' \in 0..(TicksPerSecond - 1)
      BY <1>0, StatusAssumption DEF WorldType
  <2>3. age' \in [Windows -> 0..MaxAge]
      BY <1>0, AgeAssumption DEF WorldType
  <2> QED BY <1>0, <2>1, <2>2, <2>3 DEF WorldType, tmux
<1>2. DaemonType'
    BY <1>0 DEF DaemonType
<1>3. config.interval \in Nat /\ config.full \in Nat /\ config.animation \in Nat
    BY <1>0, ConfigsType DEF DeadlineType
<1>4. /\ Sooner(screenWait) \in 0..config.interval
      /\ Sooner(fullWait) \in 0..config.full
  <2>1. screenWait \in 0..config.interval /\ fullWait \in 0..config.full
      BY <1>0 DEF DeadlineType
  <2>2. screenWait # None /\ fullWait # None
      BY <1>3, <2>1, StatusAssumption
  <2>3. Sooner(screenWait) \in 0..config.interval
      BY <1>3, <2>1, <2>2, SoonerType
  <2>4. Sooner(fullWait) \in 0..config.full
      BY <1>3, <2>1, <2>2, SoonerType
  <2> QED BY <2>3, <2>4
<1>5. Sooner(animation) \in 0..config.animation \cup {None}
    BY <1>0, <1>3, SoonerType DEF FrameType
<1>6. DeadlineType' BY <1>0, <1>4 DEF DeadlineType
<1>7. FrameType' BY <1>0, <1>5 DEF FrameType
<1> QED BY <1>1, <1>2, <1>6, <1>7 DEF TypeInv

LEMMA OutsideType ==
    ASSUME TypeInv, (\E p \in Panes : Draw(p)) \/ LoadPlugin \/ OldDaemonPublishes
    PROVE  TypeInv'
<1>0. WorldType /\ DaemonType /\ DeadlineType /\ FrameType
    BY DEF TypeInv
<1>1. ASSUME NEW p \in Panes, Draw(p) PROVE TypeInv'
  <2>1. events' \in 0..MaxEvents
      BY <1>0, <1>1, EventType DEF Draw, WorldType
  <2>2. WorldType'
    <3>1. PICK s \in Screens \cup {"gone"} : screen' = [screen EXCEPT ![p] = s]
        BY <1>1 DEF Draw
    <3>2. screen' \in [Panes -> Screens \cup {"gone"}]
        BY <1>0, <3>1 DEF WorldType
    <3>3. age' = [age EXCEPT ![WindowOf[p]] = 0] /\ 0 \in 0..MaxAge
        BY <1>1, AgeAssumption DEF Draw
    <3>4. age' \in [Windows -> 0..MaxAge]
        BY <1>0, <3>3 DEF WorldType
    <3> QED BY <1>0, <1>1, <2>1, <3>2, <3>4 DEF Draw, WorldType, tmux
  <2>3. DaemonType' BY <1>0, <1>1 DEF Draw, DaemonType
  <2>4. noted' \in [Windows -> BOOLEAN]
      BY <1>0, <1>1 DEF Draw, DeadlineType
  <2>5. DeadlineType' /\ FrameType'
      BY <1>0, <1>1, <2>4 DEF Draw, DeadlineType, FrameType
  <2> QED BY <2>2, <2>3, <2>5 DEF TypeInv
<1>2. ASSUME Event, option' \in Options, reloading' \in BOOLEAN, overwritten' \in BOOLEAN,
             UNCHANGED <<world, running, woken, config, scanned, screenWait, frame, animation>>
      PROVE  TypeInv'
  <2>1. events' \in 0..MaxEvents BY <1>0, <1>2, EventType DEF WorldType
  <2> QED BY <1>0, <1>2, <2>1 DEF TypeInv, WorldType, DaemonType, DeadlineType, FrameType, world, scanned
<1>3. CASE LoadPlugin
    BY <1>0, <1>2, <1>3 DEF LoadPlugin, DaemonType
<1>4. CASE OldDaemonPublishes
    BY <1>0, <1>2, <1>4 DEF OldDaemonPublishes, WorldType
<1> QED BY <1>1, <1>3, <1>4

LEMMA ProcessType ==
    ASSUME TypeInv, Stops \/ Starts \/ ReloadConfig \/ \E p \in Panes : Seen(p)
    PROVE  TypeInv'
<1>0. WorldType /\ DaemonType /\ DeadlineType /\ FrameType
    BY DEF TypeInv
<1>1. CASE Stops
  <2>1. events' \in 0..MaxEvents BY <1>0, <1>1, EventType DEF Stops, WorldType
  <2> QED BY <1>0, <1>1, <2>1 DEF TypeInv, Stops, WorldType, DaemonType, DeadlineType, FrameType, world, tmux, scanned
<1>2. Valid(option) => option \in Configs
    BY <1>0 DEF WorldType, Configs
<1>3. CASE Starts
  <2>1. WorldType' BY <1>0, <1>3 DEF Starts, WorldType, world, tmux
  <2>2. DaemonType' BY <1>0, <1>3 DEF Starts, NewDaemon, DaemonType, States
  <2>3. DeadlineType' /\ FrameType'
      BY <1>2, <1>3, ConfigsType DEF Starts, NewDaemon, DeadlineType, FrameType
  <2> QED BY <2>1, <2>2, <2>3 DEF TypeInv
<1>4. CASE ReloadConfig
  <2>1. WorldType' BY <1>0, <1>4 DEF ReloadConfig, WorldType, world
  <2>2. DaemonType' BY <1>0, <1>4 DEF ReloadConfig, DaemonType
  <2>3. ASSUME Valid(option) PROVE DeadlineType' /\ FrameType'
    <3>1. ReplaceConfig /\ UNCHANGED option
        BY <1>4, <2>3 DEF ReloadConfig
    <3>2. config' \in Configs
        BY <1>2, <2>3, <3>1 DEF ReplaceConfig
    <3>3. /\ config'.frames \in Nat \ {0} /\ config'.animation \in Nat
          /\ config'.interval \in Nat /\ config'.full \in Nat
        BY <3>2, ConfigsType
    <3> QED BY <3>1, <3>2, <3>3 DEF ReplaceConfig, DeadlineType, FrameType
  <2>4. ASSUME ~Valid(option) PROVE DeadlineType' /\ FrameType'
      BY <1>0, <1>4, <2>4 DEF ReloadConfig, DeadlineType, FrameType
  <2>5. DeadlineType' /\ FrameType' BY <2>3, <2>4
  <2> QED BY <2>1, <2>2, <2>5 DEF TypeInv
<1>5. ASSUME NEW p \in Panes, Seen(p) PROVE TypeInv'
  <2>1. records' \in [Panes -> States]
      BY <1>0, <1>5 DEF Seen, DaemonType, States, Rules!AgentStates
  <2> QED BY <1>0, <1>5, <2>1 DEF TypeInv, Seen, WorldType, DaemonType, DeadlineType, FrameType, world, tmux
<1> QED BY <1>1, <1>3, <1>4, <1>5

\* What a scan records of a screen is the state of an agent.
LEMMA RecordedType ==
    ASSUME WorldType, DaemonType, NEW captured
    PROVE  Recorded(captured) \in [Panes -> States]
<1>1. ASSUME NEW p \in Resolved
      PROVE  Rules!ScreenDisplayState(records[p], screen[p], FALSE) \in States
  <2>1. screen[p] \in Rules!Frames \ {"skip"}
      BY <1>1, StatusAssumption DEF Resolved, WorldType
  <2>2. Rules!DetectedState(screen[p]) \in Rules!AgentStates
      BY <2>1 DEF Rules!Frames, Rules!DetectedState, Rules!AgentStates
  <2> QED BY <2>2 DEF Rules!ScreenDisplayState, Rules!AgentStates, States
<1>2. \A p \in Panes : records[p] \in States /\ "none" \in States
    BY DEF DaemonType, States
<1> HIDE DEF Resolved
<1> QED BY <1>1, <1>2 DEF Recorded

LEMMA TurnType ==
    ASSUME TypeInv, Turn
    PROVE  TypeInv'
<1>0. WorldType /\ DaemonType /\ DeadlineType /\ FrameType
    BY DEF TypeInv
<1>1. PICK trouble \in Troubles :
          /\ IF trouble = "none" THEN UNCHANGED events ELSE Event
          /\ Scan(trouble) /\ Animate
          /\ Publish(Summary(config, records', frame'), trouble)
    BY DEF Turn
<1>2. WorldType'
  <2>1. events' \in 0..MaxEvents BY <1>0, <1>1, EventType DEF WorldType
  <2> QED BY <1>0, <2>1 DEF Turn, WorldType, world
<1>3. config \in Configs /\ UNCHANGED config
    BY <1>0 DEF Turn, DeadlineType
<1>4. /\ config.frames \in Nat \ {0} /\ config.animation \in Nat
      /\ config.interval \in Nat /\ config.full \in Nat
    BY <1>3, ConfigsType
<1>5. /\ records' \in [Panes -> States] /\ recent' \subseteq Panes /\ orderly' \in BOOLEAN
      /\ noted' \in [Windows -> BOOLEAN]
      /\ screenWait' \in 0..config.interval /\ fullWait' \in 0..config.full
  <2>1. CASE screenWait # 0
      BY <1>0, <1>1, <2>1 DEF Scan, DaemonType, DeadlineType, scanned
  <2>2. CASE screenWait = 0 /\ trouble = "listing"
    <3>1. /\ screenWait' = config.interval /\ orderly' = FALSE
          /\ UNCHANGED <<records, noted, fullWait, recent>>
        BY <1>1, <2>2 DEF Scan
    <3>2. screenWait' \in 0..config.interval BY <1>4, <3>1
    <3>3. orderly' \in BOOLEAN BY <3>1
    <3> QED BY <1>0, <3>1, <3>2, <3>3 DEF DaemonType, DeadlineType
  <2>3. CASE screenWait = 0 /\ trouble # "listing"
    <3>1. records' \in [Panes -> States]
        BY <1>0, <1>1, <2>3, RecordedType DEF Scan
    <3>2. noted' \in [Windows -> BOOLEAN] /\ recent' = {} /\ orderly' = TRUE
        BY <1>1, <2>3 DEF Scan
    <3>3. screenWait' = config.interval /\ fullWait' \in {config.full, fullWait}
        BY <1>1, <2>3 DEF Scan
    <3> QED BY <1>0, <1>4, <3>1, <3>2, <3>3 DEF DeadlineType
  <2> QED BY <2>1, <2>2, <2>3
<1>6. DaemonType'
  <2>1. overwritten' \in BOOLEAN BY <1>0, <1>1 DEF Publish, DaemonType
  <2> QED BY <1>0, <1>5, <2>1 DEF Turn, DaemonType
<1>7. DeadlineType' BY <1>3, <1>5 DEF DeadlineType
<1>8. FrameType'
  <2>1. (frame + 1) % config.frames \in 0..(config.frames - 1)
      BY <1>0, <1>4 DEF FrameType
  <2> QED BY <1>0, <1>1, <1>3, <1>4, <2>1 DEF Animate, FrameType
<1> QED BY <1>2, <1>6, <1>7, <1>8 DEF TypeInv

LEMMA NextType == TypeInv /\ [Next]_vars => TypeInv'
<1> SUFFICES ASSUME TypeInv, [Next]_vars PROVE TypeInv'
    OBVIOUS
<1>1. CASE UNCHANGED vars BY <1>1 DEF vars, TypeInv, WorldType, DaemonType, DeadlineType, FrameType
<1> QED BY <1>1, TickType, OutsideType, ProcessType, TurnType DEF Next

\* However options change and whichever are refused, the animation frame is one
\* of those configured, and waits stay within their intervals (replace_config,
\* reconcile).
THEOREM TypeCorrect == Spec => []TypeOK
BY InitType, NextType, TypeInvTypeOK, PTL DEF Spec

-----------------------------------------------------------------------------

LEMMA PublishShown ==
    ASSUME PublishedIsShown, running, NEW summary, NEW trouble, Publish(summary, trouble)
    PROVE  ~overwritten' => cache' = published'
<1>1. CASE UNCHANGED <<published, cache, overwritten>>
    BY <1>1 DEF PublishedIsShown
<1>2. CASE /\ cache' = summary
           /\ published' = IF trouble = "answer" THEN published ELSE summary
           /\ overwritten' = (trouble = "answer")
    BY <1>2
<1> QED BY <1>1, <1>2 DEF Publish

LEMMA NextShown == PublishedIsShown /\ [Next]_vars => PublishedIsShown'
<1> SUFFICES ASSUME PublishedIsShown, [Next]_vars PROVE PublishedIsShown'
    OBVIOUS
<1> USE DEF PublishedIsShown
<1>1. CASE Turn
    BY <1>1, PublishShown DEF Turn, Due
<1>2. CASE LoadPlugin BY <1>2 DEF LoadPlugin
<1>3. CASE OldDaemonPublishes BY <1>3 DEF OldDaemonPublishes
<1>4. CASE Stops BY <1>4 DEF Stops
<1>5. CASE Starts BY <1>5 DEF Starts
<1>6. CASE Tick \/ ReloadConfig \/ \E p \in Panes : Draw(p) \/ Seen(p)
    BY <1>6 DEF Tick, ReloadConfig, Draw, Seen, tmux
<1>7. CASE UNCHANGED vars BY <1>7 DEF vars
<1> QED BY <1>1, <1>2, <1>3, <1>4, <1>5, <1>6, <1>7 DEF Next

\* What tmux refused is never remembered as published: until the option is written
\* without the daemon's knowledge, it holds what the daemon believes (publish,
\* reconcile).
THEOREM RememberedIsShown == Spec => []PublishedIsShown
<1>1. Init => PublishedIsShown BY DEF Init, PublishedIsShown
<1> QED BY <1>1, NextShown, PTL DEF Spec

-----------------------------------------------------------------------------
(* What a scan captures. The ages of windows are whole seconds, so the time   *)
(* since a redraw is bounded together with the phase of the current second.   *)

\* A pane drawn since the last scan, which began a wait of c.interval ticks of
\* which `wait` are left, was drawn no more ticks ago than have passed of it.
DrawnWithin(p, c, wait) ==
    age[WindowOf[p]] * TicksPerSecond + phase + wait <= c.interval + (TicksPerSecond - 1)

\* The inductive invariant. The bound on the age holds from one scan to the next
\* unless turns are late; where the daemon is new or its options have changed,
\* a full scan is due, which asks for no age.
GraceInv ==
    running /\ orderly /\ fullWait # 0 => \A p \in recent : DrawnWithin(p, config, screenWait)

\* A tick adds at most a tick to the time that an age and the phase stand for.
LEMMA SecondsPass ==
    ASSUME NEW a \in Nat, NEW ph \in 0..(TicksPerSecond - 1),
           NEW next, next = (ph + 1) % TicksPerSecond,
           NEW b \in Nat, b = a \/ (b = a + 1 /\ next = 0)
    PROVE  b * TicksPerSecond + next <= a * TicksPerSecond + ph + 1
<1>1. TicksPerSecond \in Nat \ {0}
    BY StatusAssumption
<1>2. next = IF ph + 1 = TicksPerSecond THEN 0 ELSE ph + 1
    BY <1>1
<1>3. (a + 1) * TicksPerSecond = a * TicksPerSecond + TicksPerSecond
    BY <1>1
<1>4. a * TicksPerSecond \in Nat
    BY <1>1
<1> QED BY <1>1, <1>2, <1>3, <1>4

LEMMA TickGrace ==
    ASSUME TypeInv, GraceInv, Tick
    PROVE  GraceInv'
<1> SUFFICES ASSUME running', orderly', fullWait' # 0, NEW p \in recent'
             PROVE  DrawnWithin(p, config, screenWait)'
    BY DEF GraceInv
<1>0. WorldType /\ DaemonType /\ DeadlineType
    BY DEF TypeInv
<1>1. /\ running /\ orderly /\ p \in recent /\ ~Due
      /\ UNCHANGED config
      /\ screenWait' = Sooner(screenWait) /\ fullWait' = Sooner(fullWait)
      /\ phase' = (phase + 1) % TicksPerSecond
    BY DEF Tick
<1>2. config.interval \in Nat /\ config.full \in Nat
    BY <1>0, ConfigsType DEF DeadlineType
<1>3. screenWait \in Nat \ {0} /\ fullWait \in Nat
    BY <1>0, <1>1, <1>2 DEF Due, DeadlineType
<1>4. screenWait' = screenWait - 1 /\ fullWait # 0
    BY <1>1, <1>3 DEF Sooner
<1>5. DrawnWithin(p, config, screenWait)
    BY <1>1, <1>4 DEF GraceInv
<1>6. WindowOf[p] \in Windows
    BY <1>0, <1>1, StatusAssumption DEF DaemonType
<1>7. age[WindowOf[p]] \in Nat /\ age'[WindowOf[p]] \in Nat
      /\ \/ age'[WindowOf[p]] = age[WindowOf[p]]
         \/ age'[WindowOf[p]] = age[WindowOf[p]] + 1 /\ phase' = 0
    BY <1>0, <1>6, AgeAssumption DEF Tick, WorldType
<1> DEFINE a == age[WindowOf[p]]
           b == age'[WindowOf[p]]
<1>8. b * TicksPerSecond + phase' <= a * TicksPerSecond + phase + 1
  <2>1. phase \in 0..(TicksPerSecond - 1)
      BY <1>0 DEF WorldType
  <2>2. /\ a \in Nat /\ b \in Nat
        /\ phase' = (phase + 1) % TicksPerSecond
        /\ b = a \/ (b = a + 1 /\ phase' = 0)
      BY <1>1, <1>7
  <2> HIDE DEF a, b
  <2> QED BY <2>1, <2>2, SecondsPass
<1>9. TicksPerSecond \in Nat \ {0} /\ phase \in Nat /\ phase' \in Nat
  <2>1. TicksPerSecond \in Nat \ {0} /\ phase \in 0..(TicksPerSecond - 1)
      BY <1>0, StatusAssumption DEF WorldType
  <2> QED BY <1>1, <2>1
<1>10. a \in Nat /\ b \in Nat
    BY <1>7
<1> HIDE DEF a, b
<1>11. a * TicksPerSecond \in Nat /\ b * TicksPerSecond \in Nat
    BY <1>9, <1>10
<1>12. b * TicksPerSecond + phase' + (screenWait - 1) <= config.interval + (TicksPerSecond - 1)
    BY <1>2, <1>3, <1>5, <1>8, <1>9, <1>11 DEF DrawnWithin, a
<1> QED BY <1>1, <1>4, <1>12 DEF DrawnWithin, b

LEMMA DrawGrace ==
    ASSUME TypeInv, GraceInv, NEW q \in Panes, Draw(q)
    PROVE  GraceInv'
<1> SUFFICES ASSUME running', orderly', fullWait' # 0, NEW p \in recent'
             PROVE  DrawnWithin(p, config, screenWait)'
    BY DEF GraceInv
<1>0. WorldType /\ DaemonType /\ DeadlineType
    BY DEF TypeInv
<1>1. /\ running /\ orderly /\ fullWait # 0
      /\ UNCHANGED <<config, screenWait, phase>>
      /\ age' = [age EXCEPT ![WindowOf[q]] = 0]
      /\ recent' = recent \cup {q}
    BY DEF Draw
<1>2. WindowOf[p] \in Windows
    BY <1>0, <1>1, StatusAssumption DEF DaemonType
<1>3. CASE WindowOf[p] = WindowOf[q]
  <2>1. age'[WindowOf[p]] = 0
      BY <1>0, <1>1, <1>2, <1>3 DEF WorldType
  <2>2. /\ TicksPerSecond \in Nat \ {0} /\ phase \in 0..(TicksPerSecond - 1)
        /\ config.interval \in Nat /\ screenWait \in 0..config.interval
      BY <1>0, ConfigsType, StatusAssumption DEF WorldType, DeadlineType
  <2> QED BY <1>1, <2>1, <2>2 DEF DrawnWithin
<1>4. CASE WindowOf[p] # WindowOf[q]
  <2>1. age'[WindowOf[p]] = age[WindowOf[p]]
      BY <1>0, <1>1, <1>2, <1>4 DEF WorldType
  <2>2. DrawnWithin(p, config, screenWait)
      BY <1>1, <1>4 DEF GraceInv
  <2> QED BY <1>1, <2>1, <2>2 DEF DrawnWithin
<1> QED BY <1>3, <1>4

LEMMA NextGrace == TypeInv /\ GraceInv /\ [Next]_vars => GraceInv'
<1> SUFFICES ASSUME TypeInv, GraceInv, [Next]_vars PROVE GraceInv'
    OBVIOUS
<1>1. CASE Turn
  <2>1. PICK trouble \in Troubles : Scan(trouble)
      BY <1>1 DEF Turn
  <2>2. UNCHANGED <<age, phase, running, config>>
      BY <1>1 DEF Turn, world
  <2>3. CASE screenWait # 0
      BY <2>1, <2>2, <2>3 DEF Scan, GraceInv, DrawnWithin, scanned
  <2>4. CASE screenWait = 0
      BY <2>1, <2>2, <2>4 DEF Scan, GraceInv
  <2> QED BY <2>3, <2>4
<1>2. CASE ReloadConfig
    BY <1>2 DEF ReloadConfig, ReplaceConfig, GraceInv, DrawnWithin, world
<1>3. CASE Starts \/ Stops
    BY <1>3 DEF Starts, NewDaemon, Stops, GraceInv
<1>4. CASE LoadPlugin \/ OldDaemonPublishes
    BY <1>4 DEF LoadPlugin, OldDaemonPublishes, GraceInv, DrawnWithin, world, scanned
<1>5. CASE \E p \in Panes : Seen(p)
    BY <1>5 DEF Seen, GraceInv, DrawnWithin, world
<1>6. CASE UNCHANGED vars
    BY <1>6 DEF vars, GraceInv, DrawnWithin
<1> QED BY <1>1, <1>2, <1>3, <1>4, <1>5, <1>6, TickGrace, DrawGrace DEF Next

\* When the wait is over, a pane drawn since the last scan is dirty: its activity
\* is no older than the grace.
LEMMA DrawnIsDirty ==
    ASSUME TypeInv, GraceInv, running, orderly, screenWait = 0,
           NEW p \in recent, p \in Resolved
    PROVE  p \in Dirty
<1>1. CASE fullWait = 0
    BY <1>1 DEF Dirty
<1>2. CASE fullWait # 0
  <2>0. WorldType /\ DaemonType /\ DeadlineType
      BY DEF TypeInv
  <2>1. WindowOf[p] \in Windows
      BY <2>0, StatusAssumption DEF DaemonType
  <2> DEFINE a == age[WindowOf[p]]
  <2>2. /\ TicksPerSecond \in Nat \ {0} /\ phase \in Nat /\ a \in Nat
        /\ config.interval \in Nat
      BY <2>0, <2>1, ConfigsType, StatusAssumption, AgeAssumption DEF WorldType, DeadlineType
  <2>3. a * TicksPerSecond + phase + 0 <= config.interval + (TicksPerSecond - 1)
      BY <1>2 DEF GraceInv, DrawnWithin
  <2> HIDE DEF a
  <2>4. a * TicksPerSecond \in Nat
      BY <2>2
  <2>5. a * TicksPerSecond <= config.interval + TicksPerSecond
      BY <2>2, <2>3, <2>4
  <2>6. a <= (config.interval + TicksPerSecond) \div TicksPerSecond
      BY <2>2, <2>5
  <2> QED BY <2>6 DEF Dirty, Grace, a
<1> QED BY <1>1, <1>2

\* What a scan that captures a pane records shows what is on the screen.
LEMMA CapturedShows ==
    ASSUME TypeInv, NEW p \in Panes, NEW captured, p \in Resolved => p \in captured
    PROVE  Shows(Recorded(captured), p)
<1>0. WorldType
    BY DEF TypeInv
<1>1. CASE screen[p] = "gone"
    BY <1>1 DEF Shows, Recorded, Resolved
<1>2. CASE screen[p] # "gone"
  <2>1. p \in Resolved
      BY <1>2 DEF Resolved
  <2>2. Recorded(captured)[p] = Rules!ScreenDisplayState(records[p], screen[p], FALSE)
      BY <2>1 DEF Recorded
  <2>3. screen[p] \in {"working", "blocked", "visible_idle"}
      BY <1>0, <1>2, StatusAssumption DEF WorldType, Rules!Frames
  <2>4. CASE screen[p] = "visible_idle"
    <3>1. Rules!DetectedState(screen[p]) = "idle"
        BY <2>4 DEF Rules!DetectedState
    <3>2. Rules!ScreenDisplayState(records[p], screen[p], FALSE) \in {"idle", "done"}
        BY <3>1 DEF Rules!ScreenDisplayState
    <3> QED BY <2>2, <2>4, <3>2 DEF Shows
  <2>5. CASE screen[p] \in {"working", "blocked"}
    <3>1. Rules!DetectedState(screen[p]) = screen[p]
        BY <2>5 DEF Rules!DetectedState
    <3>2. Rules!ScreenDisplayState(records[p], screen[p], FALSE) = screen[p]
        BY <2>5, <3>1 DEF Rules!ScreenDisplayState
    <3> QED BY <2>2, <2>5, <3>2 DEF Shows
  <2> QED BY <2>3, <2>4, <2>5
<1> QED BY <1>1, <1>2

\* A scan that is on time misses no redraw since the one before, although tmux
\* dates activity by the second and the window: the second in which an interval
\* begins is part of the grace (select_dirty_panes), for any interval, any clock
\* and any number of panes in a window.
THEOREM RedrawsAreCaptured == Spec => CapturedNextScan
<1>1. ASSUME TypeInv, GraceInv, [Next]_vars,
             screenWait = 0, screenWait' > 0, orderly, orderly', events' = events,
             NEW p \in recent
      PROVE  Shows(records', p)
  <2>0. WorldType /\ DaemonType
      BY <1>1 DEF TypeInv
  <2>1. Turn
    <3>1. Tick => screenWait' = 0
        BY <1>1 DEF Tick, Sooner
    <3>2. screenWait' # screenWait /\ screenWait' # 0
        BY <1>1
    <3> QED
      BY <1>1, <3>1, <3>2
      DEF Next, Draw, Seen, LoadPlugin, OldDaemonPublishes, Stops, Starts, NewDaemon,
          ReloadConfig, ReplaceConfig, vars
  <2>2. PICK trouble \in Troubles :
            /\ IF trouble = "none" THEN UNCHANGED events ELSE Event
            /\ Scan(trouble)
      BY <2>1 DEF Turn
  <2>3. trouble = "none"
      BY <1>1, <2>0, <2>2, StatusAssumption DEF Event, WorldType
  <2>4. records' = Recorded(Dirty \ {"none"}) /\ running /\ UNCHANGED screen
      BY <1>1, <2>1, <2>2, <2>3 DEF Scan, Turn, Due, world
  <2>5. p \in Panes /\ "none" \notin Panes
      BY <2>0, StatusAssumption DEF DaemonType
  <2>6. p \in Resolved => p \in Dirty \ {"none"}
      BY <1>1, <2>4, <2>5, DrawnIsDirty
  <2> QED BY <1>1, <2>4, <2>5, <2>6, CapturedShows DEF Shows
<1>2. Init => GraceInv
    BY DEF Init, GraceInv
<1>3. TypeInv /\ GraceInv /\ [Next]_vars =>
        [ screenWait = 0 /\ screenWait' > 0 /\ orderly /\ orderly' /\ events' = events
          => \A p \in recent : Shows(records', p) ]_vars
    BY <1>1
<1> QED BY <1>2, <1>3, InitType, NextType, NextGrace, PTL DEF Spec, CapturedNextScan
=============================================================================
