-------------------------- MODULE PaneStates_proofs --------------------------
(***************************************************************************)
(* Proofs about PaneStates, for any panes, intervals and reports. The      *)
(* invariant relates each pending confirmation to the record it belongs    *)
(* to, to the next scan, and to what the captures have really shown.       *)
(***************************************************************************)
EXTENDS PaneStates, FiniteSetTheorems, SequenceTheorems, TLAPS

\* A confirmation that is not held keeps nothing of an earlier one.
DroppedWhole == \A p \in Panes : ~pending[p].held => pending[p] = NotHeld

\* What a confirmation counts are captures that really showed an idle screen,
\* in a row, the first of them as long ago as the confirmation says.
StreakCovers ==
    \A p \in Panes :
        pending[p].held => /\ streak[p].count >= pending[p].confirmations + 1
                           /\ streak[p].age >= pending[p].age

IInv ==
    /\ TypeOK
    /\ PendingBelongsToWorking
    /\ HeldIsRechecked
    /\ DroppedWhole
    /\ StreakCovers

LEMMA ConstantFacts ==
    /\ Cap \in Nat \ {0} /\ Confirmations \in Nat \ {0}
    /\ MaxStreak \in Nat /\ MaxStreak = Confirmations + 1
    /\ StateTtl \in Nat /\ MaxAge \in Nat
    /\ Interval \in Nat /\ Recheck \in Nat /\ FullInterval \in Nat
    /\ Reports \subseteq ProgramStates /\ MaxFaults \in Nat
    /\ NotHeld \in Confirming /\ FirstHold \in Confirming
    /\ NoStreak \in [count : 0..MaxStreak, age : 0..Cap]
BY RulesAssumption, PaneAssumption
   DEF MaxStreak, MaxAge, NotHeld, FirstHold, Confirming, NoStreak

LEMMA LeastFacts ==
    ASSUME NEW m \in Nat, NEW n \in Nat
    PROVE  /\ Least(m, n) \in 0..n /\ Least(m, n) <= m
           /\ Least(m, n) = m \/ Least(m, n) = n
BY DEF Least

-----------------------------------------------------------------------------
(* The decisions *)

LEMMA ScreenDisplayTyped ==
    ASSUME NEW previous, NEW frame \in Frames \ {"skip"}, NEW watched
    PROVE  /\ ScreenDisplayState(previous, frame, watched) \in AgentStates
           /\ previous = "done" =>
                  ScreenDisplayState(previous, frame, watched) \in ActiveStates \cup {"done"}
<1>1. DetectedState(frame) \in {"idle", "working", "blocked"}
  BY DEF DetectedState, Frames
<1>2. CASE DetectedState(frame) # "idle"
  BY <1>1, <1>2 DEF ScreenDisplayState, AgentStates, ActiveStates
<1>3. CASE DetectedState(frame) = "idle" /\ previous = "done"
  BY <1>3 DEF ScreenDisplayState, AgentStates, ActiveStates
<1>4. CASE DetectedState(frame) = "idle" /\ previous # "done" /\ previous \in ActiveStates
  <2>1. ScreenDisplayState(previous, frame, watched) = IF watched THEN "idle" ELSE "done"
    BY <1>4 DEF ScreenDisplayState
  <2> QED
    BY <1>4, <2>1 DEF AgentStates
<1>5. CASE DetectedState(frame) = "idle" /\ previous # "done" /\ previous \notin ActiveStates
  BY <1>5 DEF ScreenDisplayState, AgentStates
<1> QED
  BY <1>2, <1>3, <1>4, <1>5

LEMMA ProgramDisplayTyped ==
    ASSUME NEW report, NEW completion, NEW previous, NEW watched
    PROVE  /\ ProgramDisplayState(report, completion, previous, watched) \in AgentStates
           /\ previous = "done" =>
                  ProgramDisplayState(report, completion, previous, watched)
                      \in ActiveStates \cup {"done"}
<1>1. CASE report \in ActiveStates
  BY <1>1 DEF ProgramDisplayState, AgentStates, ActiveStates
<1>2. CASE report \notin ActiveStates /\ previous = "done"
  BY <1>2 DEF ProgramDisplayState, AgentStates
<1>3. CASE report \notin ActiveStates /\ previous # "done"
  BY <1>3 DEF ProgramDisplayState, AgentStates
<1> QED
  BY <1>1, <1>2, <1>3

LEMMA UnexpiredFacts ==
    ASSUME TypeOK, NEW p \in Panes
    PROVE  /\ Unexpired(p) \in AgentStates \cup {"none"}
           /\ Unexpired(p) \in {agents[p], "none"}
           /\ ~Expired(p) => Unexpired(p) = agents[p]
           /\ agents[p] = "done" => Unexpired(p) = "done"
BY DEF TypeOK, Unexpired, Expired, ActiveStates

LEMMA RecordedAgeTyped ==
    ASSUME TypeOK, NEW p \in Panes, NEW state
    PROVE  RecordedAge(p, state) \in 0..MaxAge
BY ConstantFacts DEF TypeOK, RecordedAge

LEMMA ShownFrames ==
    ASSUME TypeOK, NEW p \in Resolved, NEW f \in Shown(p)
    PROVE  f \in Frames
<1>1. agent[p] \in {"resting", "working", "asking"}
  BY DEF TypeOK, Resolved, Doings
<1> QED
  BY <1>1 DEF Shown, Frames

LEMMA KeptTyped ==
    ASSUME TypeOK, NEW p \in Panes
    PROVE  /\ Kept(p) \in Stored \cup {NoReport}
           /\ p \in ProgramPanes => Kept(p) \in Stored
BY DEF TypeOK, Kept, ProgramPanes

\* A scan captures running agents only, each as it may look.
LEMMA CapturedFrames ==
    ASSUME TypeOK, NEW frame, Captures(frame), NEW p \in Panes, frame[p] # "none"
    PROVE  /\ p \in Resolved \ ProgramPanes
           /\ frame[p] \in Shown(p) /\ frame[p] \in Frames
<1>1. p \in Resolved \ ProgramPanes /\ frame[p] \in Shown(p)
  BY DEF Captures
<1> QED
  BY <1>1, ShownFrames

\* The record a scan leaves.
LEMMA RecordedTyped ==
    ASSUME TypeOK, NEW frame, Captures(frame), NEW p \in Panes
    PROVE  /\ Recorded(p, frame[p]) \in AgentStates \cup {"none"}
           /\ agents[p] = "done" =>
                  \/ Recorded(p, frame[p]) \in ActiveStates \cup {"done"}
                  \/ agent[p] = "absent"
<1>1. CASE p \notin Resolved
  <2>1. Recorded(p, frame[p]) = "none"
    BY <1>1 DEF Recorded, ProgramPanes
  <2> QED
    BY <1>1, <2>1 DEF Resolved
<1>2. CASE p \in ProgramPanes
  <2>1. p \in Resolved
    BY <1>2 DEF ProgramPanes
  <2>2. Recorded(p, frame[p]) =
          ProgramDisplayState(Kept(p).state, Kept(p).completion, Unexpired(p), visible[p])
    BY <1>2, <2>1 DEF Recorded
  <2> QED
    BY <2>2, ProgramDisplayTyped, UnexpiredFacts
<1>3. CASE p \in Resolved \ ProgramPanes
  <2>1. Recorded(p, frame[p]) =
          IF \/ frame[p] \in {"none", "skip"}
             \/ ShouldHold(pending[p], Unexpired(p), frame[p])
          THEN Unexpired(p)
          ELSE ScreenDisplayState(Unexpired(p), frame[p], visible[p])
    BY <1>3 DEF Recorded
  <2>2. CASE \/ frame[p] \in {"none", "skip"}
             \/ ShouldHold(pending[p], Unexpired(p), frame[p])
    BY <2>1, <2>2, UnexpiredFacts
  <2>3. CASE ~ \/ frame[p] \in {"none", "skip"}
               \/ ShouldHold(pending[p], Unexpired(p), frame[p])
    <3>1. frame[p] \in Frames \ {"skip"}
      BY <2>3, CapturedFrames
    <3>2. Recorded(p, frame[p]) = ScreenDisplayState(Unexpired(p), frame[p], visible[p])
      BY <2>1, <2>3
    <3> QED
      BY <3>1, <3>2, ScreenDisplayTyped, UnexpiredFacts
  <2> QED
    BY <2>2, <2>3
<1> QED
  BY <1>1, <1>2, <1>3 DEF ProgramPanes

\* What a scan does to a confirmation: it drops it, keeps it for a pane that was
\* not captured, or counts an idle screen of a pane that remains "working".
LEMMA ConfirmedCases ==
    ASSUME TypeOK, NEW frame, Captures(frame), NEW p \in Panes
    PROVE  \/ Confirmed(p, frame[p]) = NotHeld
           \/ /\ Confirmed(p, frame[p]) = pending[p] /\ frame[p] = "none"
              /\ p \in Resolved \ ProgramPanes
              /\ Recorded(p, frame[p]) = Unexpired(p)
           \/ /\ Confirmed(p, frame[p]) = AfterHold(pending[p]) /\ frame[p] = "idle"
              /\ p \in Resolved \ ProgramPanes
              /\ Unexpired(p) = "working" /\ Recorded(p, frame[p]) = "working"
              /\ ShouldHold(pending[p], Unexpired(p), frame[p])
<1>1. CASE p \notin Resolved \/ p \in ProgramPanes
  BY <1>1 DEF Confirmed
<1>2. CASE p \in Resolved \ ProgramPanes
  <2>1. Confirmed(p, frame[p]) =
          IF frame[p] = "none" THEN pending[p]
          ELSE IF ShouldHold(pending[p], Unexpired(p), frame[p]) THEN AfterHold(pending[p])
          ELSE NotHeld
    BY <1>2 DEF Confirmed
  <2>2. frame[p] = "none" \/ ShouldHold(pending[p], Unexpired(p), frame[p])
          => Recorded(p, frame[p]) = Unexpired(p)
    BY <1>2 DEF Recorded
  <2>3. ShouldHold(pending[p], Unexpired(p), frame[p])
          => Unexpired(p) = "working" /\ frame[p] = "idle"
    BY DEF ShouldHold, PlainWorkingToIdle
  <2> QED
    BY <1>2, <2>1, <2>2, <2>3
<1> QED
  BY <1>1, <1>2

LEMMA AfterHoldTyped ==
    ASSUME NEW confirming \in Confirming, NEW previous, NEW frame,
           ShouldHold(confirming, previous, frame)
    PROVE  /\ AfterHold(confirming) \in Confirming /\ AfterHold(confirming).held
           /\ confirming.held =>
                  /\ AfterHold(confirming).age = confirming.age
                  /\ AfterHold(confirming).confirmations = confirming.confirmations + 1
                  /\ confirming.confirmations + 1 < Confirmations
           /\ ~confirming.held => AfterHold(confirming) = FirstHold
<1>1. CASE confirming.held
  <2>1. confirming.confirmations + 1 \in 0..Confirmations
    BY <1>1, ConstantFacts DEF ShouldHold, Confirming
  <2>2. AfterHold(confirming) = [confirming EXCEPT !.confirmations = @ + 1]
    BY <1>1 DEF AfterHold
  <2> QED
    BY <1>1, <2>1, <2>2 DEF ShouldHold, Confirming
<1>2. CASE ~confirming.held
  BY <1>2, ConstantFacts DEF AfterHold, FirstHold
<1> QED
  BY <1>1, <1>2

LEMMA ConfirmedTyped ==
    ASSUME TypeOK, NEW frame, Captures(frame), NEW p \in Panes
    PROVE  /\ Confirmed(p, frame[p]) \in Confirming
           /\ Resolvable(Confirmed(p, frame[p])) \in Confirming
<1>1. pending[p] \in Confirming
  BY DEF TypeOK
<1>2. Confirmed(p, frame[p]) \in Confirming
  BY <1>1, ConfirmedCases, AfterHoldTyped, ConstantFacts
<1> QED
  BY <1>2, ConstantFacts DEF Resolvable

-----------------------------------------------------------------------------
(* Steps of the environment leave the records, confirmations and captures *)

LEMMA RelayedTyped ==
    ASSUME TypeOK, NEW p \in Panes, NEW state, NEW own \in BOOLEAN,
           Relayed(p, state, own)
    PROVE  outbox' \in [Panes -> Seq(Message)]
<1>1. CASE UNCHANGED outbox
  BY <1>1 DEF TypeOK
<1>2. CASE state \in Reports
           /\ outbox' = [outbox EXCEPT ![p] = Append(@, [state |-> state, own |-> own])]
  <2>1. [state |-> state, own |-> own] \in Message
    BY <1>2, ConstantFacts DEF Message
  <2>2. outbox \in [Panes -> Seq(Message)] /\ outbox[p] \in Seq(Message)
    BY DEF TypeOK
  <2>3. Append(outbox[p], [state |-> state, own |-> own]) \in Seq(Message)
    BY <2>1, <2>2, AppendProperties
  <2> QED
    BY <1>2, <2>2, <2>3
<1> QED
  BY <1>1, <1>2 DEF Relayed

LEMMA EnvironmentTyped ==
    ASSUME TypeOK, NEW p \in Panes, EnvironmentStep(p)
    PROVE  TypeOK' /\ UNCHANGED <<agents, age, pending, programs, enabled, screenWait,
                                  fullWait, streak>>
<1> USE DEF center, history
<1>1. CASE TurnStarts(p)
  BY <1>1, RelayedTyped DEF TurnStarts, TypeOK, Doings
<1>2. CASE AgentAsks(p)
  BY <1>2, RelayedTyped DEF AgentAsks, TypeOK, Doings
<1>3. CASE AgentAnswered(p)
  BY <1>3, RelayedTyped DEF AgentAnswered, TypeOK, Doings
<1>4. CASE TurnEnds(p)
  BY <1>4, RelayedTyped DEF TurnEnds, TypeOK, Doings
<1>5. CASE AgentExits(p)
  <2>1. (owed[p] \/ agent[p] \in Active) \in BOOLEAN
    BY DEF TypeOK
  <2> QED
    BY <1>5, <2>1 DEF AgentExits, TypeOK, Doings
<1>6. CASE AgentStarts(p)
  BY <1>6, RelayedTyped DEF AgentStarts, TypeOK, Doings
<1>7. CASE SpareReport(p)
  <2>1. \E state : \E own \in BOOLEAN : Relayed(p, state, own)
    BY <1>7 DEF SpareReport
  <2>2. outbox' \in [Panes -> Seq(Message)]
    BY <2>1, RelayedTyped
  <2> QED
    BY <1>7, <2>2 DEF SpareReport, TypeOK
<1>8. CASE RelayDies(p)
  BY <1>8, EmptySeq DEF RelayDies, TypeOK
<1>9. CASE RelayReplaced(p)
  <2>1. [state |-> "clear", own |-> FALSE] \in Message
    BY DEF Message, ProgramStates
  <2>2. Append(outbox[p], [state |-> "clear", own |-> FALSE]) \in Seq(Message)
    BY <2>1, AppendProperties DEF TypeOK
  <2> QED
    BY <1>9, <2>2, EmptySeq DEF RelayReplaced, TypeOK
<1>10. CASE OtherPipeEnds(p)
  BY <1>10 DEF OtherPipeEnds, TypeOK
<1>11. CASE Look(p)
  BY <1>11 DEF Look, TypeOK
<1>12. CASE View(p)
  BY <1>12 DEF View, TypeOK
<1> QED
  BY <1>1, <1>2, <1>3, <1>4, <1>5, <1>6, <1>7, <1>8, <1>9, <1>10, <1>11, <1>12
     DEF EnvironmentStep

-----------------------------------------------------------------------------
(* Type correctness *)

LEMMA InitTyped == Init => TypeOK
<1> SUFFICES ASSUME Init
             PROVE  TypeOK
  OBVIOUS
<1>1. \A p \in Panes : <<>> \in Seq(Message)
  BY EmptySeq
<1> QED
  BY <1>1, ConstantFacts DEF Init, TypeOK, Doings

LEMMA TickTyped ==
    ASSUME TypeOK, Tick
    PROVE  TypeOK'
<1>1. ASSUME NEW p \in Panes
      PROVE  (IF agents[p] \in ActiveStates THEN Least(age[p] + 1, MaxAge) ELSE 0)
                 \in 0..MaxAge
  <2>1. age[p] + 1 \in Nat /\ MaxAge \in Nat
    BY ConstantFacts DEF TypeOK
  <2> QED
    BY <2>1, LeastFacts
<1>2. ASSUME NEW p \in Panes
      PROVE  (IF pending[p].held THEN [pending[p] EXCEPT !.age = Least(@ + 1, Cap)]
              ELSE pending[p]) \in Confirming
  <2>1. pending[p] \in Confirming /\ Cap \in Nat
    BY ConstantFacts DEF TypeOK
  <2>2. pending[p].age + 1 \in Nat
    BY <2>1 DEF Confirming
  <2>3. Least(pending[p].age + 1, Cap) \in 0..Cap
    BY <2>1, <2>2, LeastFacts
  <2> QED
    BY <2>1, <2>3 DEF Confirming
<1>3. ASSUME NEW p \in Panes
      PROVE  (IF streak[p].count > 0 THEN [streak[p] EXCEPT !.age = Least(@ + 1, Cap)]
              ELSE streak[p]) \in [count : 0..MaxStreak, age : 0..Cap]
  <2>1. /\ streak[p] \in [count : 0..MaxStreak, age : 0..Cap]
        /\ streak[p].age + 1 \in Nat /\ Cap \in Nat
    BY ConstantFacts DEF TypeOK
  <2>2. Least(streak[p].age + 1, Cap) \in 0..Cap
    BY <2>1, LeastFacts
  <2> QED
    BY <2>1, <2>2
<1>4. age' \in [Panes -> 0..MaxAge]
  BY <1>1 DEF Tick
<1>5. pending' \in [Panes -> Confirming]
  BY <1>2 DEF Tick
<1>6. streak' \in [Panes -> [count : 0..MaxStreak, age : 0..Cap]]
  BY <1>3 DEF Tick
<1>7. screenWait' \in Nat /\ fullWait' \in Nat
  BY DEF Tick, TypeOK
<1> QED
  BY <1>4, <1>5, <1>6, <1>7 DEF Tick, TypeOK, environment

LEMMA ReportTyped ==
    ASSUME TypeOK, NEW p \in Panes, NEW report \in Message, ApplyProgramStatus(p, report)
    PROVE  programs' \in [Panes -> Stored \cup {NoReport}] /\ screenWait' \in Nat
<1>1. report.state # "clear" =>
        [state |-> report.state, own |-> report.own,
         completion |-> report.state \in Completions] \in Stored
  BY DEF Message, Stored
<1>2. CASE ~enabled
  BY <1>2 DEF ApplyProgramStatus, TypeOK
<1>3. CASE enabled
  <2> DEFINE new == IF report.state = "clear" THEN NoReport
                    ELSE [state |-> report.state, own |-> report.own,
                          completion |-> report.state \in Completions]
  <2>1. new \in Stored \cup {NoReport}
    BY <1>1
  <2>2. programs' = [programs EXCEPT ![p] = new] /\ screenWait' = 0
    BY <1>3 DEF ApplyProgramStatus
  <2> HIDE DEF new
  <2> QED
    BY <2>1, <2>2 DEF TypeOK
<1> QED
  BY <1>2, <1>3

LEMMA ProgramStatusTyped ==
    ASSUME TypeOK, NEW p \in Panes, ProgramStatus(p)
    PROVE  /\ TypeOK' /\ UNCHANGED <<agents, age, pending, streak>>
           /\ screenWait' = screenWait \/ screenWait' = 0
<1>1. outbox[p] \in Seq(Message) /\ leaving[p] \in Seq(Message)
  BY DEF TypeOK
<1>2. CASE /\ outbox[p] # <<>> /\ ApplyProgramStatus(p, Head(outbox[p]))
           /\ outbox' = [outbox EXCEPT ![p] = Tail(@)] /\ UNCHANGED leaving
  <2>1. Head(outbox[p]) \in Message /\ Tail(outbox[p]) \in Seq(Message)
    BY <1>1, <1>2, HeadTailProperties
  <2>2. programs' \in [Panes -> Stored \cup {NoReport}] /\ screenWait' \in Nat
    BY <1>2, <2>1, ReportTyped
  <2> QED
    BY <1>2, <2>1, <2>2 DEF ProgramStatus, ApplyProgramStatus, TypeOK, history
<1>3. CASE /\ leaving[p] # <<>> /\ ApplyProgramStatus(p, Head(leaving[p]))
           /\ leaving' = [leaving EXCEPT ![p] = Tail(@)] /\ UNCHANGED outbox
  <2>1. Head(leaving[p]) \in Message /\ Tail(leaving[p]) \in Seq(Message)
    BY <1>1, <1>3, HeadTailProperties
  <2>2. programs' \in [Panes -> Stored \cup {NoReport}] /\ screenWait' \in Nat
    BY <1>3, <2>1, ReportTyped
  <2> QED
    BY <1>3, <2>1, <2>2 DEF ProgramStatus, ApplyProgramStatus, TypeOK, history
<1> QED
  BY <1>2, <1>3 DEF ProgramStatus

LEMMA RequestTyped ==
    ASSUME TypeOK, NEW p \in Panes, Seen(p) \/ Exited(p)
    PROVE  TypeOK'
<1>1. CASE Seen(p)
  BY <1>1, ConstantFacts DEF Seen, TypeOK, AgentStates, environment, history
<1>2. CASE Exited(p)
  <2>1. faults' \in 0..MaxFaults
    BY <1>2, ConstantFacts DEF Exited, Fault, TypeOK
  <2>2. agents' \in [Panes -> AgentStates \cup {"none"}]
    BY <1>2 DEF Exited, TypeOK
  <2>3. age' \in [Panes -> 0..MaxAge]
    BY <1>2, ConstantFacts DEF Exited, TypeOK
  <2> QED
    BY <1>2, <2>1, <2>2, <2>3 DEF Exited, TypeOK, history
<1> QED
  BY <1>1, <1>2

LEMMA ReloadTyped ==
    ASSUME TypeOK, ReloadConfig
    PROVE  TypeOK'
<1>1. faults' \in 0..MaxFaults /\ enabled' \in BOOLEAN
  <2>1. faults' \in 0..MaxFaults
    BY ConstantFacts DEF ReloadConfig, Fault, TypeOK
  <2>2. enabled' \in BOOLEAN
    <3>1. enabled' \in IF Reports = {} THEN {FALSE} ELSE BOOLEAN
      BY DEF ReloadConfig
    <3> QED
      BY <3>1, Zenon
  <2> QED
    BY <2>1, <2>2
<1>2. programs' \in [Panes -> Stored \cup {NoReport}]
  BY DEF ReloadConfig, TypeOK
<1> QED
  BY <1>1, <1>2, ConstantFacts DEF ReloadConfig, TypeOK, history

LEMMA NextScanTyped ==
    ASSUME NEW confirming
    PROVE  /\ NextScan(confirming) \in Nat \ {0}
           /\ (\E p \in Panes : confirming[p].held) => NextScan(confirming) <= Recheck
BY PaneAssumption DEF NextScan

LEMMA ExpiryTyped ==
    ASSUME TypeOK
    PROVE  /\ [p \in Panes |-> Unexpired(p)] \in [Panes -> AgentStates \cup {"none"}]
           /\ [p \in Panes |-> RecordedAge(p, Unexpired(p))] \in [Panes -> 0..MaxAge]
BY UnexpiredFacts, RecordedAgeTyped

LEMMA ExpireStatesTyped ==
    ASSUME TypeOK, ExpireStates
    PROVE  TypeOK'
BY ExpiryTyped DEF ExpireStates, TypeOK, environment, history

LEMMA ScanFailsTyped ==
    ASSUME TypeOK, ScanFails
    PROVE  TypeOK'
<1>1. [p \in Panes |-> Resolvable(pending[p])] \in [Panes -> Confirming]
  BY ConstantFacts DEF TypeOK, Resolvable
<1>2. faults' \in 0..MaxFaults
  BY ConstantFacts DEF ScanFails, Fault, TypeOK
<1>3. screenWait' \in Nat
  BY NextScanTyped DEF ScanFails
<1> QED
  BY <1>1, <1>2, <1>3, ExpiryTyped DEF ScanFails, TypeOK, history

LEMMA ScanTyped ==
    ASSUME TypeOK, NEW frame, NEW attached, Scan(frame, attached)
    PROVE  TypeOK'
<1>1. Captures(frame)
  BY DEF Scan
<1>2. agents' \in [Panes -> AgentStates \cup {"none"}] /\ age' \in [Panes -> 0..MaxAge]
  BY <1>1, RecordedTyped, RecordedAgeTyped DEF Scan
<1>3. pending' \in [Panes -> Confirming]
  BY <1>1, ConfirmedTyped DEF Scan
<1>4. programs' \in [Panes -> Stored \cup {NoReport}]
  <2>1. ASSUME NEW p \in Panes
        PROVE  (IF p \in ProgramPanes THEN [Kept(p) EXCEPT !.completion = FALSE] ELSE Kept(p))
                   \in Stored \cup {NoReport}
    BY KeptTyped DEF Stored
  <2> QED
    BY <2>1 DEF Scan
<1>5. piped' \in [Panes -> {"none", "relay", "other"}]
  BY DEF Scan, PipedAfter, TypeOK
<1>6. faults' \in 0..MaxFaults
  <2> DEFINE missed == AlwaysDirty \ {p \in Panes : frame[p] # "none"}
  <2>1. missed \in SUBSET Panes
    BY DEF AlwaysDirty, Resolved
  <2>2. Cardinality(missed) \in Nat
    BY <2>1, PaneAssumption, FS_Subset, FS_CardinalityType
  <2>3. Fault(Cardinality(missed))
    BY <1>1 DEF Captures
  <2> HIDE DEF missed
  <2> QED
    BY <2>2, <2>3, ConstantFacts DEF Fault, TypeOK
<1>7. screenWait' \in Nat /\ fullWait' \in Nat
  BY NextScanTyped, ConstantFacts DEF Scan, TypeOK
<1>8. streak' \in [Panes -> [count : 0..MaxStreak, age : 0..Cap]]
  <2>1. ASSUME NEW p \in Panes
        PROVE  /\ streak[p] \in [count : 0..MaxStreak, age : 0..Cap]
               /\ [streak[p] EXCEPT !.count = Least(@ + 1, MaxStreak)]
                      \in [count : 0..MaxStreak, age : 0..Cap]
    <3>1. streak[p] \in [count : 0..MaxStreak, age : 0..Cap] /\ streak[p].count + 1 \in Nat
      BY ConstantFacts DEF TypeOK
    <3>2. Least(streak[p].count + 1, MaxStreak) \in 0..MaxStreak
      BY <3>1, ConstantFacts, LeastFacts
    <3> QED
      BY <3>1, <3>2
  <2> QED
    BY <2>1, ConstantFacts DEF Scan
<1>9. owed' \in [Panes -> BOOLEAN]
  BY DEF Scan, TypeOK
<1> QED
  BY <1>2, <1>3, <1>4, <1>5, <1>6, <1>7, <1>8, <1>9 DEF Scan, TypeOK

-----------------------------------------------------------------------------
(* The invariant *)

LEMMA InitIInv == Init => IInv
<1> SUFFICES ASSUME Init
             PROVE  IInv
  OBVIOUS
<1>1. \A p \in Panes : pending[p] = NotHeld /\ ~pending[p].held
  BY DEF Init, NotHeld
<1> QED
  BY <1>1, InitTyped
     DEF IInv, PendingBelongsToWorking, HeldIsRechecked, DroppedWhole, StreakCovers

\* A step that leaves records, confirmations and captures.
LEMMA QuietIInv ==
    ASSUME IInv, TypeOK', UNCHANGED <<agents, pending, streak>>,
           screenWait' = screenWait \/ screenWait' = 0
    PROVE  IInv'
<1>1. HeldIsRechecked'
  BY ConstantFacts DEF IInv, HeldIsRechecked
<1> QED
  BY <1>1 DEF IInv, PendingBelongsToWorking, DroppedWhole, StreakCovers

LEMMA TickIInv ==
    ASSUME IInv, Tick
    PROVE  IInv'
<1>1. TypeOK' /\ UNCHANGED agents
  BY TickTyped DEF IInv, Tick
<1>2. ASSUME NEW p \in Panes
      PROVE  /\ pending'[p].held = pending[p].held
             /\ ~pending[p].held => pending'[p] = pending[p]
             /\ pending[p].held =>
                    /\ pending'[p].confirmations = pending[p].confirmations
                    /\ pending'[p].age = Least(pending[p].age + 1, Cap)
  BY DEF IInv, TypeOK, Tick, Confirming
<1>3. ASSUME NEW p \in Panes
      PROVE  /\ streak'[p].count = streak[p].count
             /\ streak[p].count > 0 => streak'[p].age = Least(streak[p].age + 1, Cap)
  BY DEF IInv, TypeOK, Tick
<1>4. PendingBelongsToWorking'
  BY <1>1, <1>2 DEF IInv, PendingBelongsToWorking
<1>5. HeldIsRechecked'
  <2>1. screenWait' \in Nat /\ screenWait' <= screenWait
    BY DEF IInv, TypeOK, Tick
  <2>2. (\E p \in Panes : pending'[p].held) => (\E p \in Panes : pending[p].held)
    BY <1>2
  <2> QED
    BY <2>1, <2>2, ConstantFacts DEF IInv, TypeOK, HeldIsRechecked
<1>6. DroppedWhole'
  BY <1>2 DEF IInv, DroppedWhole
<1>7. StreakCovers'
  <2> SUFFICES ASSUME NEW p \in Panes, pending'[p].held
               PROVE  /\ streak'[p].count >= pending'[p].confirmations + 1
                      /\ streak'[p].age >= pending'[p].age
    BY DEF StreakCovers
  <2>1. pending[p].held /\ pending[p] \in Confirming
        /\ streak[p] \in [count : 0..MaxStreak, age : 0..Cap]
    BY <1>2 DEF IInv, TypeOK
  <2>2. streak[p].count >= pending[p].confirmations + 1 /\ streak[p].age >= pending[p].age
    BY <2>1 DEF IInv, StreakCovers
  <2>3. streak[p].count > 0
    BY <2>1, <2>2, ConstantFacts DEF Confirming
  <2>4. Least(streak[p].age + 1, Cap) >= Least(pending[p].age + 1, Cap)
    BY <2>1, <2>2, ConstantFacts DEF Confirming, Least
  <2> QED
    BY <1>2, <1>3, <2>1, <2>2, <2>3, <2>4
<1> QED
  BY <1>1, <1>4, <1>5, <1>6, <1>7 DEF IInv

LEMMA RequestIInv ==
    ASSUME IInv, NEW p \in Panes, Seen(p) \/ Exited(p)
    PROVE  IInv'
<1>1. TypeOK' /\ UNCHANGED <<pending, streak, screenWait>>
  BY RequestTyped DEF IInv, Seen, Exited, history
<1>2. PendingBelongsToWorking'
  <2> SUFFICES ASSUME NEW q \in Panes, pending[q].held
               PROVE  agents'[q] \in {"working", "none"}
    BY <1>1 DEF PendingBelongsToWorking
  <2>1. agents[q] \in {"working", "none"}
    BY DEF IInv, PendingBelongsToWorking
  <2>2. agents \in [Panes -> AgentStates \cup {"none"}]
    BY DEF IInv, TypeOK
  <2>3. CASE Seen(p)
    BY <2>1, <2>2, <2>3 DEF Seen
  <2>4. CASE Exited(p)
    BY <2>1, <2>2, <2>4 DEF Exited
  <2> QED
    BY <2>3, <2>4
<1> QED
  BY <1>1, <1>2 DEF IInv, HeldIsRechecked, DroppedWhole, StreakCovers

LEMMA ReloadIInv ==
    ASSUME IInv, ReloadConfig
    PROVE  IInv'
<1>1. \A p \in Panes : pending'[p] = NotHeld /\ ~pending'[p].held
  BY DEF ReloadConfig, NotHeld
<1> QED
  BY <1>1, ReloadTyped
     DEF IInv, PendingBelongsToWorking, HeldIsRechecked, DroppedWhole, StreakCovers

LEMMA ExpireStatesIInv ==
    ASSUME IInv, ExpireStates
    PROVE  IInv'
<1>1. TypeOK' /\ UNCHANGED <<pending, streak, screenWait>>
  BY ExpireStatesTyped DEF IInv, ExpireStates, history
<1>2. \A p \in Panes : agents'[p] \in {agents[p], "none"}
  BY UnexpiredFacts DEF IInv, ExpireStates
<1> QED
  BY <1>1, <1>2
     DEF IInv, PendingBelongsToWorking, HeldIsRechecked, DroppedWhole, StreakCovers

LEMMA ResolvableFacts ==
    ASSUME NEW confirming
    PROVE  /\ Resolvable(confirming) = confirming \/ Resolvable(confirming) = NotHeld
           /\ Resolvable(confirming).held =>
                  /\ Resolvable(confirming) = confirming
                  /\ confirming.held /\ ~(confirming.age >= Cap)
           /\ ~NotHeld.held
BY DEF Resolvable, NotHeld

LEMMA ScanFailsIInv ==
    ASSUME IInv, ScanFails
    PROVE  IInv'
<1>1. TypeOK' /\ UNCHANGED streak
  BY ScanFailsTyped DEF IInv, ScanFails, history
<1>2. \A p \in Panes : agents'[p] \in {agents[p], "none"}
  BY UnexpiredFacts DEF IInv, ScanFails
<1>3. \A p \in Panes : pending'[p] = Resolvable(pending[p])
  BY DEF ScanFails
<1>4. HeldIsRechecked'
  BY NextScanTyped DEF ScanFails, HeldIsRechecked
<1>5. DroppedWhole'
  BY <1>3, ResolvableFacts DEF IInv, DroppedWhole
<1>6. StreakCovers'
  BY <1>1, <1>3, ResolvableFacts DEF IInv, StreakCovers
<1>7. PendingBelongsToWorking'
  BY <1>2, <1>3, ResolvableFacts DEF IInv, PendingBelongsToWorking
<1> QED
  BY <1>1, <1>4, <1>5, <1>6, <1>7 DEF IInv

\* What the history makes of a capture.
LEMMA StreakAfter ==
    ASSUME IInv, NEW frame, NEW attached, Scan(frame, attached), NEW p \in Panes
    PROVE  /\ p \in Resolved \ ProgramPanes /\ frame[p] = "none" => streak'[p] = streak[p]
           /\ p \in Resolved \ ProgramPanes /\ frame[p] = "idle" =>
                  /\ streak'[p].count = Least(streak[p].count + 1, MaxStreak)
                  /\ streak'[p].age = streak[p].age
           /\ ~(p \in Resolved \ ProgramPanes) \/ frame[p] \notin {"none", "idle"} =>
                  streak'[p].count = 0
<1>1. streak[p] \in [count : 0..MaxStreak, age : 0..Cap]
  BY DEF IInv, TypeOK
<1>2. streak'[p] =
        IF p \notin Resolved \/ p \in ProgramPanes THEN NoStreak
        ELSE IF frame[p] = "none" THEN streak[p]
        ELSE IF frame[p] # "idle" THEN NoStreak
        ELSE [streak[p] EXCEPT !.count = Least(@ + 1, MaxStreak)]
  BY DEF Scan
<1>3. NoStreak.count = 0
  BY DEF NoStreak
<1> QED
  BY <1>1, <1>2, <1>3

LEMMA ScanIInv ==
    ASSUME IInv, NEW frame, NEW attached, Scan(frame, attached)
    PROVE  IInv'
<1>1. TypeOK /\ TypeOK' /\ Captures(frame)
  BY ScanTyped DEF IInv, Scan
<1>2. ASSUME NEW p \in Panes
      PROVE  /\ pending'[p] = Resolvable(Confirmed(p, frame[p]))
             /\ agents'[p] = Recorded(p, frame[p])
  BY DEF Scan
<1>3. HeldIsRechecked'
  BY NextScanTyped DEF Scan, HeldIsRechecked
<1>4. ASSUME NEW p \in Panes
      PROVE  /\ pending'[p].held => agents'[p] \in {"working", "none"}
             /\ ~pending'[p].held => pending'[p] = NotHeld
             /\ pending'[p].held => /\ streak'[p].count >= pending'[p].confirmations + 1
                                    /\ streak'[p].age >= pending'[p].age
  <2>1. /\ pending[p] \in Confirming
        /\ streak[p] \in [count : 0..MaxStreak, age : 0..Cap]
        /\ ~pending[p].held => pending[p] = NotHeld
        /\ pending[p].held => /\ agents[p] \in {"working", "none"}
                              /\ streak[p].count >= pending[p].confirmations + 1
                              /\ streak[p].age >= pending[p].age
    BY DEF IInv, TypeOK, DroppedWhole, PendingBelongsToWorking, StreakCovers
  <2>2. CASE Confirmed(p, frame[p]) = NotHeld
    BY <1>2, <2>2, ResolvableFacts
  <2>3. CASE /\ Confirmed(p, frame[p]) = pending[p] /\ frame[p] = "none"
             /\ p \in Resolved \ ProgramPanes
             /\ Recorded(p, frame[p]) = Unexpired(p)
    <3>1. streak'[p] = streak[p]
      BY <2>3, StreakAfter
    <3>2. Unexpired(p) \in {agents[p], "none"}
      BY <1>1, UnexpiredFacts
    <3> QED
      BY <1>2, <2>1, <2>3, <3>1, <3>2, ResolvableFacts
  <2>4. CASE /\ Confirmed(p, frame[p]) = AfterHold(pending[p]) /\ frame[p] = "idle"
             /\ p \in Resolved \ ProgramPanes
             /\ Unexpired(p) = "working" /\ Recorded(p, frame[p]) = "working"
             /\ ShouldHold(pending[p], Unexpired(p), frame[p])
    <3> DEFINE after == AfterHold(pending[p])
    <3>1. /\ streak'[p].count = Least(streak[p].count + 1, MaxStreak)
          /\ streak'[p].age = streak[p].age
      BY <2>4, StreakAfter
    <3>2. streak[p].count \in Nat /\ streak[p].age \in Nat
      BY <2>1, ConstantFacts
    <3>3. /\ after \in Confirming /\ after.held
          /\ pending[p].held =>
                 /\ after.age = pending[p].age
                 /\ after.confirmations = pending[p].confirmations + 1
                 /\ pending[p].confirmations + 1 < Confirmations
          /\ ~pending[p].held => after = FirstHold
      BY <2>1, <2>4, AfterHoldTyped
    <3>4. streak'[p].count >= after.confirmations + 1 /\ streak'[p].age >= after.age
      <4>1. CASE pending[p].held
        <5>1. pending[p].confirmations \in Nat /\ pending[p].age \in Nat
          BY <2>1, ConstantFacts DEF Confirming
        <5>2. Least(streak[p].count + 1, MaxStreak) >= pending[p].confirmations + 2
          BY <2>1, <3>2, <3>3, <4>1, <5>1, ConstantFacts DEF Least
        <5> QED
          BY <2>1, <3>1, <3>3, <4>1, <5>1, <5>2
      <4>2. CASE ~pending[p].held
        <5>1. after.confirmations = 0 /\ after.age = 0
          BY <3>3, <4>2 DEF FirstHold
        <5>2. Least(streak[p].count + 1, MaxStreak) >= 1
          BY <3>2, ConstantFacts DEF Least
        <5> QED
          BY <3>1, <3>2, <5>1, <5>2
      <4> QED
        BY <4>1, <4>2
    <3>5. pending'[p] = after \/ pending'[p] = NotHeld
      BY <1>2, <2>4, ResolvableFacts
    <3>6. agents'[p] = "working"
      BY <1>2, <2>4
    <3> HIDE DEF after
    <3> QED
      BY <3>3, <3>4, <3>5, <3>6, ResolvableFacts
  <2> QED
    BY <1>1, <2>2, <2>3, <2>4, ConfirmedCases
<1> QED
  BY <1>1, <1>3, <1>4 DEF IInv, PendingBelongsToWorking, DroppedWhole, StreakCovers

LEMMA NextIInv == IInv /\ [Next]_vars => IInv'
<1> SUFFICES ASSUME IInv, [Next]_vars
             PROVE  IInv'
  OBVIOUS
<1>1. ASSUME NEW p \in Panes, EnvironmentStep(p)
      PROVE  IInv'
  BY <1>1, EnvironmentTyped, QuietIInv DEF IInv
<1>2. ASSUME NEW p \in Panes, ProgramStatus(p)
      PROVE  IInv'
  BY <1>2, ProgramStatusTyped, QuietIInv DEF IInv
<1>3. ASSUME NEW p \in Panes, Seen(p) \/ Exited(p)
      PROVE  IInv'
  BY <1>3, RequestIInv
<1>4. CASE Tick
  BY <1>4, TickIInv
<1>5. CASE ReloadConfig
  BY <1>5, ReloadIInv
<1>6. CASE ExpireStates
  BY <1>6, ExpireStatesIInv
<1>7. CASE ScanFails
  BY <1>7, ScanFailsIInv
<1>8. CASE ScanSucceeds
  BY <1>8, ScanIInv DEF ScanSucceeds
<1>9. CASE UNCHANGED vars
  BY <1>9 DEF vars, IInv, TypeOK, PendingBelongsToWorking, HeldIsRechecked, DroppedWhole,
              StreakCovers
<1> QED
  BY <1>1, <1>2, <1>3, <1>4, <1>5, <1>6, <1>7, <1>8, <1>9 DEF Next, ProcessDeadlines

-----------------------------------------------------------------------------
(* What a step may do *)

\* Every step but the daemon's deadlines.
RequestStep ==
    \/ \E p \in Panes : EnvironmentStep(p) \/ ProgramStatus(p) \/ Seen(p) \/ Exited(p)
    \/ Tick \/ ReloadConfig \/ UNCHANGED vars

LEMMA Steps ==
    [Next]_vars <=> \/ RequestStep \/ ExpireStates \/ ScanFails
                    \/ \E frame \in [Panes -> Frames \cup {"none"}], attached \in BOOLEAN :
                          Scan(frame, attached)
BY DEF Next, RequestStep, ProcessDeadlines, ScanSucceeds

\* Requests and the passing of time never take a screen deadline up, and of the
\* records they change only one that was seen or whose session ended.
LEMMA RequestStepFacts ==
    ASSUME IInv, RequestStep
    PROVE  /\ screenWait = 0 => screenWait' = 0
           /\ \A p \in Panes : agents'[p] = agents[p] \/ Seen(p) \/ Exited(p)
           /\ \A p \in Panes : agents'[p] # agents[p] => agents'[p] \in {"idle", "none"}
           /\ \A p \in Panes : agents'[p] = "idle" /\ agents[p] # "idle" => agents[p] = "done"
<1>1. agents \in [Panes -> AgentStates \cup {"none"}] /\ TypeOK
  BY DEF IInv, TypeOK
<1>2. ASSUME NEW p \in Panes, EnvironmentStep(p) \/ ProgramStatus(p)
      PROVE  UNCHANGED agents /\ (screenWait' = screenWait \/ screenWait' = 0)
  BY <1>1, <1>2, EnvironmentTyped, ProgramStatusTyped
<1>3. ASSUME NEW p \in Panes, Seen(p)
      PROVE  /\ screenWait' = screenWait
             /\ \A q \in Panes \ {p} : agents'[q] = agents[q]
             /\ agents[p] = "done" /\ agents'[p] = "idle"
  BY <1>1, <1>3 DEF Seen
<1>4. ASSUME NEW p \in Panes, Exited(p)
      PROVE  /\ screenWait' = screenWait
             /\ \A q \in Panes \ {p} : agents'[q] = agents[q]
             /\ agents'[p] = "none"
  BY <1>1, <1>4 DEF Exited
<1>5. CASE Tick
  BY <1>5 DEF Tick
<1>6. CASE ReloadConfig
  BY <1>6 DEF ReloadConfig
<1>7. CASE UNCHANGED vars
  BY <1>7 DEF vars
<1> QED
  BY <1>2, <1>3, <1>4, <1>5, <1>6, <1>7 DEF RequestStep

LEMMA ExpiryFacts ==
    ASSUME IInv, ExpireStates \/ ScanFails
    PROVE  \A p \in Panes : /\ agents'[p] \in {agents[p], "none"}
                            /\ agents[p] = "done" => agents'[p] = "done"
BY UnexpiredFacts DEF IInv, ExpireStates, ScanFails

LEMMA ConfirmationsEndStep ==
    ASSUME IInv, [Next]_vars, NEW p \in Panes,
           screenWait = 0, screenWait' > 0, pending'[p].held
    PROVE  pending[p].age < Cap
<1>1. pending[p] \in Confirming /\ (~pending[p].held => pending[p].age = 0)
  BY DEF IInv, TypeOK, DroppedWhole, NotHeld
<1>2. ~(pending[p].age >= Cap) => pending[p].age < Cap
  BY <1>1, ConstantFacts DEF Confirming
<1>3. ~RequestStep /\ ~ExpireStates
  BY RequestStepFacts DEF ExpireStates
<1>4. CASE ScanFails
  <2>1. pending'[p] = Resolvable(pending[p])
    BY <1>4 DEF ScanFails
  <2> QED
    BY <1>2, <2>1, ResolvableFacts
<1>5. ASSUME NEW frame, NEW attached, Scan(frame, attached)
      PROVE  pending[p].age < Cap
  <2>1. pending'[p] = Resolvable(Confirmed(p, frame[p]))
    BY <1>5 DEF Scan
  <2>2. Confirmed(p, frame[p]).held /\ ~(Confirmed(p, frame[p]).age >= Cap)
    BY <2>1, ResolvableFacts
  <2>3. TypeOK /\ Captures(frame)
    BY <1>5 DEF IInv, Scan
  <2>4. CASE Confirmed(p, frame[p]) = pending[p]
    BY <1>2, <2>2, <2>4
  <2>5. CASE /\ Confirmed(p, frame[p]) = AfterHold(pending[p])
             /\ ShouldHold(pending[p], Unexpired(p), frame[p])
    <3>1. CASE pending[p].held
      <4>1. AfterHold(pending[p]).age = pending[p].age
        BY <1>1, <2>5, <3>1, AfterHoldTyped
      <4> QED
        BY <1>2, <2>2, <2>5, <4>1
    <3>2. CASE ~pending[p].held
      BY <1>1, <3>2, ConstantFacts
    <3> QED
      BY <3>1, <3>2
  <2> QED
    BY <2>2, <2>3, <2>4, <2>5, ConfirmedCases, ResolvableFacts
<1> QED
  BY <1>3, <1>4, <1>5, Steps

LEMMA DoneUntilSeenStep ==
    ASSUME IInv, [Next]_vars, NEW p \in Panes, agents[p] = "done", agents'[p] # "done"
    PROVE  \/ Seen(p) \/ Exited(p)
           \/ agents'[p] \in ActiveStates \/ agent[p] = "absent"
<1>1. CASE RequestStep
  BY <1>1, RequestStepFacts
<1>2. CASE ExpireStates \/ ScanFails
  BY <1>2, ExpiryFacts
<1>3. ASSUME NEW frame, NEW attached, Scan(frame, attached)
      PROVE  agents'[p] \in ActiveStates \/ agent[p] = "absent"
  <2>1. TypeOK /\ Captures(frame) /\ agents'[p] = Recorded(p, frame[p])
    BY <1>3 DEF IInv, Scan
  <2> QED
    BY <2>1, RecordedTyped
<1> QED
  BY <1>1, <1>2, <1>3, Steps

LEMMA ReleaseNeedsEvidenceStep ==
    ASSUME IInv, [Next]_vars, NEW p \in Panes,
           agents[p] = "working", ~Expired(p),
           agents'[p] \in {"idle", "done"}, streak'[p].count > 0
    PROVE  \/ streak'[p].count >= Confirmations + 1
           \/ streak'[p].count >= 2 /\ streak[p].age >= Cap
<1>1. ~RequestStep /\ ~ExpireStates /\ ~ScanFails
  BY RequestStepFacts, ExpiryFacts
<1>2. ASSUME NEW frame, NEW attached, Scan(frame, attached)
      PROVE  \/ streak'[p].count >= Confirmations + 1
             \/ streak'[p].count >= 2 /\ streak[p].age >= Cap
  <2>1. Unexpired(p) = "working" /\ agents'[p] = Recorded(p, frame[p])
    BY <1>2, UnexpiredFacts DEF IInv, Scan
  <2>2. p \in Resolved \ ProgramPanes /\ frame[p] \in {"none", "idle"}
    BY <1>2, StreakAfter
  <2>3. Recorded(p, frame[p]) =
          IF \/ frame[p] \in {"none", "skip"}
             \/ ShouldHold(pending[p], Unexpired(p), frame[p])
          THEN Unexpired(p)
          ELSE ScreenDisplayState(Unexpired(p), frame[p], visible[p])
    BY <2>2 DEF Recorded
  <2>4. frame[p] = "idle" /\ ~ShouldHold(pending[p], "working", "idle")
    BY <2>1, <2>2, <2>3
  <2>5. /\ pending[p].held
        /\ ~(pending[p].age < Cap /\ pending[p].confirmations + 1 < Confirmations)
    BY <2>4 DEF ShouldHold, PlainWorkingToIdle
  <2>6. /\ streak[p].count >= pending[p].confirmations + 1
        /\ streak[p].age >= pending[p].age
    BY <2>5 DEF IInv, StreakCovers
  <2>7. streak'[p].count = Least(streak[p].count + 1, MaxStreak)
    BY <1>2, <2>2, <2>4, StreakAfter
  <2>8. /\ pending[p].age \in Nat /\ pending[p].confirmations \in Nat
        /\ streak[p].age \in Nat /\ streak[p].count \in Nat
    <3>1. pending[p] \in Confirming /\ streak[p] \in [count : 0..MaxStreak, age : 0..Cap]
      BY DEF IInv, TypeOK
    <3>2. /\ pending[p].age \in 0..Cap /\ pending[p].confirmations \in 0..Confirmations
          /\ streak[p].age \in 0..Cap /\ streak[p].count \in 0..MaxStreak
      BY <3>1 DEF Confirming
    <3> QED
      BY <3>2, ConstantFacts
  <2>9. CASE pending[p].confirmations + 1 >= Confirmations
    BY <2>6, <2>7, <2>8, <2>9, ConstantFacts DEF Least
  <2>10. CASE pending[p].age >= Cap
    BY <2>6, <2>7, <2>8, <2>10, ConstantFacts DEF Least
  <2> QED
    BY <2>5, <2>8, <2>9, <2>10, ConstantFacts
<1> QED
  BY <1>1, <1>2, Steps

-----------------------------------------------------------------------------
(* Without reports a turn is announced once *)

\* A daemon that no relay reports to has nothing but the captures to go by. A
\* record may say a turn is on only while one is, or until it is announced.
OwedInv ==
    /\ ~enabled
    /\ \A p \in Panes :
          agents[p] \in ActiveStates => owed[p] \/ agent[p] \in Active

LEMMA EnvironmentOwed ==
    ASSUME TypeOK, OwedInv, NEW p \in Panes, EnvironmentStep(p)
    PROVE  OwedInv'
<1>1. UNCHANGED <<agents, enabled>>
  BY EnvironmentTyped
<1>2. ASSUME NEW q \in Panes
      PROVE  owed[q] \/ agent[q] \in Active => owed'[q] \/ agent'[q] \in Active
  <2>1. agent \in [Panes -> Doings] /\ owed \in [Panes -> BOOLEAN]
    BY DEF TypeOK
  <2>2. CASE TurnStarts(p) \/ AgentAsks(p) \/ AgentAnswered(p) \/ AgentStarts(p)
    BY <2>1, <2>2 DEF TurnStarts, AgentAsks, AgentAnswered, AgentStarts, Active, history
  <2>3. CASE TurnEnds(p)
    BY <2>1, <2>3 DEF TurnEnds
  <2>4. CASE AgentExits(p)
    BY <2>1, <2>4 DEF AgentExits
  <2>5. CASE SpareReport(p) \/ RelayDies(p) \/ RelayReplaced(p) \/ OtherPipeEnds(p)
             \/ Look(p) \/ View(p)
    BY <2>5 DEF SpareReport, RelayDies, RelayReplaced, OtherPipeEnds, Look, View, history
  <2> QED
    BY <2>2, <2>3, <2>4, <2>5 DEF EnvironmentStep
<1> QED
  BY <1>1, <1>2 DEF OwedInv

\* A capture shows a turn only to one that is on, and an idle screen to one
\* that is over or to a redraw.
LEMMA ScanOwed ==
    ASSUME IInv, OwedInv, NEW frame, NEW attached, Scan(frame, attached), NEW p \in Panes
    PROVE  /\ agents'[p] \in ActiveStates => owed'[p] \/ agent'[p] \in Active
           /\ agents[p] # "done" /\ agents'[p] = "done" =>
                 owed[p] \/ (agent[p] = "working" /\ streak'[p].count > 0)
<1>1. /\ TypeOK /\ Captures(frame) /\ UNCHANGED agent
      /\ agents'[p] = Recorded(p, frame[p])
      /\ owed'[p] = (owed[p] /\ ~(agents[p] # "done" /\ agents'[p] = "done"))
  BY DEF IInv, Scan
<1>2. ~("done" \in ActiveStates) /\ ~("idle" \in ActiveStates) /\ ~("none" \in ActiveStates)
  BY DEF ActiveStates
<1>3. Unexpired(p) \in {agents[p], "none"}
  BY <1>1, UnexpiredFacts
<1>4. agents[p] \in ActiveStates => owed[p] \/ agent[p] \in Active
  BY DEF OwedInv
<1>5. CASE p \notin Resolved
  <2>1. agents'[p] = "none"
    BY <1>1, <1>5 DEF Recorded, ProgramPanes
  <2> QED
    BY <1>2, <2>1
<1>6. CASE p \in Resolved
  <2>1. p \in Resolved \ ProgramPanes
    BY <1>6 DEF ProgramPanes, OwedInv
  <2>2. Recorded(p, frame[p]) =
          IF \/ frame[p] \in {"none", "skip"}
             \/ ShouldHold(pending[p], Unexpired(p), frame[p])
          THEN Unexpired(p)
          ELSE ScreenDisplayState(Unexpired(p), frame[p], visible[p])
    BY <2>1 DEF Recorded
  <2>3. CASE Recorded(p, frame[p]) = Unexpired(p)
    BY <1>1, <1>2, <1>3, <1>4, <2>3
  <2>4. CASE /\ Recorded(p, frame[p]) =
                   ScreenDisplayState(Unexpired(p), frame[p], visible[p])
             /\ frame[p] \notin {"none", "skip"}
    <3>1. frame[p] \in Shown(p) /\ frame[p] \in Frames \ {"skip"}
      BY <1>1, <2>4, CapturedFrames
    <3>2. agent[p] \in {"resting", "working", "asking"}
      BY <1>1, <1>6 DEF TypeOK, Resolved, Doings
    <3>3. CASE frame[p] \in {"working", "blocked"}
      <4>1. agent[p] \in Active
        BY <3>1, <3>2, <3>3 DEF Shown, Active
      <4>2. agents'[p] = frame[p]
        BY <1>1, <2>4, <3>3 DEF ScreenDisplayState, DetectedState
      <4> QED
        BY <1>1, <3>3, <4>1, <4>2
    <3>4. CASE frame[p] \in {"idle", "visible_idle"}
      <4>1. agent[p] = "resting" \/ (agent[p] = "working" /\ frame[p] = "idle")
        BY <3>1, <3>2, <3>4 DEF Shown
      <4>2. /\ agents'[p] \in {"idle", "done"}
            /\ agents'[p] = "done" => Unexpired(p) = "done" \/ Unexpired(p) \in ActiveStates
        BY <1>1, <2>4, <3>4 DEF ScreenDisplayState, DetectedState
      <4>3. frame[p] = "idle" => streak'[p].count > 0
        <5>1. streak[p].count \in Nat
          BY <1>1, ConstantFacts DEF TypeOK
        <5>2. Least(streak[p].count + 1, MaxStreak) > 0
          BY <5>1, ConstantFacts DEF Least
        <5> QED
          BY <2>1, <5>2, StreakAfter
      <4>4. agent[p] = "resting" => ~(agent[p] \in Active)
        BY DEF Active
      <4> QED
        BY <1>2, <1>3, <1>4, <4>1, <4>2, <4>3, <4>4
    <3> QED
      BY <3>1, <3>3, <3>4 DEF Frames
  <2> QED
    BY <2>2, <2>3, <2>4
<1> QED
  BY <1>5, <1>6

LEMMA NextOwed ==
    ASSUME Reports = {}, IInv, OwedInv, [Next]_vars
    PROVE  OwedInv'
<1>1. ASSUME NEW p \in Panes, EnvironmentStep(p)
      PROVE  OwedInv'
  BY <1>1, EnvironmentOwed DEF IInv
<1>2. ASSUME NEW p \in Panes, ProgramStatus(p)
      PROVE  OwedInv'
  BY <1>2 DEF ProgramStatus, ApplyProgramStatus, OwedInv, history
<1>3. ASSUME NEW p \in Panes, Seen(p) \/ Exited(p)
      PROVE  OwedInv'
  <2>1. UNCHANGED <<agent, enabled, owed>> /\ agents \in [Panes -> AgentStates \cup {"none"}]
    BY <1>3 DEF Seen, Exited, IInv, TypeOK, environment, history
  <2>2. \A q \in Panes : agents'[q] \in {agents[q], "idle", "none"}
    BY <1>3, <2>1 DEF Seen, Exited
  <2> QED
    BY <2>1, <2>2 DEF OwedInv, ActiveStates
<1>4. CASE Tick \/ UNCHANGED vars
  BY <1>4 DEF Tick, vars, OwedInv, environment
<1>5. CASE ReloadConfig
  <2>1. enabled' \in {FALSE}
    BY <1>5 DEF ReloadConfig
  <2> QED
    BY <1>5, <2>1 DEF ReloadConfig, OwedInv, history
<1>6. CASE ExpireStates \/ ScanFails
  <2>1. \A p \in Panes : agents'[p] \in {agents[p], "none"}
    BY <1>6, ExpiryFacts
  <2>2. UNCHANGED <<agent, enabled, owed>>
    BY <1>6 DEF ExpireStates, ScanFails, environment, history
  <2> QED
    BY <2>1, <2>2 DEF OwedInv, ActiveStates
<1>7. ASSUME NEW frame, NEW attached, Scan(frame, attached)
      PROVE  OwedInv'
  <2>1. enabled' = enabled
    BY <1>7 DEF Scan
  <2> QED
    BY <1>7, <2>1, ScanOwed DEF OwedInv
<1> QED
  BY <1>1, <1>2, <1>3, <1>4, <1>5, <1>6, <1>7 DEF Next, ProcessDeadlines, ScanSucceeds

LEMMA AnnouncedOnceStep ==
    ASSUME IInv, OwedInv, [Next]_vars, NEW p \in Panes,
           agents[p] # "done", agents'[p] = "done"
    PROVE  owed[p] \/ (agent[p] = "working" /\ streak'[p].count > 0)
<1>1. ~RequestStep /\ ~ExpireStates /\ ~ScanFails
  BY RequestStepFacts, ExpiryFacts
<1> QED
  BY <1>1, ScanOwed, Steps

-----------------------------------------------------------------------------
(* The refinement: panes without reports show turns as PaneTurns promises *)

Stale == [p \in Panes |-> Expired(p)]

LEMMA StaleKept ==
    ASSUME UNCHANGED <<agents, age>>
    PROVE  Stale' = Stale
BY DEF Stale, Expired

\* What the steps that leave the pane's record do to it.
LEMMA ActsRefines ==
    ASSUME TypeOK, NEW p \in Panes, EnvironmentStep(p)
    PROVE  [Turns!Next]_(Turns!vars)
<1>1. UNCHANGED <<agents, age>> /\ Stale' = Stale
  BY EnvironmentTyped, StaleKept
<1>2. agent \in [Panes -> Doings] /\ owed \in [Panes -> BOOLEAN] /\ visible \in [Panes -> BOOLEAN]
  BY DEF TypeOK
<1>3. ASSUME NEW d \in Turns!After(agent[p]), agent' = [agent EXCEPT ![p] = d],
             owed' = [owed EXCEPT ![p] = @ \/ (agent[p] \in Turns!InTurn /\ d \notin Turns!InTurn)],
             visible' = visible
      PROVE  Turns!Next
  <2>1. Turns!Acts(p)
    BY <1>1, <1>3 DEF Turns!Acts, Stale
  <2> QED
    BY <2>1 DEF Turns!Next
<1>4. CASE TurnStarts(p)
  <2>1. agent[p] = "resting" /\ "working" \in Turns!After(agent[p])
    BY <1>4 DEF TurnStarts, Turns!After
  <2>2. owed' = [owed EXCEPT ![p] = @ \/ (agent[p] \in Turns!InTurn /\ "working" \notin Turns!InTurn)]
    BY <1>2, <1>4 DEF TurnStarts, Turns!InTurn, history
  <2> QED
    BY <1>3, <1>4, <2>1, <2>2 DEF TurnStarts
<1>5. CASE AgentAsks(p)
  <2>1. agent[p] = "working" /\ "asking" \in Turns!After(agent[p])
    BY <1>5 DEF AgentAsks, Turns!After
  <2>2. owed' = [owed EXCEPT ![p] = @ \/ (agent[p] \in Turns!InTurn /\ "asking" \notin Turns!InTurn)]
    BY <1>2, <1>5 DEF AgentAsks, Turns!InTurn, history
  <2> QED
    BY <1>3, <1>5, <2>1, <2>2 DEF AgentAsks
<1>6. CASE AgentAnswered(p)
  <2>1. agent[p] = "asking" /\ "working" \in Turns!After(agent[p])
    BY <1>6 DEF AgentAnswered, Turns!After
  <2>2. owed' = [owed EXCEPT ![p] = @ \/ (agent[p] \in Turns!InTurn /\ "working" \notin Turns!InTurn)]
    BY <1>2, <1>6 DEF AgentAnswered, Turns!InTurn, history
  <2> QED
    BY <1>3, <1>6, <2>1, <2>2 DEF AgentAnswered
<1>7. CASE TurnEnds(p)
  <2>1. agent[p] \in {"working", "asking"} /\ "resting" \in Turns!After(agent[p])
    BY <1>7 DEF TurnEnds, Active, Turns!After
  <2>2. owed' = [owed EXCEPT ![p] = @ \/ (agent[p] \in Turns!InTurn /\ "resting" \notin Turns!InTurn)]
    BY <1>2, <1>7, <2>1 DEF TurnEnds, Turns!InTurn
  <2> QED
    BY <1>3, <1>7, <2>1, <2>2 DEF TurnEnds
<1>8. CASE AgentExits(p)
  <2>1. agent[p] \in {"resting", "working", "asking"} /\ "absent" \in Turns!After(agent[p])
    BY <1>2, <1>8 DEF AgentExits, Doings, Turns!After
  <2>2. owed' = [owed EXCEPT ![p] = @ \/ (agent[p] \in Turns!InTurn /\ "absent" \notin Turns!InTurn)]
    BY <1>2, <1>8 DEF AgentExits, Active, Turns!InTurn
  <2> QED
    BY <1>3, <1>8, <2>1, <2>2 DEF AgentExits
<1>9. CASE AgentStarts(p)
  <2>1. agent[p] = "absent" /\ "resting" \in Turns!After(agent[p])
    BY <1>9 DEF AgentStarts, Turns!After
  <2>2. owed' = [owed EXCEPT ![p] = @ \/ (agent[p] \in Turns!InTurn /\ "resting" \notin Turns!InTurn)]
    BY <1>2, <1>9, <2>1 DEF AgentStarts, Turns!InTurn, history
  <2> QED
    BY <1>3, <1>9, <2>1, <2>2 DEF AgentStarts
<1>10. CASE SpareReport(p) \/ RelayDies(p) \/ RelayReplaced(p) \/ OtherPipeEnds(p) \/ View(p)
  <2>1. UNCHANGED <<agent, visible, owed>>
    BY <1>10 DEF SpareReport, RelayDies, RelayReplaced, OtherPipeEnds, View, history
  <2> QED
    BY <1>1, <2>1 DEF Turns!vars, Stale
<1>11. CASE Look(p)
  <2>1. Turns!Watches(p)
    BY <1>1, <1>11 DEF Look, Turns!Watches, Stale, history
  <2> QED
    BY <2>1 DEF Turns!Next
<1> QED
  BY <1>4, <1>5, <1>6, <1>7, <1>8, <1>9, <1>10, <1>11 DEF EnvironmentStep

LEMMA OpensAndCloses ==
    ASSUME TypeOK, NEW p \in Panes, Seen(p) \/ Exited(p)
    PROVE  [Turns!Next]_(Turns!vars)
<1>1. /\ agents \in [Panes -> AgentStates \cup {"none"}] /\ age \in [Panes -> 0..MaxAge]
      /\ UNCHANGED <<agent, visible, owed>>
  BY DEF TypeOK, Seen, Exited, environment, history
<1>2. CASE Seen(p)
  <2>1. ASSUME NEW q \in Panes
        PROVE  Expired(q)' = Expired(q)
    BY <1>1, <1>2 DEF Seen, Expired, ActiveStates
  <2>2. Stale' = Stale
    BY <2>1 DEF Stale
  <2>3. Turns!Opens(p)
    BY <1>1, <1>2, <2>2 DEF Seen, Turns!Opens, Stale
  <2> QED
    BY <2>3 DEF Turns!Next
<1>3. CASE Exited(p)
  <2>1. ASSUME NEW q \in Panes
        PROVE  Expired(q)' = IF q = p THEN FALSE ELSE Expired(q)
    BY <1>1, <1>3 DEF Exited, Expired, ActiveStates
  <2>2. Stale' = [Stale EXCEPT ![p] = FALSE]
    BY <2>1 DEF Stale
  <2>3. Turns!Closes(p)
    BY <1>1, <1>3, <2>2 DEF Exited, Turns!Closes, Stale
  <2> QED
    BY <2>3 DEF Turns!Next
<1> QED
  BY <1>2, <1>3

LEMMA TickRefines ==
    ASSUME TypeOK, Tick
    PROVE  Turns!Next
<1>1. UNCHANGED <<agent, visible, agents, owed>>
  BY DEF Tick, environment
<1>2. ASSUME NEW p \in Panes
      PROVE  /\ Expired(p) => Expired(p)'
             /\ Expired(p)' => agents[p] \in Turns!ShowsTurn
  <2>1. /\ age[p] \in Nat /\ age[p] <= MaxAge /\ MaxAge \in Nat /\ StateTtl \in Nat
        /\ age'[p] = IF agents[p] \in ActiveStates THEN Least(age[p] + 1, MaxAge) ELSE 0
    BY ConstantFacts DEF TypeOK, Tick
  <2>2. Expired(p)' => agents[p] \in Turns!ShowsTurn
    BY <1>1 DEF Expired, Turns!ShowsTurn, ActiveStates
  <2>3. ASSUME Expired(p) PROVE Expired(p)'
    <3>1. age'[p] > StateTtl
      BY <2>1, <2>3 DEF Expired, Least
    <3> QED
      BY <1>1, <2>3, <3>1 DEF Expired
  <2> QED
    BY <2>2, <2>3
<1>3. Stale' \in [Panes -> BOOLEAN]
  BY DEF Stale, Expired
<1>4. Turns!Ages
  BY <1>1, <1>2, <1>3 DEF Turns!Ages, Stale
<1> QED
  BY <1>4 DEF Turns!Next

\* A record that was renewed or replaced is not stale.
LEMMA RenewedIsFresh ==
    ASSUME TypeOK, NEW p \in Panes, age'[p] = RecordedAge(p, agents'[p])
    PROVE  ~Expired(p)'
<1>1. age[p] \in Nat /\ StateTtl \in Nat
  BY ConstantFacts DEF TypeOK
<1>2. CASE agents'[p] = agents[p] /\ ~Expired(p) /\ agents'[p] \in ActiveStates
  BY <1>1, <1>2 DEF RecordedAge, Expired
<1>3. CASE ~(agents'[p] = agents[p] /\ ~Expired(p) /\ agents'[p] \in ActiveStates)
  <2>1. age'[p] = 0
    BY <1>3 DEF RecordedAge
  <2> QED
    BY <1>1, <2>1 DEF Expired
<1> QED
  BY <1>2, <1>3

LEMMA Refreshing ==
    ASSUME TypeOK, TypeOK', UNCHANGED <<agent, visible>>,
           \A p \in Panes : /\ agents'[p] \in Turns!Views(p)
                            /\ age'[p] = RecordedAge(p, agents'[p])
                            /\ owed'[p] = (owed[p] /\ ~(agents[p] # "done" /\ agents'[p] = "done"))
    PROVE  Turns!Next
<1>1. /\ agents' \in [Panes -> {"none", "idle", "working", "blocked", "done"}]
      /\ owed' \in [Panes -> BOOLEAN]
  BY DEF TypeOK, AgentStates
<1>2. Stale' = [p \in Panes |-> FALSE]
  BY RenewedIsFresh DEF Stale, Expired
<1>3. owed' = [p \in Panes |-> owed[p] /\ ~(agents[p] # "done" /\ agents'[p] = "done")]
  BY <1>1
<1>4. Turns!Refreshes
  BY <1>1, <1>2, <1>3 DEF Turns!Refreshes, Stale
<1> QED
  BY <1>4 DEF Turns!Next

LEMMA FreshIsUnexpired ==
    ASSUME NEW p \in Panes
    PROVE  Turns!Fresh(p) = Unexpired(p) /\ Turns!Fresh(p) \in Turns!Views(p)
BY DEF Turns!Fresh, Turns!Views, Unexpired

LEMMA ExpiryRefines ==
    ASSUME IInv, TypeOK', ExpireStates \/ ScanFails
    PROVE  Turns!Next
<1>1. /\ UNCHANGED <<agent, visible, owed>>
      /\ agents' = [p \in Panes |-> Unexpired(p)]
      /\ age' = [p \in Panes |-> RecordedAge(p, Unexpired(p))]
  BY DEF ExpireStates, ScanFails, environment, history
<1>2. ASSUME NEW p \in Panes
      PROVE  /\ agents'[p] \in Turns!Views(p)
             /\ age'[p] = RecordedAge(p, agents'[p])
             /\ owed'[p] = (owed[p] /\ ~(agents[p] # "done" /\ agents'[p] = "done"))
  <2>1. agents'[p] = "done" => agents[p] = "done"
    BY <1>1 DEF Unexpired
  <2>2. owed[p] \in BOOLEAN
    BY DEF IInv, TypeOK
  <2> QED
    BY <1>1, <2>1, <2>2, FreshIsUnexpired
<1> QED
  BY <1>1, <1>2, Refreshing DEF IInv

\* What Views lets a pane show next, for each thing its agent may be doing.
LEMMA ViewCases ==
    ASSUME NEW p \in Panes, NEW s
    PROVE  /\ agent[p] = "absent" /\ s = "none" => s \in Turns!Views(p)
           /\ agent[p] = "working" /\ s = "working" => s \in Turns!Views(p)
           /\ agent[p] = "asking" /\ s = "blocked" => s \in Turns!Views(p)
           /\ agent[p] \in {"resting", "working"} /\ s \in Turns!Over(p) => s \in Turns!Views(p)
<1>1. CASE agent[p] = "absent"
  BY <1>1 DEF Turns!Views
<1>2. CASE agent[p] = "resting"
  BY <1>2 DEF Turns!Views
<1>3. CASE agent[p] = "working"
  BY <1>3 DEF Turns!Views
<1>4. CASE agent[p] = "asking"
  BY <1>4 DEF Turns!Views
<1> QED
  BY <1>1, <1>2, <1>3, <1>4

\* An idle capture shows the end of the turn that the pane showed, if there was one.
LEMMA IdleIsOver ==
    ASSUME TypeOK, OwedInv, NEW p \in Panes, agent[p] \in {"resting", "working"},
           NEW f \in {"idle", "visible_idle"}
    PROVE  ScreenDisplayState(Unexpired(p), f, visible[p]) \in Turns!Over(p)
<1>1. Unexpired(p) = Turns!Fresh(p) /\ Unexpired(p) \in {agents[p], "none"}
  BY FreshIsUnexpired, UnexpiredFacts
<1>2. DetectedState(f) = "idle"
  BY DEF DetectedState
<1>3. CASE Unexpired(p) \in ActiveStates /\ ~visible[p]
  <2>1. ScreenDisplayState(Unexpired(p), f, visible[p]) = "done"
    BY <1>2, <1>3 DEF ScreenDisplayState, ActiveStates
  <2>2. owed[p] \/ agent[p] = "working"
    BY <1>1, <1>3 DEF OwedInv, Active, ActiveStates
  <2> QED
    BY <1>1, <1>3, <2>1, <2>2 DEF Turns!Over, Turns!ShowsTurn, ActiveStates
<1>4. CASE Unexpired(p) \in ActiveStates /\ visible[p]
  <2>1. ScreenDisplayState(Unexpired(p), f, visible[p]) = "idle"
    BY <1>2, <1>4 DEF ScreenDisplayState, ActiveStates
  <2> QED
    BY <1>1, <1>4, <2>1 DEF Turns!Over, ActiveStates
<1>5. CASE Unexpired(p) \notin ActiveStates
  <2>1. ScreenDisplayState(Unexpired(p), f, visible[p]) =
          IF Unexpired(p) = "done" THEN "done" ELSE "idle"
    BY <1>2, <1>5 DEF ScreenDisplayState
  <2> QED
    BY <1>1, <1>5, <2>1 DEF Turns!Over, Turns!ShowsTurn, ActiveStates
<1> QED
  BY <1>3, <1>4, <1>5

LEMMA RecordedIsView ==
    ASSUME TypeOK, OwedInv, NEW frame, Captures(frame), NEW p \in Panes
    PROVE  Recorded(p, frame[p]) \in Turns!Views(p)
<1>1. CASE p \notin Resolved
  BY <1>1, ViewCases DEF Recorded, ProgramPanes, Resolved
<1>2. CASE p \in Resolved
  <2>1. p \in Resolved \ ProgramPanes
    BY <1>2 DEF ProgramPanes, OwedInv
  <2>2. Recorded(p, frame[p]) =
          IF \/ frame[p] \in {"none", "skip"}
             \/ ShouldHold(pending[p], Unexpired(p), frame[p])
          THEN Unexpired(p)
          ELSE ScreenDisplayState(Unexpired(p), frame[p], visible[p])
    BY <2>1 DEF Recorded
  <2>3. CASE Recorded(p, frame[p]) = Unexpired(p)
    BY <2>3, FreshIsUnexpired
  <2>4. CASE /\ Recorded(p, frame[p]) =
                   ScreenDisplayState(Unexpired(p), frame[p], visible[p])
             /\ frame[p] \notin {"none", "skip"}
    <3>1. frame[p] \in Shown(p) /\ frame[p] \in Frames \ {"skip"}
      BY <2>4, CapturedFrames
    <3>2. agent[p] \in {"resting", "working", "asking"}
      BY <1>2 DEF TypeOK, Resolved, Doings
    <3>3. CASE frame[p] \in {"working", "blocked"}
      <4>1. \/ agent[p] = "working" /\ frame[p] = "working"
            \/ agent[p] = "asking" /\ frame[p] = "blocked"
        BY <3>1, <3>2, <3>3 DEF Shown
      <4>2. Recorded(p, frame[p]) = frame[p]
        BY <2>4, <3>3 DEF ScreenDisplayState, DetectedState
      <4> QED
        BY <4>1, <4>2, ViewCases
    <3>4. CASE frame[p] \in {"idle", "visible_idle"}
      <4>1. agent[p] \in {"resting", "working"}
        BY <3>1, <3>2, <3>4 DEF Shown
      <4> QED
        BY <2>4, <3>4, <4>1, IdleIsOver, ViewCases
    <3> QED
      BY <3>1, <3>3, <3>4 DEF Frames
  <2> QED
    BY <2>2, <2>3, <2>4
<1> QED
  BY <1>1, <1>2

LEMMA ScanRefines ==
    ASSUME IInv, TypeOK', OwedInv, NEW frame, NEW attached, Scan(frame, attached)
    PROVE  Turns!Next
<1>1. TypeOK /\ Captures(frame) /\ UNCHANGED <<agent, visible>>
  BY DEF IInv, Scan
<1>2. ASSUME NEW p \in Panes
      PROVE  /\ agents'[p] \in Turns!Views(p)
             /\ age'[p] = RecordedAge(p, agents'[p])
             /\ owed'[p] = (owed[p] /\ ~(agents[p] # "done" /\ agents'[p] = "done"))
  BY <1>1, RecordedIsView DEF Scan
<1> QED
  BY <1>1, <1>2, Refreshing

LEMMA NextRefines ==
    ASSUME IInv, TypeOK', OwedInv, [Next]_vars
    PROVE  [Turns!Next]_(Turns!vars)
<1>1. CASE \E p \in Panes : EnvironmentStep(p)
  BY <1>1, ActsRefines DEF IInv
<1>2. CASE (\E p \in Panes : ProgramStatus(p)) \/ ReloadConfig \/ UNCHANGED vars
  <2>1. UNCHANGED <<agent, visible, agents, age, owed>>
    BY <1>2 DEF ProgramStatus, ApplyProgramStatus, ReloadConfig, vars, history
  <2>2. Stale' = Stale
    BY <2>1, StaleKept
  <2> QED
    BY <2>1, <2>2 DEF Turns!vars, Stale
<1>3. CASE \E p \in Panes : Seen(p) \/ Exited(p)
  BY <1>3, OpensAndCloses DEF IInv
<1>4. CASE Tick
  BY <1>4, TickRefines DEF IInv
<1>5. CASE ExpireStates \/ ScanFails
  BY <1>5, ExpiryRefines
<1>6. ASSUME NEW frame, NEW attached, Scan(frame, attached)
      PROVE  Turns!Next
  BY <1>6, ScanRefines
<1> QED
  BY <1>1, <1>2, <1>3, <1>4, <1>5, <1>6 DEF Next, ProcessDeadlines, ScanSucceeds

LEMMA InitRefines == Init => Turns!Init
<1>1. SUFFICES ASSUME Init PROVE Turns!Init
  OBVIOUS
<1>2. Stale = [p \in Panes |-> FALSE]
  BY <1>1 DEF Init, Stale, Expired, ActiveStates
<1> QED
  BY <1>1, <1>2 DEF Init, Turns!Init, Stale

-----------------------------------------------------------------------------
(* The theorems *)

\* Every reachable state is well typed, whatever scans fail and however often
\* the configuration is reloaded.
THEOREM TypeCorrect == Spec => []TypeOK
<1>1. IInv => TypeOK
  BY DEF IInv
<1> QED
  BY InitIInv, NextIInv, <1>1, PTL DEF Spec

\* No handler leaves a confirmation behind for a record that no longer says
\* "working" (apply_seen, apply_exit, apply_program_status, replace_config).
THEOREM PendingBelongs == Spec => []PendingBelongsToWorking
<1>1. IInv => PendingBelongsToWorking
  BY DEF IInv
<1> QED
  BY InitIInv, NextIInv, <1>1, PTL DEF Spec

\* An open confirmation is never left to the regular scan interval
\* (next_screen_deadline), even after a failed listing.
THEOREM HeldRechecked == Spec => []HeldIsRechecked
<1>1. IInv => HeldIsRechecked
  BY DEF IInv
<1> QED
  BY InitIInv, NextIInv, <1>1, PTL DEF Spec

\* Every scan drops the confirmations that are Cap ticks old, also one that
\* learns nothing (retain_resolvable_idle_confirmations).
THEOREM ConfirmationsAreEnded == Spec => ConfirmationsEnd
<1>1. IInv /\ [Next]_vars =>
        [\A p \in Panes :
            screenWait = 0 /\ screenWait' > 0 /\ pending'[p].held
              => pending[p].age < Cap]_vars
  BY ConfirmationsEndStep
<1> QED
  BY InitIInv, NextIInv, <1>1, PTL DEF Spec, ConfirmationsEnd

\* "done" outlives every scan, report, expiry and reload until the pane is
\* seen, starts a turn or loses its agent (screen_display_state,
\* program_display_state).
THEOREM DoneStays == Spec => DoneUntilSeen
<1>1. IInv /\ [Next]_vars =>
        [\A p \in Panes :
            agents[p] = "done" /\ agents'[p] # "done"
              => \/ Seen(p) \/ Exited(p)
                 \/ agents'[p] \in ActiveStates \/ agent[p] = "absent"]_vars
  BY DoneUntilSeenStep
<1> QED
  BY InitIInv, NextIInv, <1>1, PTL DEF Spec, DoneUntilSeen

\* A plain idle screen ends "working" only after the captures that
\* PendingIdleConfirmation asks for were really made, in a row.
THEOREM ReleasedOnEvidence == Spec => ReleaseNeedsEvidence
<1>1. IInv /\ [Next]_vars =>
        [\A p \in Panes :
            agents[p] = "working" /\ ~Expired(p)
            /\ agents'[p] \in {"idle", "done"} /\ streak'[p].count > 0
              => \/ streak'[p].count >= Confirmations + 1
                 \/ streak'[p].count >= 2 /\ streak[p].age >= Cap]_vars
  BY ReleaseNeedsEvidenceStep
<1> QED
  BY InitIInv, NextIInv, <1>1, PTL DEF Spec, ReleaseNeedsEvidence

\* Without relays a turn that ended becomes "done" at most once, and nothing
\* but a redraw taken for an idle prompt becomes "done" too early
\* (screen_display_state). With reports the run panes_reflagged refutes it.
THEOREM AnnouncedAtMostOnce ==
    ASSUME Reports = {}
    PROVE  Spec => AnnouncedOnce
<1>1. Init => OwedInv
  BY DEF Init, OwedInv, ActiveStates
<1>2. IInv /\ OwedInv /\ [Next]_vars => OwedInv'
  BY NextOwed
<1>3. IInv /\ OwedInv /\ [Next]_vars =>
        [\A p \in Panes :
            agents[p] # "done" /\ agents'[p] = "done"
              => owed[p] \/ (agent[p] = "working" /\ streak'[p].count > 0)]_vars
  BY AnnouncedOnceStep
<1> QED
  BY InitIInv, NextIInv, <1>1, <1>2, <1>3, PTL DEF Spec, AnnouncedOnce

\* Whatever the scans capture, hold back, miss or let expire, panes without
\* reports show turns as PaneTurns promises (screen_display_state,
\* PendingIdleConfirmation, expire_states, apply_seen, apply_exit).
THEOREM TurnsAreShown ==
    ASSUME Reports = {}
    PROVE  Spec => TurnsImplemented
<1>1. Init => OwedInv
  BY DEF Init, OwedInv, ActiveStates
<1>2. IInv /\ OwedInv /\ [Next]_vars => OwedInv'
  BY NextOwed
<1>3. IInv /\ IInv' /\ OwedInv /\ [Next]_vars => [Turns!Next]_(Turns!vars)
  BY NextRefines DEF IInv
<1> QED
  BY InitIInv, NextIInv, InitRefines, <1>1, <1>2, <1>3, PTL
  DEF Spec, TurnsImplemented, Turns!Spec

=============================================================================
