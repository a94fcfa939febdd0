---------------------------- MODULE ScreenRules ----------------------------
(***************************************************************************)
(* The pure decisions of the state daemon about one agent pane: what a     *)
(* captured screen or an OSC 7501 report makes of the state the pane had,  *)
(* and how long a redraw may be mistaken for an idle prompt.               *)
(*                                                                         *)
(* Durations are counted in ticks of a clock the using module owns.        *)
(***************************************************************************)
EXTENDS Naturals

CONSTANTS
    Cap,             \* PENDING_IDLE_CAP
    Confirmations    \* PENDING_IDLE_CONFIRMATIONS

ASSUME RulesAssumption ==
    /\ Cap \in Nat \ {0}
    /\ Confirmations \in Nat \ {0}

AgentStates == {"idle", "working", "blocked", "done"}

\* What the detectors make of a capture: "visible_idle" is an idle prompt that
\* is plainly on screen, "idle" only the absence of anything else, and "skip" a
\* screen (a transcript viewer) that says nothing about the agent.
Frames == {"working", "blocked", "idle", "visible_idle", "skip"}

\* Mutant: the detector's "visible_idle" reaches the record.
RawDetectedState(frame) == frame

DetectedState(frame) == IF frame = "visible_idle" THEN "idle" ELSE frame

ActiveStates == {"working", "blocked"}

\* An entry of pending_idle_confirmations; an absent one is NotHeld.
Confirming == [held : BOOLEAN, age : 0..Cap, confirmations : 0..Confirmations]
NotHeld == [held |-> FALSE, age |-> 0, confirmations |-> 0]
FirstHold == [held |-> TRUE, age |-> 0, confirmations |-> 0]

\* Only a screen that merely looks idle may be a redraw of a working agent.
PlainWorkingToIdle(previous, frame) == previous = "working" /\ frame = "idle"

\* Mutant: a confirmation too few.
ShouldHoldTooShort(confirming, previous, frame) ==
    /\ PlainWorkingToIdle(previous, frame)
    /\ \/ ~confirming.held
       \/ /\ confirming.age < Cap
          /\ confirming.confirmations + 2 < Confirmations

\* PendingIdleConfirmation::should_hold: the first sight of such a screen, and
\* those after it until Cap ticks or Confirmations further captures agree.
ShouldHold(confirming, previous, frame) ==
    /\ PlainWorkingToIdle(previous, frame)
    /\ \/ ~confirming.held
       \/ /\ confirming.age < Cap
          /\ confirming.confirmations + 1 < Confirmations

AfterHold(confirming) ==
    IF confirming.held
    THEN [confirming EXCEPT !.confirmations = @ + 1]
    ELSE FirstHold

\* Mutant: a turn that ends while the agent asks is not announced.
ScreenDisplayMisses(previous, frame, watched) ==
    IF DetectedState(frame) # "idle" THEN DetectedState(frame)
    ELSE IF previous = "done" \/ (previous = "working" /\ ~watched) THEN "done" ELSE "idle"

\* The state a captured screen gives a pane whose record said `previous`
\* ("none": no record). A finished turn nobody watched is "done", and "done"
\* outlives every idle screen.
ScreenDisplayState(previous, frame, watched) ==
    CASE DetectedState(frame) # "idle"                -> DetectedState(frame)
      [] DetectedState(frame) = "idle" /\ previous = "done"
                                                      -> "done"
      [] DetectedState(frame) = "idle" /\ previous \in ActiveStates
                                                      -> IF watched THEN "idle" ELSE "done"
      [] OTHER                                        -> "idle"

ProgramStates == {"working", "blocked", "done", "error", "idle", "clear"}
Completions == {"done", "error"}

\* Mutant: an idle report takes "done" away.
ProgramDisplayForgets(report, completion, previous, watched) ==
    IF report \in ActiveStates THEN report
    ELSE IF completion /\ ~watched THEN "done" ELSE "idle"

\* The state a stored report gives a pane: the program itself says when a turn
\* is over, so "done" needs an unconsumed completion and not an earlier state.
ProgramDisplayState(report, completion, previous, watched) ==
    CASE report \in ActiveStates                        -> report
      [] report \notin ActiveStates /\ previous = "done" -> "done"
      [] report \notin ActiveStates /\ previous # "done"
                                                        -> IF completion /\ ~watched
                                                           THEN "done" ELSE "idle"
=============================================================================
