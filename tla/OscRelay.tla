------------------------------- MODULE OscRelay -------------------------------
(***************************************************************************)
(* The relay that tmux pipes a pane's output to (daemon/src/               *)
(* program_status_relay.rs): it scans the bytes as they come, takes the    *)
(* OSC strings out, and sends a request for each that is an OSC 7501       *)
(* report. Reads end anywhere, also within a sequence; strings that are    *)
(* aborted, never end or are too long must neither be reported nor hide    *)
(* the reports that follow. When its input ends it withdraws the report.   *)
(*                                                                         *)
(* Bytes are classes: those the scanner tells apart, and one "byte" per    *)
(* report, which stands for the text of a well-formed OSC 7501 record.     *)
(***************************************************************************)
EXTENDS Naturals, Sequences

CONSTANTS
    Reports,         \* program states that records in the stream name
    MaxOscBytes,     \* MAX_OSC_BYTES
    MaxStream,       \* bytes of output
    MaxRead          \* bytes of one read

ASSUME RelayAssumption ==
    /\ MaxOscBytes \in Nat /\ MaxStream \in Nat /\ MaxRead \in Nat \ {0}
    /\ Reports \subseteq {"idle", "working", "blocked", "done", "error"}

\* "cancel" stands for CANCEL and SUBSTITUTE, "]" and "\\" are ordinary bytes
\* except after an ESCAPE.
Enders == {"escape", "bell", "cancel"}
Bytes == Enders \cup {"]", "\\"} \cup Reports
States == Reports \cup {"clear"}

ScanStates == {"Ground", "Escape", "Osc", "OscEscape"}

VARIABLES
    scanner,         \* OscScanner: its state, body and overflowed
    unread,          \* how many bytes of the buffer are not yet scanned
    ended,           \* the input ended or failed, and the relay has returned
    stream,          \* history: the bytes scanned so far
    sent             \* requests sent, each with the bytes scanned until then

vars == <<scanner, unread, ended, stream, sent>>

Scanners == [state : ScanStates, body : Seq(Bytes \ Enders), overflowed : BOOLEAN]
NewScanner == [state |-> "Ground", body |-> <<>>, overflowed |-> FALSE]

\* The scanner never keeps more than MAX_OSC_BYTES, whatever the output is.
TypeOK ==
    /\ scanner \in Scanners /\ Len(scanner.body) <= MaxOscBytes
    /\ unread \in 0..MaxRead
    /\ ended \in BOOLEAN
    /\ stream \in Seq(Bytes)
    /\ sent \subseteq [at : Nat, state : States]

-----------------------------------------------------------------------------
(* OscScanner *)

Goes(sc, state) == [sc EXCEPT !.state = state]

StartOsc(sc) == [state |-> "Osc", body |-> <<>>, overflowed |-> FALSE]

\* Mutant: one byte too many is kept.
PushOscByteUnbounded(sc, byte) == [sc EXCEPT !.body = Append(@, byte)]

PushOscByte(sc, byte) ==
    IF Len(sc.body) < MaxOscBytes THEN [sc EXCEPT !.body = Append(@, byte)]
    ELSE [sc EXCEPT !.overflowed = TRUE]

ScanEscape(sc, byte) ==
    CASE byte = "]"      -> StartOsc(sc)
      [] byte = "escape" -> Goes(sc, "Escape")
      [] OTHER           -> Goes(sc, "Ground")

\* finish_osc: the body of a string that was kept whole is taken.
FinishOsc(sc) ==
    IF sc.overflowed THEN Goes(sc, "Ground")
    ELSE [sc EXCEPT !.state = "Ground", !.body = <<>>]

ScanOsc(sc, byte) ==
    CASE byte = "bell"   -> FinishOsc(sc)
      [] byte = "escape" -> Goes(sc, "OscEscape")
      [] byte = "cancel" -> Goes(sc, "Ground")
      [] OTHER           -> PushOscByte(sc, byte)

\* The scanner after a byte.
Pushed(sc, byte) ==
    CASE sc.state = "Ground"    -> IF byte = "escape" THEN Goes(sc, "Escape") ELSE sc
      [] sc.state = "Escape"    -> ScanEscape(sc, byte)
      [] sc.state = "Osc"       -> ScanOsc(sc, byte)
      [] sc.state = "OscEscape" -> IF byte = "\\" THEN FinishOsc(sc)
                                   ELSE ScanEscape(sc, byte)

\* Mutant: a string whose tail was cut off is reported.
FinishesTruncated(sc, byte) ==
    \/ sc.state = "Osc" /\ byte = "bell"
    \/ sc.state = "OscEscape" /\ byte = "\\"

\* The byte completes a string that was kept whole.
Finishes(sc, byte) ==
    /\ ~sc.overflowed
    /\ \/ sc.state = "Osc" /\ byte = "bell"
       \/ sc.state = "OscEscape" /\ byte = "\\"

-----------------------------------------------------------------------------
(* The relay *)

\* program_status_request: what a string reports. All other strings are ignored.
Reported(body) == {state \in Reports : body = <<state>>}

Init ==
    /\ scanner = NewScanner
    /\ unread = 0
    /\ ended = FALSE
    /\ stream = <<>>
    /\ sent = {}

\* A read returns some bytes. It is tried again when it is interrupted.
Read ==
    /\ ~ended /\ unread = 0
    /\ unread' \in 1..MaxRead
    /\ Len(stream) + unread' <= MaxStream
    /\ UNCHANGED <<scanner, ended, stream, sent>>

\* The next byte of the buffer is scanned, and the report it completes sent.
Push(byte) ==
    /\ unread > 0
    /\ unread' = unread - 1
    /\ scanner' = Pushed(scanner, byte)
    /\ stream' = Append(stream, byte)
    /\ sent' = IF Finishes(scanner, byte)
               THEN sent \cup [at : {Len(stream) + 1}, state : Reported(scanner.body)]
               ELSE sent
    /\ UNCHANGED ended

\* The pane closed, another pipe replaced this one, or a read failed: relay()
\* withdraws the report however forward_reports returned.
Withdraw ==
    /\ ~ended /\ unread = 0
    /\ ended' = TRUE
    /\ sent' = sent \cup {[at |-> Len(stream) + 1, state |-> "clear"]}
    /\ UNCHANGED <<scanner, unread, stream>>

Next == Read \/ (\E byte \in Bytes : Push(byte)) \/ Withdraw

Spec == Init /\ [][Next]_vars

-----------------------------------------------------------------------------
(* Properties *)

\* An OSC string that ends with byte e of the output and whose body begins at
\* byte i: what precedes and follows it does not matter, and an ESCAPE or a
\* cancellation within it aborts it.
IsOscString(s, i, e) ==
    /\ i \in 3..e /\ s[i - 2] = "escape" /\ s[i - 1] = "]"
    /\ \/ /\ s[e] = "bell"
          /\ \A k \in i..(e - 1) : s[k] \notin Enders
       \/ /\ s[e] = "\\" /\ i < e /\ s[e - 1] = "escape"
          /\ \A k \in i..(e - 2) : s[k] \notin Enders

\* Where the body of a string that ends at byte e ends.
BodyEnd(s, e) == IF s[e] = "bell" THEN e - 1 ELSE e - 2

\* The reports a stream contains: its strings of at most MAX_OSC_BYTES that are
\* records.
Contained(s) ==
    {m \in [at : 1..Len(s), state : Reports] :
        \E i \in 3..m.at :
            /\ IsOscString(s, i, m.at)
            /\ BodyEnd(s, m.at) - i + 1 <= MaxOscBytes
            /\ SubSeq(s, i, BodyEnd(s, m.at)) = <<m.state>>}

\* Whatever the output is and wherever reads cut it, the relay sends the reports
\* the output contains, each as soon as it is complete, and the withdrawal after
\* them: none is missed after an aborted or endless string, and no fragment or
\* truncated string is taken for a report.
ReportsExact ==
    sent = Contained(stream)
           \cup [at : {Len(stream) + 1}, state : IF ended THEN {"clear"} ELSE {}]
=============================================================================
