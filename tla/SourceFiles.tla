----------------------------- MODULE SourceFiles -----------------------------
(***************************************************************************)
(* What the readers of published files may rely on (README.md, state       *)
(* exposure): the source descriptor of a tmux socket and the snapshot      *)
(* files, as they change under the daemons of successive servers. The lock *)
(* and the checks by which SourcePublication keeps this are not visible.   *)
(***************************************************************************)
EXTENDS Naturals

CONSTANTS Servers, Files, Rows, None

VARIABLES
    mode,            \* mode[n]: what the daemon of server n is about
    descriptor, snapshot

vars == <<mode, descriptor, snapshot>>

\* A daemon publishes, clears a snapshot it gave up, or withdraws and ends; it
\* may be killed in any mode.
After(m) ==
    CASE m = "off"         -> {"publishing"}
      [] m = "publishing"  -> {"removing", "withdrawing", "off"}
      [] m = "removing"    -> {"publishing", "withdrawing", "off"}
      [] m = "withdrawing" -> {"off"}

Init ==
    /\ mode = [n \in Servers |-> "off"]
    /\ descriptor = None
    /\ snapshot = [f \in Files |-> None]

Turns(n) == \E m \in After(mode[n]) : mode' = [mode EXCEPT ![n] = m]

Moves(n) == Turns(n) /\ UNCHANGED <<descriptor, snapshot>>

\* A snapshot replaces none of a later server.
Write(n, f, r) ==
    /\ mode[n] = "publishing"
    /\ snapshot[f] # None => snapshot[f].server <= n
    /\ snapshot' = [snapshot EXCEPT ![f] = [server |-> n, rows |-> r]]
    /\ UNCHANGED <<mode, descriptor>>

\* Nor does a descriptor, and the file that it names holds a snapshot of the
\* same server.
Describe(n, f) ==
    /\ mode[n] = "publishing"
    /\ descriptor # None => descriptor.server <= n
    /\ f # None => snapshot[f] # None /\ snapshot[f].server = n
    /\ descriptor' = [server |-> n, file |-> f]
    /\ UNCHANGED <<mode, snapshot>>

\* Files are removed by the daemon that they name, and only by it.
Clear(n, f) ==
    /\ mode[n] = "removing"
    /\ snapshot[f] # None /\ snapshot[f].server = n
    /\ snapshot' = [snapshot EXCEPT ![f] = None]
    /\ Turns(n)
    /\ UNCHANGED descriptor

Withdraw(n) ==
    /\ mode[n] = "withdrawing"
    /\ descriptor # None /\ descriptor.server = n
    /\ descriptor' = None
    /\ Turns(n)
    /\ UNCHANGED snapshot

Next ==
    \E n \in Servers :
        \/ Moves(n) \/ Withdraw(n)
        \/ \E f \in Files : Clear(n, f) \/ \E r \in Rows : Write(n, f, r)
        \/ \E f \in Files \cup {None} : Describe(n, f)

Spec == Init /\ [][Next]_vars
=============================================================================
