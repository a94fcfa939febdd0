---------------------------- MODULE MCStatusLine ----------------------------
\* Instances of StatusLine for model checking.
EXTENDS StatusLine

CONSTANTS p1, p2, w1

MCListed == <<p1, p2>>
MCWindowOf == [p \in {p1, p2} |-> w1]

\* An animated line, a line switched off with fewer frames, and options that
\* are refused.
MCOption == [status |-> TRUE, animate |-> TRUE, idles |-> TRUE, frames |-> 2,
             animation |-> 2, interval |-> 3, full |-> 6]
MCOptions == {MCOption,
              [MCOption EXCEPT !.status = FALSE, !.frames = 1, !.interval = 2],
              [MCOption EXCEPT !.frames = 3]}
=============================================================================
