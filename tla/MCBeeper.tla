----------------------------- MODULE MCBeeper -----------------------------
(* Model-checking instances of Beeper. *)
EXTENDS Beeper
CONSTANTS w1, w2

Cmd(o, n) == [op |-> o, n |-> n, off |-> 500, on |-> 400]
Switches == {Cmd("on", 0), Cmd("off", 0), Cmd("one", 0)}

\* Series of two lengths: a counter left behind by the longer one has reached
\* the shorter one.
Lengths == {1, 2}
AllCommands == Switches \cup {Cmd("timer", 0)} \cup {Cmd("rep", n) : n \in Lengths}
=============================================================================
