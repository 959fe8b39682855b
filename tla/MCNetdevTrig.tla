---------------------------- MODULE MCNetdevTrig ----------------------------
(* Model-checking instances of NetdevTrig. *)
EXTENDS NetdevTrig
CONSTANTS d1, d2, c1
=============================================================================
