---------------------------- MODULE MCOtherLeds ----------------------------
(* Model-checking instances of OtherLeds. *)
EXTENDS OtherLeds
CONSTANTS u1, u2, l1
============================================================================
