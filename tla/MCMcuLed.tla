----------------------------- MODULE MCMcuLed -----------------------------
(* Model-checking instances of McuLed. *)
EXTENDS McuLed, TLC
CONSTANTS c1, c2
\* The writers run the same code; used for safety only.
SameWriters == Permutations({c1, c2})
=============================================================================
