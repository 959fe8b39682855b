----------------------------- MODULE OtherLeds -----------------------------
(***************************************************************************)
(* A machine whose LEDs are driven by leds-mcu.c (IdxLed) or by one of the *)
(* two variants of leds-mcu-n76e003.c (N76Led).  It has one of the three   *)
(* drivers; the variables of the others stay as they are.                  *)
(***************************************************************************)
EXTENDS IdxLed

CONSTANTS
  Remover,   \* the thread that unbinds the driver
  Levels, Colors, Triggers, Variants   \* as in N76Led

ASSUME N76Assumption ==
  /\ Remover \notin Callers \cup {Nobody}
  /\ Colors \subseteq 0 .. 3 /\ Variants \subseteq {"n76", "dh", "disk"}
  /\ Levels \subseteq 0 .. 255 /\ Triggers \subseteq {"timer2", "breath", "normal", "none"}

VARIABLES variant, life, access, update, trigger, at, arg, color, value, lit,
          pending, wpc, wcolor, wvalue, pins, mode, mixed
n76Vars == <<variant, life, access, update, trigger, at, arg, color, value, lit,
             pending, wpc, wcolor, wvalue, pins, mode, mixed>>

N76 == INSTANCE N76Led WITH Users <- Callers, None <- Nobody

MachineInit ==
  \/ InitAt("bound") /\ N76!InitAt("absent") /\ variant = "n76"
  \/ InitAt("absent") /\ N76!InitAt("bound")

MachineNext ==
  \/ Next /\ UNCHANGED n76Vars
  \/ N76!Next /\ UNCHANGED vars

MachineSpec == MachineInit /\ [][MachineNext]_<<vars, n76Vars>>

\* After sequences of registers that did not overlap, the pins of an n76e003
\* show led->color: N76Led states it.
ColorShown == N76!ColorShown

\* Nothing of an n76e003 driver hangs but for one deadlock: N76Led states it.
HangsOnlyInRemove == N76!HangsOnlyInRemove
============================================================================
