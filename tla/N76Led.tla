------------------------------ MODULE N76Led ------------------------------
(***************************************************************************)
(* leds-mcu-n76e003.c and its variant leds-mcu-n76e003-dh2600.c: an LED    *)
(* made of a white and an orange pin of a microcontroller, each pin with a *)
(* mode.  Colour stores hold the LED core's lock, the work that applies    *)
(* the brightness holds none, and update_lock protects only the delays.    *)
(*                                                                         *)
(* The LED core (its lock led_access and its removal, which waits for the  *)
(* stores inside), the timer2 trigger's delay files and the workqueue are  *)
(* outside the two files.                                                  *)
(***************************************************************************)
EXTENDS Naturals

CONSTANTS
  Users,     \* threads that write sysfs files
  None,      \* no holder of a lock
  Remover,   \* the thread that unbinds the driver or shuts down
  Levels,    \* brightness values that are stored
  Colors,    \* colours that are stored
  Triggers,  \* triggers that are attached: timer2, breath, normal; none detaches
  Variants   \* the LEDs: "n76" is one of n76e003, "dh" the power LED of dh2600,
             \* "disk" one of the other LEDs of dh2600

White == 1
Orange == 2
Pins == {White, Orange}
\* The pins of a value of color: bit 0 is white, bit 1 is orange.
Bits(c) == {p \in Pins : c = p \/ c = 3}
Other(p) == 3 - p

VARIABLES
  variant,   \* which LED of which driver this is
  life,     \* life of the binding
  access,    \* holder of led_cdev->led_access
  update,    \* holder of data->update_lock
  trigger,   \* the LED's trigger
  at, arg,   \* per user: its step and what it stores
  color, value, lit,    \* led->color, led->value, led->brightness # 0
  pending, wpc, wcolor, wvalue,   \* the work: pending, its step, its copies
  pins, mode,           \* the controller: pins that are on, pins that blink or breathe
  mixed      \* history: two register sequences have overlapped since the last
             \* colour store that ran alone

locks == <<access, update>>
users == <<at, arg>>
led == <<color, value, lit>>
work == <<pending, wpc, wcolor, wvalue>>
regs == <<pins, mode>>
vars == <<variant, life, locks, trigger, users, led, work, regs, mixed>>

Goto(u, step) == at' = [at EXCEPT ![u] = step]

\* Steps of a user between two writes of registers.
InSequence == {"mode", "clear", "set", "dark", "other", "off", "self"}
\* Steps inside the trigger's own files, and of the trigger's activation.
InBlink == {"blink", "dark", "other", "off", "self", "delays", "lock", "unlock"}
Bound == life \notin {"absent", "gone"}
TriggerFree == life \in {"bound", "cancel"}   \* unregister has not got to the trigger
Open == life \in {"bound", "cancel", "off"}   \* new stores come in
Overlaps(u) == wpc # "idle" \/ \E v \in Users \ {u} : at[v] \in InSequence

\* A store returns, and gives led_access back if it has it.
Return(u) ==
  /\ Goto(u, "idle") /\ arg' = [arg EXCEPT ![u] = 0]
  /\ access' = IF access = u THEN None ELSE access

Note(u) == mixed' = (mixed \/ Overlaps(u))

----------------------------------------------------------------------------
(* The stores that hold led_access.                                        *)

\* mcu_led_set: the value is stored and the work is queued.
McuLedSet(v) == value' = v /\ pending' = TRUE

\* A brightness of 0 detaches the trigger first, which sets LED_OFF as well.
BrightnessStore(u, v) ==
  /\ Open /\ at[u] = "idle" /\ access = None
  /\ v = 0 /\ trigger # "none" => TriggerFree /\ \A w \in Users : at[w] \notin InBlink
  /\ McuLedSet(v)
  /\ trigger' = IF v = 0 THEN "none" ELSE trigger
  /\ UNCHANGED <<variant, life, locks, users, color, lit, wpc, wcolor, wvalue, regs, mixed>>

\* color_store: the registers are left alone if the brightness is 0.
ColorStore(u, c) ==
  /\ Open /\ at[u] = "idle" /\ access = None /\ c # color
  /\ color' = c
  /\ \/ ~lit /\ Note(u) /\ UNCHANGED <<access, users>>
     \/ /\ lit /\ access' = u /\ mixed' = Overlaps(u)
        /\ arg' = [arg EXCEPT ![u] = c]
        /\ Goto(u, IF variant = "n76" THEN "mode" ELSE "clear")
  /\ UNCHANGED <<variant, life, update, trigger, value, lit, work, regs>>

ColorMode(u) ==
  /\ at[u] = "mode"
  /\ mode' = mode \ {IF color = White THEN Orange ELSE White}
  /\ Note(u) /\ Goto(u, "clear")
  /\ UNCHANGED <<variant, life, locks, trigger, arg, led, work, pins>>

\* Mutant: the pins of the old colour are not cleared.
ColorClearNothing(u) ==
  /\ at[u] = "clear"
  /\ pins' = pins
  /\ Note(u) /\ Goto(u, "set")
  /\ UNCHANGED <<variant, life, locks, trigger, arg, led, work, mode>>

\* dh2600 clears only the pins that are not of the new colour.
ColorClear(u) ==
  /\ at[u] = "clear"
  /\ pins' = IF variant = "n76" THEN {} ELSE pins \cap Bits(arg[u])
  /\ Note(u) /\ Goto(u, "set")
  /\ UNCHANGED <<variant, life, locks, trigger, arg, led, work, mode>>

ColorSet(u) ==
  /\ at[u] = "set"
  /\ pins' = pins \cup Bits(arg[u])
  /\ Note(u) /\ Return(u)
  /\ UNCHANGED <<variant, life, update, trigger, led, work, mode>>

\* The trigger file.  The LED core waits for the stores of delays, asks for
\* LED_OFF when a trigger goes, and then, without waiting for the work, calls
\* blink_set for the one that comes.
TriggerStore(u, t) ==
  /\ TriggerFree /\ at[u] = "idle" /\ access = None
  /\ \A v \in Users : at[v] \notin InBlink
  /\ trigger' = t
  /\ IF trigger = "none" THEN UNCHANGED <<value, pending>> ELSE McuLedSet(0)
  /\ IF t = "none" THEN UNCHANGED <<access, users>>
     ELSE access' = u /\ Goto(u, "blink") /\ UNCHANGED arg
  /\ UNCHANGED <<variant, life, update, color, lit, wpc, wcolor, wvalue, regs, mixed>>

\* The delay files of timer2, which take no lock of their own.
DelayStore(u) ==
  /\ TriggerFree /\ at[u] = "idle" /\ trigger = "timer2"
  /\ Goto(u, "blink")
  /\ UNCHANGED <<variant, life, locks, trigger, arg, led, work, regs, mixed>>

----------------------------------------------------------------------------
(* mcu_led_set_blink.                                                      *)

\* In dh2600 only the power LED breathes: for the others the call does nothing.
BlinkIgnored(u) ==
  /\ at[u] = "blink" /\ trigger = "breath" /\ variant = "disk"
  /\ Return(u)
  /\ UNCHANGED <<variant, life, update, trigger, led, work, regs, mixed>>

\* breath is for white only; the others leave a value of 1 for the work, and
\* timer2 goes on to the delays.  With both colours no mode is set.
Blink(u) ==
  /\ at[u] = "blink" /\ ~(trigger = "breath" /\ variant = "disk")
  /\ color' = IF trigger = "breath" THEN White ELSE color
  /\ value' = IF trigger = "breath" THEN value ELSE 1
  /\ arg' = [arg EXCEPT ![u] = color']
  /\ Goto(u, CASE color' = 3 -> "delays" [] color' = 0 -> "dark" [] OTHER -> "other")
  /\ Note(u)
  /\ UNCHANGED <<variant, life, locks, trigger, lit, work, regs>>

\* Without a colour both pins go off, and the delays are not set.
BlinkDark(u) ==
  /\ at[u] = "dark"
  /\ pins' = {}
  /\ Note(u) /\ Return(u)
  /\ UNCHANGED <<variant, life, update, trigger, led, work, mode>>

\* The pin of the other colour gets no mode and goes off, ...
BlinkOther(u) ==
  /\ at[u] = "other"
  /\ mode' = mode \ {Other(arg[u])}
  /\ Note(u) /\ Goto(u, "off")
  /\ UNCHANGED <<variant, life, locks, trigger, arg, led, work, pins>>

BlinkOff(u) ==
  /\ at[u] = "off"
  /\ pins' = pins \ {Other(arg[u])}
  /\ Note(u) /\ Goto(u, "self")
  /\ UNCHANGED <<variant, life, locks, trigger, arg, led, work, mode>>

\* ... and the pin of the colour gets the mode.
BlinkMode(u) ==
  /\ at[u] = "self"
  /\ mode' = IF trigger = "normal" THEN mode \ {arg[u]} ELSE mode \cup {arg[u]}
  /\ Note(u) /\ Goto(u, "delays")
  /\ UNCHANGED <<variant, life, locks, trigger, arg, led, work, pins>>

\* timer2 sets the delays if they have changed.
BlinkDelays(u) ==
  /\ at[u] = "delays"
  /\ Return(u) \/ (trigger = "timer2" /\ Goto(u, "lock") /\ UNCHANGED <<access, arg>>)
  /\ UNCHANGED <<variant, life, update, trigger, led, work, regs, mixed>>

LockUpdate(u) ==
  /\ at[u] = "lock" /\ update = None
  /\ update' = u /\ Goto(u, "unlock")
  /\ UNCHANGED <<variant, life, access, trigger, arg, led, work, regs, mixed>>

\* Mutant: update_lock is not given back.
UnlockForgotten(u) ==
  /\ at[u] = "unlock"
  /\ Return(u)
  /\ UNCHANGED <<variant, life, update, trigger, led, work, regs, mixed>>

UnlockUpdate(u) ==
  /\ at[u] = "unlock"
  /\ update' = None /\ Return(u)
  /\ UNCHANGED <<variant, life, trigger, led, work, regs, mixed>>

----------------------------------------------------------------------------
(* mcu_work, which takes no lock.                                          *)

WorkStart ==
  /\ Bound /\ pending /\ wpc = "idle"
  /\ pending' = FALSE /\ wpc' = "clear"
  /\ wcolor' = color /\ wvalue' = value
  /\ mixed' = (mixed \/ \E u \in Users : at[u] \in InSequence)
  /\ UNCHANGED <<variant, life, locks, trigger, users, led, regs>>

WorkEnds == wpc' = "idle" /\ wcolor' = 0 /\ wvalue' = 0

\* LED_OFF clears both pins; otherwise the pin that color, as it is now, does
\* not have, or the white one if it has both.
WorkClear ==
  /\ wpc = "clear"
  /\ pins' = IF wvalue = 0 THEN {} ELSE pins \ {IF color = White THEN Orange ELSE White}
  /\ IF wvalue = 0 THEN WorkEnds ELSE wpc' = "set" /\ UNCHANGED <<wcolor, wvalue>>
  /\ mixed' = (mixed \/ \E u \in Users : at[u] \in InSequence)
  /\ UNCHANGED <<variant, life, locks, trigger, users, led, pending, mode>>

\* The pins of color as it was, and led->brightness: n76 leaves it alone if the
\* value is the 1 that a blink has left.
WorkSet ==
  /\ wpc = "set"
  /\ pins' = pins \cup Bits(wcolor)
  /\ lit' = (lit \/ variant # "n76" \/ wvalue # 1)
  /\ WorkEnds
  /\ mixed' = (mixed \/ \E u \in Users : at[u] \in InSequence)
  /\ UNCHANGED <<variant, life, locks, trigger, users, color, value, pending, mode>>

----------------------------------------------------------------------------
(* mcu_remove, which is shutdown as well.                                  *)

RemoveLock ==
  /\ life = "bound" /\ update = None
  /\ life' = "cancel" /\ update' = Remover
  /\ UNCHANGED <<variant, access, trigger, users, led, work, regs, mixed>>

\* cancel_work_sync.
CancelWork ==
  /\ life = "cancel" /\ wpc = "idle"
  /\ life' = "off" /\ pending' = FALSE
  /\ UNCHANGED <<variant, locks, trigger, users, led, wpc, wcolor, wvalue, regs, mixed>>

\* led_classdev_unregister detaches the trigger, for which it waits for the
\* stores inside the trigger's files, asks for LED_OFF ...
TurnOff ==
  /\ life = "off" /\ \A u \in Users : at[u] \notin InBlink
  /\ life' = "drain" /\ trigger' = "none"
  /\ McuLedSet(0)
  /\ UNCHANGED <<variant, locks, users, color, lit, wpc, wcolor, wvalue, regs, mixed>>

\* ... and waits for all the others; only then is update_lock given back.
RemoveEnd ==
  /\ life = "drain" /\ \A u \in Users : at[u] = "idle"
  /\ life' = "gone" /\ update' = None
  /\ UNCHANGED <<variant, access, trigger, users, led, work, regs, mixed>>

----------------------------------------------------------------------------
(* mcu_led_probe and mcu_init: white, on, without modes; the brightness of *)
(* the variant for the dh2600 starts as 0.                                 *)

InitAt(p) ==
  /\ variant \in Variants /\ life = p
  /\ access = None /\ update = None /\ trigger = "none"
  /\ at = [u \in Users |-> "idle"] /\ arg = [u \in Users |-> 0]
  /\ color = White /\ value = 0 /\ lit = (variant = "n76")
  /\ pending = FALSE /\ wpc = "idle" /\ wcolor = 0 /\ wvalue = 0
  /\ pins = {White} /\ mode = {} /\ mixed = FALSE

Init == InitAt("bound")

UserStep(u) ==
  \/ ColorMode(u) \/ ColorClear(u) \/ ColorSet(u)
  \/ BlinkIgnored(u) \/ Blink(u) \/ BlinkDark(u) \/ BlinkOther(u) \/ BlinkOff(u) \/ BlinkMode(u)
  \/ BlinkDelays(u) \/ UnlockUpdate(u)

\* The steps of code that has begun.
Running ==
  \/ \E u \in Users : UserStep(u) \/ LockUpdate(u)
  \/ WorkStart \/ WorkClear \/ WorkSet
  \/ CancelWork \/ TurnOff \/ RemoveEnd

Next ==
  \/ \E u \in Users :
       \/ \E v \in Levels : BrightnessStore(u, v)
       \/ \E c \in Colors : ColorStore(u, c)
       \/ \E t \in Triggers : TriggerStore(u, t)
       \/ DelayStore(u)
  \/ RemoveLock
  \/ Running

Spec == Init /\ [][Next]_vars

----------------------------------------------------------------------------
TypeOK ==
  /\ variant \in Variants
  /\ life \in {"absent", "bound", "cancel", "off", "drain", "gone"}
  /\ access \in Users \cup {None} /\ update \in Users \cup {None, Remover}
  /\ trigger \in Triggers \cup {"none"} /\ color \in 0 .. 3 /\ wcolor \in 0 .. 3
  /\ value \in Levels \cup {0, 1} /\ wvalue \in Levels \cup {0, 1}
  /\ lit \in BOOLEAN /\ pending \in BOOLEAN /\ mixed \in BOOLEAN
  /\ wpc \in {"idle", "clear", "set"}
  /\ pins \subseteq Pins /\ mode \subseteq Pins

\* After sequences of registers that did not overlap the pins that are on are
\* those of led->color or none, and with n76e003 at most one of them blinks or
\* breathes: whatever the order of colours, brightnesses and triggers.
ColorShown ==
  (lit /\ ~mixed /\ wpc = "idle" /\ \A u \in Users : at[u] \notin InSequence) =>
    /\ pins \in {{}, Bits(color)}
    /\ variant = "n76" => mode # Pins

\* Code that is under way can always go on, and so can the unbinding, but for
\* one deadlock: remove keeps update_lock and waits for a store that wants it.
HangsOnlyInRemove ==
  (wpc # "idle" \/ life \in {"cancel", "off", "drain"} \/ \E u \in Users : at[u] # "idle")
  => \/ ENABLED Running
     \/ life \in {"off", "drain"} /\ update = Remover /\ \E u \in Users : at[u] = "lock"
=============================================================================
