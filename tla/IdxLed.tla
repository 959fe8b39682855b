------------------------------ MODULE IdxLed ------------------------------
(***************************************************************************)
(* leds-mcu.c, the LED driver of the iDX and of some DXP models: sysfs     *)
(* stores that send commands under the driver's mutex, one work item per   *)
(* LED that sends the brightness without it, and the removal.  Every       *)
(* command is a block write followed by reads of one acknowledge register  *)
(* that all commands share.                                                *)
(*                                                                         *)
(* The LED core, the workqueue and the microcontroller are outside the     *)
(* file.  The LED core's own lock, which serialises brightness stores to   *)
(* one LED, is left out: nothing here depends on it.                       *)
(***************************************************************************)
EXTENDS Naturals, Sequences

CONSTANTS
  Callers,  \* threads that write sysfs files
  Leds,     \* the LEDs; as an agent, a LED is its work item
  Nobody,   \* no holder of the mutex, no sender
  Lights,   \* brightness values that are stored
  Attempts  \* attempts of a write, and reads of its acknowledge: 3 in the code

Agents == Callers \cup Leds

ASSUME IdxAssumption ==
  /\ Callers \cap Leds = {} /\ Nobody \notin Agents
  /\ Lights \subseteq 0 .. 255 /\ Attempts \in Nat \ {0}

UNSET == 256   \* a brightness in memory that nothing has written yet

VARIABLES
  phase,    \* life of the binding
  mutex,    \* holder of ug_dev->mutex
  pc, cmds, tries,   \* per agent: its step, commands to send, failures
  led,      \* per caller: the LED of its call
  light,    \* status[].light
  queued,   \* status[].work is pending
  cancelled, removed,     \* LEDs whose work was cancelled, LEDs unregistered
  last,     \* sender of the last command the controller got
  offered   \* history: the last brightness that the work item of each LED offered

agentVars == <<pc, led, cmds, tries>>
vars == <<phase, mutex, agentVars, light, queued, cancelled, removed, last,
          offered>>

\* A command: what the controller is told, and for LIGHT which brightness.
Cmd(mode, val) == [mode |-> mode, val |-> val]

Goto(a, step) == pc' = [pc EXCEPT ![a] = step]
ForgetCall(a) == cmds' = [cmds EXCEPT ![a] = <<>>] /\ tries' = [tries EXCEPT ![a] = 0]
Alive(l) == phase # "absent" /\ l \notin removed

\* schedule_work: does nothing to a work that is pending already.
Queue(l) == queued' = [queued EXCEPT ![l] = TRUE]

----------------------------------------------------------------------------
(* Sysfs stores.                                                           *)

\* leds_brightness_set: 1 stands for full brightness.
LedsBrightnessSet(c, l, v) ==
  /\ Alive(l) /\ pc[c] = "idle"
  /\ light' = [light EXCEPT ![l] = IF v = 1 THEN 255 ELSE v]
  /\ led' = [led EXCEPT ![c] = l]
  /\ Goto(c, "schedule")
  /\ UNCHANGED <<phase, mutex, cmds, tries, queued, cancelled, removed, last,
                 offered>>

\* Mutant: the work is not queued again while it runs.
ScheduleUnlessRunning(c) ==
  /\ pc[c] = "schedule"
  /\ IF pc[led[c]] = "idle" THEN Queue(led[c]) ELSE UNCHANGED <<queued>>
  /\ Goto(c, "idle")
  /\ UNCHANGED <<phase, mutex, led, cmds, tries, light, cancelled, removed,
                 last, offered>>

Schedule(c) ==
  /\ pc[c] = "schedule"
  /\ Queue(led[c])
  /\ Goto(c, "idle")
  /\ UNCHANGED <<phase, mutex, led, cmds, tries, light, cancelled, removed,
                 last, offered>>

\* color_set sends one command, or none for a colour that is not in its table;
\* leds_blink_set sends one for the triggers breath and timer2, and for normal
\* two, the switch and a brightness of 0.
Calls == { <<>>, <<Cmd("mode", 0)>>, <<Cmd("switch", 0), Cmd("light", 0)>> }

Call(c, l, s) ==
  /\ Alive(l) /\ pc[c] = "idle"
  /\ led' = [led EXCEPT ![c] = l] /\ cmds' = [cmds EXCEPT ![c] = s]
  /\ Goto(c, "lock")
  /\ UNCHANGED <<phase, mutex, tries, light, queued, cancelled, removed, last,
                 offered>>

\* Mutant: the caller does not wait for the mutex.
LockBusy(c) ==
  /\ pc[c] = "lock"
  /\ mutex' = c
  /\ Goto(c, IF cmds[c] = <<>> THEN "done" ELSE "write")
  /\ UNCHANGED <<phase, led, cmds, tries, light, queued, cancelled, removed, last,
                 offered>>

Lock(c) ==
  /\ pc[c] = "lock" /\ mutex = Nobody
  /\ mutex' = c
  /\ Goto(c, IF cmds[c] = <<>> THEN "done" ELSE "write")
  /\ UNCHANGED <<phase, led, cmds, tries, light, queued, cancelled, removed, last,
                 offered>>

\* Mutant: only a call that succeeded gives the mutex back.
UnlockIfSent(c) ==
  /\ pc[c] \in {"done", "failed"}
  /\ mutex' = IF pc[c] = "done" /\ mutex = c THEN Nobody ELSE mutex
  /\ Goto(c, "idle") /\ ForgetCall(c)
  /\ UNCHANGED <<phase, led, light, queued, cancelled, removed, last,
                 offered>>

\* FAILED and do_return unlock as the normal ends do.
Unlock(c) ==
  /\ pc[c] \in {"done", "failed"}
  /\ mutex' = IF mutex = c THEN Nobody ELSE mutex
  /\ Goto(c, "idle") /\ ForgetCall(c)
  /\ UNCHANGED <<phase, led, light, queued, cancelled, removed, last,
                 offered>>

----------------------------------------------------------------------------
(* brightness_work, without the mutex.                                     *)

WorkStart(l) ==
  /\ phase \notin {"absent", "freed"} /\ queued[l] /\ pc[l] = "idle"
  /\ queued' = [queued EXCEPT ![l] = FALSE]
  /\ cmds' = [cmds EXCEPT ![l] = <<Cmd("light", light[l])>>]
  /\ Goto(l, "write")
  /\ UNCHANGED <<phase, mutex, led, tries, light, cancelled, removed, last, offered>>

\* What the transfer returns is not looked at.
WorkEnd(l) ==
  /\ pc[l] \in {"done", "failed"}
  /\ Goto(l, "idle") /\ ForgetCall(l)
  /\ UNCHANGED <<phase, mutex, led, light, queued, cancelled, removed,
                 last, offered>>

----------------------------------------------------------------------------
(* i2c_iDX601x_write_led.                                                  *)

\* One attempt more; the third failure ends the transfer.
Failed(a) ==
  /\ tries' = [tries EXCEPT ![a] = @ + 1]
  /\ pc' = IF tries[a] + 1 = Attempts THEN [pc EXCEPT ![a] = "failed"] ELSE pc

Offer(a) ==
  offered' = IF a \in Leds THEN [offered EXCEPT ![a] = Head(cmds[a]).val] ELSE offered

WriteFails(a) ==
  /\ pc[a] = "write" /\ Failed(a) /\ Offer(a)
  /\ UNCHANGED <<phase, mutex, led, cmds, light, queued, cancelled, removed,
                 last>>

WriteBlock(a) ==
  /\ pc[a] = "write"
  /\ last' = a
  /\ Offer(a)
  /\ tries' = [tries EXCEPT ![a] = 0] /\ Goto(a, "ack")
  /\ UNCHANGED <<phase, mutex, led, cmds, light, queued, cancelled, removed>>

AckMissing(a) ==
  /\ pc[a] = "ack" /\ Failed(a)
  /\ UNCHANGED <<phase, mutex, led, cmds, light, queued, cancelled, removed,
                 last, offered>>

AckRead(a) ==
  /\ pc[a] = "ack"
  /\ cmds' = [cmds EXCEPT ![a] = Tail(@)]
  /\ tries' = [tries EXCEPT ![a] = 0]
  /\ Goto(a, IF Len(cmds[a]) > 1 THEN "write" ELSE "done")
  /\ UNCHANGED <<phase, mutex, led, light, queued, cancelled, removed, last,
                 offered>>

Transfer(a) == WriteFails(a) \/ WriteBlock(a) \/ AckMissing(a) \/ AckRead(a)

----------------------------------------------------------------------------
(* leds_ugreen_remove.                                                     *)

RemoveBegin ==
  /\ phase = "bound"
  /\ phase' = "cancel"
  /\ UNCHANGED <<mutex, agentVars, light, queued, cancelled, removed, last,
                 offered>>

\* cancel_work_sync, for one LED after the other.
CancelWork(l) ==
  /\ phase = "cancel" /\ l \notin cancelled /\ pc[l] = "idle"
  /\ queued' = [queued EXCEPT ![l] = FALSE]
  /\ cancelled' = cancelled \cup {l}
  /\ UNCHANGED <<phase, mutex, agentVars, light, removed, last, offered>>

\* led_classdev_unregister sets the brightness to LED_OFF ...
TurnOff(l) ==
  /\ phase = "cancel" /\ cancelled = Leds /\ l \notin removed
  /\ light' = [light EXCEPT ![l] = 0]
  /\ Queue(l)
  /\ phase' = "drain"
  /\ removed' = removed \cup {l}
  /\ UNCHANGED <<mutex, agentVars, cancelled, last, offered>>

\* ... and waits for the stores to that LED that are under way.
Unregister ==
  /\ phase = "drain"
  /\ \A c \in Callers : led[c] \in removed => pc[c] = "idle"
  /\ phase' = "cancel"
  /\ UNCHANGED <<mutex, agentVars, light, queued, cancelled, removed, last,
                 offered>>

\* devm_kfree of cdev and of status.
Free ==
  /\ phase = "cancel" /\ removed = Leds
  /\ phase' = "freed"
  /\ UNCHANGED <<mutex, agentVars, light, queued, cancelled, removed, last,
                 offered>>

----------------------------------------------------------------------------
(* leds_ugreen_probe, up to the registration of the LEDs: their status is  *)
(* allocated, not cleared, and the mutex is free.                          *)

InitAt(p) ==
  /\ phase = p /\ mutex = Nobody
  /\ pc = [a \in Agents |-> "idle"] /\ tries = [a \in Agents |-> 0]
  /\ led \in [Callers -> Leds] /\ \A b, c \in Callers : led[b] = led[c]
  /\ cmds = [a \in Agents |-> <<>>]
  /\ light = [l \in Leds |-> UNSET] /\ queued = [l \in Leds |-> FALSE]
  /\ cancelled = {} /\ removed = {} /\ last = Nobody
  /\ offered = light

Init == InitAt("bound")

\* The steps of code that has begun.
Running ==
  \/ \E c \in Callers : Schedule(c) \/ Lock(c) \/ Unlock(c)
  \/ \E l \in Leds : WorkStart(l) \/ WorkEnd(l) \/ CancelWork(l) \/ TurnOff(l)
  \/ \E a \in Agents : Transfer(a)
  \/ Unregister \/ Free

Next ==
  \/ \E c \in Callers :
       \/ \E l \in Leds : \/ \E v \in Lights : LedsBrightnessSet(c, l, v)
                          \/ \E s \in Calls : Call(c, l, s)
  \/ RemoveBegin
  \/ Running

Spec == Init /\ [][Next]_vars

----------------------------------------------------------------------------
TypeOK ==
  /\ phase \in {"absent", "bound", "cancel", "drain", "freed"}
  /\ mutex \in Callers \cup {Nobody} /\ last \in Agents \cup {Nobody}
  /\ pc \in [Agents -> {"idle", "schedule", "lock", "write", "ack", "done", "failed"}]
  /\ led \in [Callers -> Leds] /\ tries \in [Agents -> 0 .. Attempts]
  /\ \A a \in Agents : Len(cmds[a]) \leq 2
  /\ light \in [Leds -> 0 .. UNSET] /\ offered \in [Leds -> 0 .. UNSET]
  /\ queued \in [Leds -> BOOLEAN]
  /\ cancelled \subseteq Leds /\ removed \subseteq cancelled

\* The acknowledge a store waits for is never that of another store's command:
\* only the work items, which take no lock, can come between.
AckNotOfCaller ==
  \A c \in Callers : pc[c] = "ack" => last \in {c} \cup Leds

\* When nothing is under way for an LED, the brightness that its work offered last
\* is the one stored last, however the stores met the work.
LightSent ==
  \A l \in Leds :
    /\ phase = "bound" /\ ~queued[l] /\ pc[l] = "idle"
    /\ \A c \in Callers : pc[c] = "schedule" => led[c] # l
    => offered[l] = light[l]

\* Code that is under way can always go on, whatever the bus loses: no path
\* keeps the mutex, and remove waits for nothing that waits for it.
NeverHangs ==
  (phase \in {"cancel", "drain"} \/ \E a \in Agents : pc[a] # "idle") => ENABLED Running
=============================================================================
