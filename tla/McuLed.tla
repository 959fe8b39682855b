------------------------------ MODULE McuLed ------------------------------
(***************************************************************************)
(* The LED controller driver leds-mcu-28a48.c (DXP4800 Plus): sysfs        *)
(* callers, one work item per LED, the i2cmutex, the acknowledge-and-retry *)
(* protocol with the microcontroller (MCU), the per-LED cache cur_state    *)
(* and the probe / remove paths.  The LED core of the kernel and the MCU   *)
(* are outside the repository and are modelled from how the driver uses    *)
(* them.                                                                   *)
(*                                                                         *)
(* A thread of control is a sysfs caller or a work item; the work item of  *)
(* LED l is named by l itself.  Each step below ends where another thread  *)
(* may run in between: at a lock, at a sleep, after an unlock.             *)
(***************************************************************************)
EXTENDS Naturals

CONSTANTS
  LED_COUNT,      \* how many LEDs; LED 0 is the power LED
  Callers,        \* user-space threads that write the sysfs files
  NoOne, Probe,   \* nobody; the thread that runs probe
  Brightness,     \* the values written to "brightness"
  ColorRequests,  \* the values written to "color"
  Delays,         \* the delays written to delay_on / delay_off (100 ms units)
  Triggers,       \* the triggers that may be attached
  BootRuns,       \* run states the MCU may show when the driver probes it
  MaxNaks,        \* bound: failed acknowledges per command (RETRIES = any number)
  EarlyUsers,     \* whether user space touches the LEDs while probe still runs
  Removable       \* whether the driver may be unbound

RETRIES == 3
Leds == 0 .. LED_COUNT - 1
Procs == Callers \cup Leds

ASSUME LedAssumption ==
  /\ LED_COUNT \in Nat \ {0}
  /\ Callers \cap Leds = {}
  /\ NoOne \notin Procs /\ Probe \notin Procs /\ NoOne # Probe
  /\ Brightness \subseteq 0 .. 255
  /\ ColorRequests \subseteq Nat
  /\ Delays \subseteq Nat
  /\ Triggers \subseteq {"timer2", "breath", "normal"}
  /\ BootRuns \subseteq 0 .. 3
  /\ MaxNaks \in 0 .. RETRIES
  /\ EarlyUsers \in BOOLEAN /\ Removable \in BOOLEAN

LED_OFF == 0
LED_ON == 1
RUN_STATE_OFF == 0
RUN_STATE_ON == 1
RUN_STATE_BLINK == 2
RUN_STATE_BREATH == 3
COLOR_NONE == 0
COLOR_WHITE == 1

Ops == {"OP_BRIGHTNESS", "OP_COLOR", "OP_ONOFF", "OP_BLINK", "OP_BREATH"}
Regs == {"brightness", "color", "run"}
Command == [led : Leds, op : Ops, val : Nat]
McuState == [run : Nat, time : Nat, brightness : Nat, color : Nat]
LedState == [run : Nat, t_blink : Nat, t_breath : Nat, brightness : Nat, color : Nat]
Steps == {"idle", "store", "activate", "lock", "ack", "commit", "times"}
Phases == {"unbound", "stats", "read", "reread", "bright", "onoff", "bound",
           "cancel", "unregister"}

VARIABLES
  drv,       \* where probe or remove stands
  at,        \* the LED that probe's or remove's loop is at
  stopping,  \* remove_or_shutdown
  live,      \* the LEDs whose class device is registered
  mutex,     \* i2cmutex: its holder
  bus,       \* the last command on the wire: who sent it, whether it arrived
  mcu,       \* the registers of the controller
  cache,     \* cur_state of each LED
  value,     \* led->value: the brightness asked for last
  pending,   \* led->work is queued
  trig,      \* the trigger attached to each LED
  access,    \* led_access of the LED core: its holder
  pc, cmd, tries,  \* per thread: its step, its command, the loop counter i
  owner      \* history: the thread whose command on a register stands

devVars == <<drv, at, stopping, live>>
userVars == <<value, pending, trig>>
procVars == <<pc, cmd, tries>>
vars == <<drv, at, stopping, live, mutex, bus, mcu, cache, value, pending,
          trig, access, pc, cmd, tries, owner>>

NoCmd == [led |-> 0, op |-> "OP_ONOFF", val |-> 0]
Quiet == [by |-> NoOne, ok |-> TRUE]

----------------------------------------------------------------------------
(* Commands, and what they do to the MCU and to the cache.                 *)

Cmd(l, o, v) == [led |-> l, op |-> o, val |-> v]

RegOf(o) == CASE o = "OP_BRIGHTNESS" -> "brightness"
              [] o = "OP_COLOR" -> "color"
              [] OTHER -> "run"

\* What the MCU does with a command that reaches it (external).
Execute(m, c) ==
  CASE c.op = "OP_BRIGHTNESS" -> [m EXCEPT !.brightness = c.val]
    [] c.op = "OP_COLOR" -> [m EXCEPT !.color = c.val]
    [] c.op = "OP_ONOFF" -> [m EXCEPT !.run = c.val]
    [] c.op = "OP_BLINK" -> [m EXCEPT !.run = RUN_STATE_BLINK, !.time = c.val]
    [] c.op = "OP_BREATH" -> [m EXCEPT !.run = RUN_STATE_BREATH, !.time = c.val]

\* The MCU shows what command c asked for.
Shows(m, c) ==
  CASE c.op = "OP_BRIGHTNESS" -> m.brightness = c.val
    [] c.op = "OP_COLOR" -> m.color = c.val
    [] c.op = "OP_ONOFF" -> m.run = c.val
    [] c.op = "OP_BLINK" -> m.run = RUN_STATE_BLINK /\ m.time = c.val
    [] c.op = "OP_BREATH" -> m.run = RUN_STATE_BREATH /\ m.time = c.val

\* The atomic_reads that precede each operation: the cache already has c.
Cached(s, c) ==
  CASE c.op = "OP_BRIGHTNESS" -> s.brightness = c.val
    [] c.op = "OP_COLOR" -> s.color = c.val
    [] c.op = "OP_ONOFF" -> s.run = c.val
    [] c.op = "OP_BLINK" -> s.run = RUN_STATE_BLINK /\ s.t_blink = c.val
    [] c.op = "OP_BREATH" -> s.run = RUN_STATE_BREATH /\ s.t_breath = c.val

\* The atomic_sets that follow an acknowledged command; the times of a blink
\* or a breath are stored after its run state (CommitTimes).
Remember(s, c) ==
  CASE c.op = "OP_BRIGHTNESS" -> [s EXCEPT !.brightness = c.val]
    [] c.op = "OP_COLOR" -> [s EXCEPT !.color = c.val]
    [] c.op = "OP_ONOFF" -> [s EXCEPT !.run = c.val]
    [] c.op = "OP_BLINK" -> [s EXCEPT !.run = RUN_STATE_BLINK]
    [] c.op = "OP_BREATH" -> [s EXCEPT !.run = RUN_STATE_BREATH]

RememberTimes(s, c) ==
  IF c.op = "OP_BLINK" THEN [s EXCEPT !.t_blink = c.val]
                       ELSE [s EXCEPT !.t_breath = c.val]

\* Brightness 0 and 1 are the on/off switch, everything else is a level.
BrightnessCmd(l, b) ==
  IF b \in {LED_OFF, LED_ON} THEN Cmd(l, "OP_ONOFF", b) ELSE Cmd(l, "OP_BRIGHTNESS", b)

\* color_set: below 1 becomes 1, then the low three bits are kept.
ColorOf(s) == (IF s < 1 THEN 1 ELSE s) % 8

\* The floor of each delay depends on the trigger; both delays are d, and the
\* command carries their sum.
AtLeast(d, m) == IF d < m THEN m ELSE d
BlinkTime(t, d) == IF t = "breath" THEN AtLeast(d, 10) + AtLeast(d, 5)
                                   ELSE AtLeast(d, 1) + AtLeast(d, 1)

\* led_init_read_state recognises four colours and calls every other white.
ColorRead(c) == IF c \in 2 .. 5 THEN c ELSE COLOR_WHITE

----------------------------------------------------------------------------
(* The protocol of one command: take the lock, write, read the             *)
(* acknowledge register 0x80; while it is not 1, sleep and write again, at *)
(* most RETRIES times.                                                     *)

Goto(p, step) == pc' = [pc EXCEPT ![p] = step]

\* The call of p returns: its LED's led_access is released if p held it.
Return(p) ==
  /\ Goto(p, "idle")
  /\ cmd' = [cmd EXCEPT ![p] = NoCmd]
  /\ tries' = [tries EXCEPT ![p] = 0]
  /\ access' = [l \in Leds |-> IF access[l] = p THEN NoOne ELSE access[l]]

\* Start command c unless the cache shows that it is in effect already.
Request(p, c) ==
  IF Cached(cache[c.led], c)
  THEN Return(p)
  ELSE /\ Goto(p, "lock")
       /\ cmd' = [cmd EXCEPT ![p] = c]
       /\ UNCHANGED <<tries, access>>

\* A write may be lost only if there is a try left to notice it (MaxNaks).
MayFail(i) == i > RETRIES - MaxNaks

\* p puts command c on the wire; it arrives or it is lost.
Send(p, c, arrives) ==
  /\ bus' = [by |-> p, ok |-> arrives]
  /\ mcu' = IF arrives THEN [mcu EXCEPT ![c.led] = Execute(@, c)] ELSE mcu
  /\ owner' = [owner EXCEPT ![c.led][RegOf(c.op)] = p]

\* The command of p stands on its register only as long as no other thread
\* wrote the register, or the cache of it, and its acknowledge was its own.
Disown(p) ==
  owner' = [owner EXCEPT ![cmd[p].led][RegOf(cmd[p].op)] =
              IF @ = p /\ bus.by = p THEN p ELSE NoOne]

\* Defect: the bus is driven without waiting for i2cmutex.
LockNoMutex(p) ==
  /\ pc[p] = "lock"
  /\ mutex' = p
  /\ Send(p, cmd[p], TRUE)
  /\ tries' = [tries EXCEPT ![p] = RETRIES]
  /\ Goto(p, "ack")
  /\ UNCHANGED <<devVars, userVars, cache, cmd, access>>

\* mutex_lock and the first write.  led_set_on_off looks at the cache once
\* more under the lock and leaves if another thread set the state meanwhile.
Lock(p) ==
  /\ pc[p] = "lock"
  /\ mutex = NoOne
  /\ \/ /\ cmd[p].op = "OP_ONOFF" /\ Cached(cache[cmd[p].led], cmd[p])
        /\ Return(p)
        /\ UNCHANGED <<mutex, bus, mcu, owner>>
     \/ /\ ~(cmd[p].op = "OP_ONOFF" /\ Cached(cache[cmd[p].led], cmd[p]))
        /\ mutex' = p
        /\ \E arrives \in BOOLEAN :
             /\ arrives \/ MayFail(RETRIES)
             /\ Send(p, cmd[p], arrives)
        /\ tries' = [tries EXCEPT ![p] = RETRIES]
        /\ Goto(p, "ack")
        /\ UNCHANGED <<cmd, access>>
  /\ UNCHANGED <<devVars, userVars, cache>>

\* Defect: the acknowledged path of led_set_on_off returns without unlocking.
AckNoUnlock(p) ==
  /\ pc[p] = "ack" /\ bus.ok
  /\ cache' = [cache EXCEPT ![cmd[p].led] = Remember(@, cmd[p])]
  /\ Return(p)
  /\ UNCHANGED <<devVars, userVars, mutex, bus, mcu, owner>>

\* Acknowledged.  led_set_on_off stores the new state before it unlocks, the
\* other operations after.
Ack(p) ==
  /\ pc[p] = "ack" /\ bus.ok
  /\ mutex' = NoOne /\ bus' = Quiet
  /\ Disown(p)
  /\ \/ /\ cmd[p].op = "OP_ONOFF"
        /\ cache' = [cache EXCEPT ![cmd[p].led] = Remember(@, cmd[p])]
        /\ Return(p)
     \/ /\ cmd[p].op # "OP_ONOFF"
        /\ Goto(p, "commit")
        /\ UNCHANGED <<cache, cmd, tries, access>>
  /\ UNCHANGED <<devVars, userVars, mcu>>

\* Defect: running out of tries is taken for an acknowledge.
NakAsAck(p) ==
  /\ pc[p] = "ack" /\ MayFail(tries[p])
  /\ \E arrives \in BOOLEAN : Send(p, cmd[p], arrives)
  /\ \/ /\ tries[p] > 1
        /\ tries' = [tries EXCEPT ![p] = @ - 1]
        /\ UNCHANGED <<mutex, pc>>
     \/ /\ tries[p] = 1 /\ cmd[p].op # "OP_ONOFF"
        /\ mutex' = NoOne
        /\ Goto(p, "commit")
        /\ UNCHANGED tries
  /\ UNCHANGED <<devVars, userVars, cache, cmd, access>>

\* Not acknowledged: write again.  The last rewrite is never verified: the
\* call gives up, and the cache keeps its old value.
Nak(p) ==
  /\ pc[p] = "ack" /\ MayFail(tries[p])
  /\ \E arrives \in BOOLEAN :
       /\ arrives \/ MayFail(tries[p] - 1)
       /\ \/ /\ tries[p] > 1
             /\ Send(p, cmd[p], arrives)
             /\ tries' = [tries EXCEPT ![p] = @ - 1]
             /\ UNCHANGED <<mutex, pc, cmd, access>>
          \/ /\ tries[p] = 1
             /\ mcu' = IF arrives
                       THEN [mcu EXCEPT ![cmd[p].led] = Execute(@, cmd[p])] ELSE mcu
             /\ owner' = [owner EXCEPT ![cmd[p].led][RegOf(cmd[p].op)] = NoOne]
             /\ mutex' = NoOne /\ bus' = Quiet
             /\ Return(p)
  /\ UNCHANGED <<devVars, userVars, cache>>

\* After the unlock: the acknowledged value is stored in the cache.
Commit(p) ==
  /\ pc[p] = "commit"
  /\ cache' = [cache EXCEPT ![cmd[p].led] = Remember(@, cmd[p])]
  /\ owner' = [owner EXCEPT ![cmd[p].led][RegOf(cmd[p].op)] =
                 IF @ = p THEN p ELSE NoOne]
  /\ \/ /\ RegOf(cmd[p].op) # "run"
        /\ Return(p)
     \/ /\ RegOf(cmd[p].op) = "run"
        /\ Goto(p, "times")
        /\ UNCHANGED <<cmd, tries, access>>
  /\ UNCHANGED <<devVars, userVars, mutex, bus, mcu>>

\* Defect: the times of a blink or a breath are not stored.
CommitNoTimes(p) ==
  /\ pc[p] = "times"
  /\ Return(p)
  /\ UNCHANGED <<devVars, userVars, mutex, bus, mcu, cache, owner>>

\* A blink or a breath then stores its times.
CommitTimes(p) ==
  /\ pc[p] = "times"
  /\ cache' = [cache EXCEPT ![cmd[p].led] = RememberTimes(@, cmd[p])]
  /\ owner' = [owner EXCEPT ![cmd[p].led]["run"] = IF @ = p THEN p ELSE NoOne]
  /\ Return(p)
  /\ UNCHANGED <<devVars, userVars, mutex, bus, mcu>>

Protocol(p) == Lock(p) \/ Ack(p) \/ Nak(p) \/ Commit(p) \/ CommitTimes(p)

----------------------------------------------------------------------------
(* The work item of an LED.                                                *)

\* mcu_work starts: it leaves at once when the driver is being removed, else
\* it takes led->value as it is now.
McuWork(l) ==
  /\ pending[l] /\ pc[l] = "idle"
  /\ pending' = [pending EXCEPT ![l] = FALSE]
  /\ IF stopping THEN UNCHANGED <<procVars, access>>
                 ELSE Request(l, BrightnessCmd(l, value[l]))
  /\ UNCHANGED <<devVars, mutex, bus, mcu, cache, value, trig, owner>>

----------------------------------------------------------------------------
(* System calls.                                                           *)

Reachable(l) == l \in live /\ ~stopping /\ (EarlyUsers \/ drv = "bound")

\* Nobody else is inside a store to the blink attributes of l.
Drained(p, l) ==
  \A q \in Callers \ {p} :
    ~(pc[q] # "idle" /\ cmd[q].led = l /\ cmd[q].op \in {"OP_BLINK", "OP_BREATH"})

\* brightness_store of the LED core: led_access is taken, 0 detaches the
\* trigger, and the driver's flag is tested.
BrightnessStore(p, l, b) ==
  /\ pc[p] = "idle" /\ Reachable(l) /\ access[l] = NoOne
  /\ b = LED_OFF => Drained(p, l)
  /\ access' = [access EXCEPT ![l] = p]
  /\ trig' = IF b = LED_OFF THEN [trig EXCEPT ![l] = "none"] ELSE trig
  /\ Goto(p, "store")
  /\ cmd' = [cmd EXCEPT ![p] = Cmd(l, "OP_BRIGHTNESS", b)]
  /\ UNCHANGED <<devVars, mutex, bus, mcu, cache, value, pending, tries, owner>>

\* Defect: the work is not queued again while it is running.
LedsBrightnessSetUnlessBusy(p) ==
  /\ pc[p] = "store"
  /\ value' = [value EXCEPT ![cmd[p].led] = cmd[p].val]
  /\ pending' = [pending EXCEPT ![cmd[p].led] = @ \/ pc[cmd[p].led] = "idle"]
  /\ Return(p)
  /\ UNCHANGED <<devVars, mutex, bus, mcu, cache, trig, owner>>

\* leds_brightness_set past its tests: remember the value, queue the work.
LedsBrightnessSet(p) ==
  /\ pc[p] = "store"
  /\ value' = [value EXCEPT ![cmd[p].led] = cmd[p].val]
  /\ pending' = [pending EXCEPT ![cmd[p].led] = TRUE]
  /\ Return(p)
  /\ UNCHANGED <<devVars, mutex, bus, mcu, cache, trig, owner>>

\* color_set: values above 8 are refused, and led_sysfs access takes no lock.
ColorSet(p, l, s) ==
  /\ pc[p] = "idle" /\ Reachable(l) /\ s <= 8
  /\ Request(p, Cmd(l, "OP_COLOR", ColorOf(s)))
  /\ UNCHANGED <<devVars, userVars, mutex, bus, mcu, cache, owner>>

\* mcu_led_blink_set for trigger t and delay d.
BlinkSet(p, l, t, d) ==
  CASE t = "normal" ->
         IF cache[l].run \in {RUN_STATE_OFF, RUN_STATE_ON}
         THEN Return(p) ELSE Request(p, Cmd(l, "OP_ONOFF", LED_OFF))
    [] t = "timer2" ->
         IF d = 0 THEN Return(p)
         ELSE Request(p, Cmd(l, "OP_BLINK", BlinkTime(t, d)))
    [] t = "breath" -> Request(p, Cmd(l, "OP_BREATH", BlinkTime(t, d)))
    [] OTHER -> Return(p)

\* delay_on and delay_off of an attached trigger, stored as a pair.
DelayStore(p, l, d) ==
  /\ pc[p] = "idle" /\ Reachable(l) /\ trig[l] \in {"timer2", "breath"}
  /\ BlinkSet(p, l, trig[l], d)
  /\ UNCHANGED <<devVars, userVars, mutex, bus, mcu, cache, owner>>

\* led_trigger_store: an attached trigger is deactivated, which asks for
\* brightness 0, and the new one is attached.
TriggerStore(p, l, t) ==
  /\ pc[p] = "idle" /\ Reachable(l) /\ access[l] = NoOne /\ Drained(p, l)
  /\ trig[l] # "none" \/ t # "none"
  /\ trig' = [trig EXCEPT ![l] = t]
  /\ IF trig[l] = "none" THEN UNCHANGED <<value, pending>>
     ELSE /\ value' = [value EXCEPT ![l] = LED_OFF]
          /\ pending' = [pending EXCEPT ![l] = TRUE]
  /\ IF t = "none" THEN UNCHANGED <<procVars, access>>
     ELSE /\ access' = [access EXCEPT ![l] = p]
          /\ Goto(p, "activate")
          /\ cmd' = [cmd EXCEPT ![p] = Cmd(l, "OP_BLINK", 0)]
          /\ UNCHANGED tries
  /\ UNCHANGED <<devVars, mutex, bus, mcu, cache, owner>>

\* The activate callback.  The breath trigger first flushes the LED core's
\* set_brightness_work, which this driver never queues, and sleeps 30 ms;
\* timer2 only sleeps; neither waits for led->work.  The LED core has cleared
\* the delays, so blink_set gets 0 and 0.
Activate(p) ==
  /\ pc[p] = "activate"
  /\ LET l == cmd[p].led IN
       IF stopping THEN Return(p) ELSE BlinkSet(p, l, trig[l], 0)
  /\ UNCHANGED <<devVars, userVars, mutex, bus, mcu, cache, owner>>

SystemCall(p) ==
  \/ \E l \in Leds :
       \/ \E b \in Brightness : BrightnessStore(p, l, b)
       \/ \E s \in ColorRequests : ColorSet(p, l, s)
       \/ \E d \in Delays : DelayStore(p, l, d)
       \/ \E t \in Triggers \cup {"none"} : TriggerStore(p, l, t)
  \/ LedsBrightnessSet(p)
  \/ Activate(p)

----------------------------------------------------------------------------
(* Probe.  Probe writes without the lock and without reading the           *)
(* acknowledge register.                                                   *)

\* Up to the registration of the class devices: user space can come in now.
ProbeStart ==
  /\ drv = "unbound" /\ \A l \in Leds : ~pending[l]
  /\ drv' = "stats" /\ stopping' = FALSE /\ live' = Leds
  /\ UNCHANGED <<at, userVars, procVars, mutex, bus, mcu, cache, access, owner>>

\* init_leds_stats, after the registration.
InitLedsStats ==
  /\ drv = "stats"
  /\ drv' = "bright" /\ at' = 0
  /\ cache' = [l \in Leds |->
       [cache[l] EXCEPT !.brightness = 255, !.color = COLOR_NONE,
                        !.run = IF l = 0 THEN LED_ON ELSE LED_OFF]]
  /\ owner' = [l \in Leds |-> [r \in Regs |-> NoOne]]
  /\ UNCHANGED <<stopping, live, userVars, procVars, mutex, bus, mcu, access>>

\* init_leds goes on with the next LED, reading its state first.
NextLed == IF at + 1 = LED_COUNT THEN drv' = "bound" /\ at' = 0
                                 ELSE drv' = "read" /\ at' = at + 1

\* Defect: only a blinking or breathing LED counts as running.
ReadOkBlinkOnly ==
  LET m == mcu[at] IN
  IF m.run \in {RUN_STATE_OFF, RUN_STATE_ON} THEN UNCHANGED <<cache, owner>>
  ELSE /\ cache' = [cache EXCEPT ![at].run = m.run]
       /\ UNCHANGED owner

\* led_init_read_state for LED at: under the lock; a state other than OFF
\* goes into the cache.
ReadOk ==
  LET m == mcu[at] IN
  IF m.run = RUN_STATE_OFF THEN UNCHANGED <<cache, owner>>
  ELSE /\ cache' = [cache EXCEPT ![at].run = m.run, ![at].brightness = m.brightness,
                                 ![at].color = ColorRead(m.color)]
       /\ owner' = [owner EXCEPT ![at] = [r \in Regs |-> NoOne]]

InitLeds(failed) ==
  /\ drv \in {"read", "reread"} /\ mutex = NoOne
  /\ failed => MayFail(IF drv = "read" THEN RETRIES ELSE RETRIES - 1)
  /\ IF failed THEN UNCHANGED <<cache, owner>> ELSE ReadOk
  /\ IF failed /\ drv = "read" THEN drv' = "reread" /\ at' = at
     ELSE IF cache'[at].run # RUN_STATE_OFF THEN NextLed
     ELSE drv' = "bright" /\ at' = at
  /\ UNCHANGED <<stopping, live, userVars, procVars, mutex, bus, mcu, access>>

\* The two writes for LED at, each lost or not.
ProbeWrite(c) ==
  /\ \E arrives \in BOOLEAN :
       /\ arrives \/ MaxNaks = RETRIES
       /\ bus' = [by |-> Probe, ok |-> arrives]
       /\ mcu' = IF arrives THEN [mcu EXCEPT ![c.led] = Execute(@, c)] ELSE mcu
  /\ owner' = [owner EXCEPT ![c.led][RegOf(c.op)] = NoOne]
  /\ UNCHANGED <<stopping, live, userVars, procVars, mutex, cache, access>>

InitBrightness ==
  /\ drv = "bright" /\ drv' = "onoff" /\ at' = at
  /\ ProbeWrite(Cmd(at, "OP_BRIGHTNESS", cache[at].brightness))

InitOnOff ==
  /\ drv = "onoff" /\ NextLed
  /\ ProbeWrite(Cmd(at, "OP_ONOFF", cache[at].run))

----------------------------------------------------------------------------
(* Remove and shutdown: raise the flag, cancel the work items, unregister. *)

\* Defect: remove takes i2cmutex before it cancels the work.
RemoveStartLocked ==
  /\ Removable /\ drv = "bound" /\ mutex = NoOne
  /\ drv' = "cancel" /\ at' = 0 /\ stopping' = TRUE /\ mutex' = Probe
  /\ UNCHANGED <<live, userVars, procVars, bus, mcu, cache, access, owner>>

RemoveStart ==
  /\ Removable /\ drv = "bound"
  /\ drv' = "cancel" /\ at' = 0 /\ stopping' = TRUE
  /\ UNCHANGED <<live, userVars, procVars, mutex, bus, mcu, cache, access, owner>>

\* Defect: cancel_work, which does not wait.
CancelWorkNoSync ==
  /\ drv = "cancel"
  /\ pending' = [pending EXCEPT ![at] = FALSE]
  /\ IF at + 1 = LED_COUNT THEN drv' = "unregister" /\ at' = 0
                           ELSE drv' = drv /\ at' = at + 1
  /\ UNCHANGED <<stopping, live, value, trig, procVars, mutex, bus, mcu, cache,
                 access, owner>>

\* cancel_work_sync waits for a work item that is running.
CancelWork ==
  /\ drv = "cancel" /\ pc[at] = "idle"
  /\ pending' = [pending EXCEPT ![at] = FALSE]
  /\ IF at + 1 = LED_COUNT THEN drv' = "unregister" /\ at' = 0
                           ELSE drv' = drv /\ at' = at + 1
  /\ UNCHANGED <<stopping, live, value, trig, procVars, mutex, bus, mcu, cache,
                 access, owner>>

\* led_classdev_unregister waits for the system calls on that LED; what the
\* LED core asks of the driver meanwhile is refused by the flag.  After the
\* last LED g_client is cleared.
Unregister ==
  /\ drv = "unregister"
  /\ \A p \in Callers : ~(pc[p] # "idle" /\ cmd[p].led = at)
  /\ live' = live \ {at}
  /\ trig' = [trig EXCEPT ![at] = "none"]
  /\ IF at + 1 = LED_COUNT THEN drv' = "unbound" /\ at' = 0
                           ELSE drv' = drv /\ at' = at + 1
  /\ UNCHANGED <<stopping, value, pending, procVars, mutex, bus, mcu, cache,
                 access, owner>>

----------------------------------------------------------------------------
Init ==
  /\ drv = "unbound" /\ at = 0 /\ stopping = FALSE /\ live = {}
  /\ mutex = NoOne /\ bus = Quiet
  /\ mcu \in [Leds -> [run : BootRuns, time : {0}, brightness : {0},
                       color : {COLOR_WHITE}]]
  /\ cache = [l \in Leds |-> [run |-> 0, t_blink |-> 0, t_breath |-> 0,
                              brightness |-> 0, color |-> COLOR_NONE]]
  /\ value = [l \in Leds |-> 0]
  /\ pending = [l \in Leds |-> FALSE]
  /\ trig = [l \in Leds |-> "none"]
  /\ access = [l \in Leds |-> NoOne]
  /\ pc = [p \in Procs |-> "idle"]
  /\ cmd = [p \in Procs |-> NoCmd]
  /\ tries = [p \in Procs |-> 0]
  /\ owner = [l \in Leds |-> [r \in Regs |-> NoOne]]

ProbeRemove ==
  \/ ProbeStart \/ InitLedsStats \/ (\E failed \in BOOLEAN : InitLeds(failed))
  \/ InitBrightness \/ InitOnOff
  \/ RemoveStart \/ CancelWork \/ Unregister

Next ==
  \/ \E p \in Procs : Protocol(p)
  \/ \E l \in Leds : McuWork(l)
  \/ \E p \in Callers : SystemCall(p)
  \/ ProbeRemove

Spec == Init /\ [][Next]_vars

\* A thread that may run does run; i2cmutex hands over to its waiters, so a
\* thread that finds it free again and again gets it; bad acknowledges do not
\* last (the number of them is bounded by MaxNaks).
Fairness ==
  /\ \A p \in Procs : SF_vars(Lock(p)) /\ WF_vars(Ack(p) \/ Nak(p))
                      /\ WF_vars(Commit(p) \/ CommitTimes(p))
  /\ \A l \in Leds : WF_vars(McuWork(l))
  /\ \A p \in Callers : WF_vars(LedsBrightnessSet(p) \/ Activate(p))
  /\ WF_vars(ProbeRemove /\ drv # "bound")

FairSpec == Spec /\ Fairness

----------------------------------------------------------------------------
TypeOK ==
  /\ drv \in Phases /\ at \in Leds
  /\ stopping \in BOOLEAN /\ live \subseteq Leds
  /\ mutex \in Procs \cup {NoOne}
  /\ bus \in [by : Procs \cup {NoOne, Probe}, ok : BOOLEAN]
  /\ mcu \in [Leds -> McuState] /\ cache \in [Leds -> LedState]
  /\ value \in [Leds -> 0 .. 255] /\ pending \in [Leds -> BOOLEAN]
  /\ trig \in [Leds -> Triggers \cup {"none"}]
  /\ access \in [Leds -> Callers \cup {NoOne}]
  /\ pc \in [Procs -> Steps] /\ cmd \in [Procs -> Command]
  /\ tries \in [Procs -> 0 .. RETRIES]
  /\ owner \in [Leds -> [Regs -> Procs \cup {NoOne}]]

----------------------------------------------------------------------------
(* Safety.                                                                 *)

\* The acknowledge a thread waits for can only be for its own write or for a
\* write of probe, the one sender that does not take i2cmutex: two system
\* calls or work items never read each other's acknowledge.
AckIsOwn ==
  \A p \in Procs : pc[p] = "ack" => mutex = p /\ bus.by \in {p, Probe}

\* p has written register r of LED l and has not finished with the cache.
InFlight(p, l, r) ==
  /\ pc[p] \in {"ack", "commit", "times"}
  /\ cmd[p].led = l /\ RegOf(cmd[p].op) = r

\* Cache s shows in register r what the MCU m shows.
Agree(m, s, r) ==
  CASE r = "brightness" -> s.brightness = m.brightness
    [] r = "color" -> s.color = m.color
    [] r = "run" -> /\ s.run = m.run
                    /\ m.run = RUN_STATE_BLINK => s.t_blink = m.time
                    /\ m.run = RUN_STATE_BREATH => s.t_breath = m.time

\* The cache that suppresses repeated requests is right wherever the last
\* command was acknowledged to its sender and neither overlapped another
\* thread's update of the cache nor probe: only an exhausted retry, an overlap
\* or probe itself can make cur_state differ from the controller.
CacheExact ==
  \A l \in Leds, r \in Regs :
    (owner[l][r] # NoOne /\ ~InFlight(owner[l][r], l, r)) =>
      Agree(mcu[l], cache[l], r)

\* After remove nothing of the driver is running: no thread is inside a
\* command and i2cmutex, which remove destroys, is free.
RemoveQuiesces ==
  drv = "unbound" => mutex = NoOne /\ \A p \in Procs : pc[p] = "idle"

\* Binding the driver to a controller that is already running, with no user
\* yet, leaves an LED other than the power LED that is not off as it is; only
\* two failed reads in a row would make probe switch it off.
WarmProbe ==
  [][\A l \in Leds \ {0} :
       (drv \in {"stats", "read", "reread", "bright", "onoff"}
          /\ mcu[l].run # RUN_STATE_OFF) =>
         mcu'[l] = mcu[l]]_vars

----------------------------------------------------------------------------
(* Liveness.                                                               *)

Storing(l, b) ==
  \E p \in Callers : pc[p] = "store" /\ cmd[p].led = l /\ cmd[p].val = b

\* A brightness that was asked for is shown by the controller, or replaced by
\* a later request, or the driver is removed: queueing a work item that is
\* already queued or running loses nothing.
BrightnessApplied ==
  \A l \in Leds, b \in Brightness :
    Storing(l, b) ~>
      \/ drv # "bound"
      \/ value[l] = b /\ Shows(mcu[l], BrightnessCmd(l, b))
      \/ value[l] # b /\ ~Storing(l, b)

\* Every system call and every work item comes to its end.
CallsReturn == \A p \in Procs : (pc[p] # "idle") ~> (pc[p] = "idle")

\* Remove comes to its end: it never waits for a work item or a system call
\* that itself waits.
RemoveCompletes == (drv = "cancel") ~> (drv = "unbound")

----------------------------------------------------------------------------
(* What the driver promises: LedRegisters.                                 *)

\* A register's contents; how fast an LED blinks counts only while it does.
Reading(run, time) ==
  IF run \in {RUN_STATE_BLINK, RUN_STATE_BREATH} THEN <<run, time>> ELSE <<run>>
ShownIn(m) ==
  [r \in Regs |-> CASE r = "brightness" -> <<m.brightness>>
                    [] r = "color" -> <<m.color>>
                    [] OTHER -> Reading(m.run, m.time)]
KnownIn(s) ==
  [r \in Regs |-> CASE r = "brightness" -> <<s.brightness>>
                    [] r = "color" -> <<s.color>>
                    [] OTHER -> Reading(s.run, IF s.run = RUN_STATE_BLINK
                                               THEN s.t_blink ELSE s.t_breath)]
Want(b) == [reg |-> IF b \in {LED_OFF, LED_ON} THEN "run" ELSE "brightness", val |-> <<b>>]

\* The thread whose command stands has finished with it.
SettledOn(l, r) ==
  IF owner[l][r] # NoOne /\ ~InFlight(owner[l][r], l, r) THEN owner[l][r] ELSE NoOne

Shown == [l \in Leds |-> ShownIn(mcu[l])]
Known == [l \in Leds |-> KnownIn(cache[l])]
Settled == [l \in Leds |-> [r \in Regs |-> SettledOn(l, r)]]
Asked == [l \in Leds |-> Want(value[l])]
Due == {l \in Leds : pending[l] \/ pc[l] # "idle"}
Serving == drv \in {"read", "reread", "bright", "onoff", "bound"}

Registers == INSTANCE LedRegisters WITH
  Agents <- Procs, Wants <- {Want(b) : b \in 0 .. 255},
  shown <- Shown, known <- Known, settled <- Settled,
  asked <- Asked, due <- Due, serving <- Serving

\* The driver keeps what LedRegisters promises: what is acknowledged stays and
\* stays known until somebody sends another command, and a work item that is
\* done has left the LED as it was asked to be last (leds_brightness_set,
\* mcu_work and the operations, against probe and remove).
Implements == Registers!RegSpec

=============================================================================
