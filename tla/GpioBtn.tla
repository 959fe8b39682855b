------------------------------ MODULE GpioBtn ------------------------------
(***************************************************************************)
(* The buttons of ug_gpio_btn.c: a timer samples every button each 50 ms,  *)
(* counts how long it is held and reports the reset (F24) and power (F20)  *)
(* keys to the input core; probe and remove set the timer, the mapped      *)
(* registers and the input device up and down without a lock.              *)
(*                                                                         *)
(* A handler runs in interrupt context: on one CPU nothing else moves      *)
(* while it runs, with Smp everything may.                                 *)
(***************************************************************************)
EXTENDS Naturals

CONSTANTS
  N,            \* buttons, 1 .. N in the order of btnSatate
  Code,         \* the key of each button, "F20" or "F24"
  PressAt,      \* the sample of a hold at which the key is reported pressed
  ReleaseFrom,  \* the shortest hold at whose end the key is reported released
  SeenMax,      \* where the count of samples stops
  Smp,          \* whether other CPUs run while the handler does
  Fails,        \* whether mapping a register or setting up the input device may fail
  Rebinds       \* whether the driver may be bound again after its removal

Buttons == 1 .. N

ASSUME ButtonAssumption ==
  /\ N \in Nat /\ SeenMax \in Nat
  /\ Code \in [Buttons -> {"F20", "F24"}]
  /\ PressAt \in [Buttons -> Nat] /\ ReleaseFrom \in [Buttons -> Nat]
  /\ \A b \in Buttons :
       1 \leq PressAt[b] /\ PressAt[b] \leq SeenMax /\ ReleaseFrom[b] \leq SeenMax
  /\ {Smp, Fails, Rebinds} \subseteq BOOLEAN

VARIABLES
  phase,     \* where probe or remove is
  mapped,    \* per button: its register is mapped (base)
  pending,   \* x86btn_timer is queued
  ukey,      \* ug_key: "none", "live" or "freed"
  level,     \* per button: it is pressed
  at, hbtn,  \* the handler's step and its button
  val,       \* the sample the handler has read
  seen, prestate, last_report,
  down,      \* per button: the input core holds its key for pressed
  \* History, which no step depends on:
  last,      \* per button: samples of the last hold that pressed the key
  raced      \* a tick came before probe was done, or remove found the handler
             \* running, and no del_timer has found it idle since

btnvars == <<seen, prestate, last_report>>
hvars == <<last, raced>>
vars == <<phase, mapped, pending, ukey, level, at, hbtn, val, btnvars, down, hvars>>

Phases == {"unbound", "mapped", "timed", "bound", "failed", "unmapped", "stopped"}

\* Process context runs: on one CPU not while the handler does.
Running == Smp \/ at = "idle"

----------------------------------------------------------------------------
(* btn_monitor.                                                            *)

Fire ==
  /\ pending /\ at = "idle"
  /\ pending' = FALSE
  /\ hbtn' = 1 /\ at' = "check"
  /\ raced' = (raced \/ phase \in {"mapped", "timed"})
  /\ UNCHANGED <<phase, mapped, ukey, level, val, btnvars, down, last>>

\* A button whose register is not mapped is passed over.
Check ==
  /\ at = "check" /\ hbtn \in Buttons
  /\ \/ mapped[hbtn] /\ at' = "read" /\ UNCHANGED hbtn
     \/ ~mapped[hbtn] /\ hbtn' = hbtn + 1 /\ UNCHANGED at
  /\ UNCHANGED <<phase, mapped, pending, ukey, level, val, btnvars, down, hvars>>

\* A register that was unmapped since the check reads as anything.
Read ==
  /\ at = "read"
  /\ val' \in IF mapped[hbtn] THEN {level[hbtn]} ELSE BOOLEAN
  /\ at' = "report"
  /\ UNCHANGED <<phase, mapped, pending, ukey, level, hbtn, btnvars, down, hvars>>

Presses(b) == val /\ seen[b] < SeenMax /\ seen[b] + 1 = PressAt[b]

\* Defect: a count that passes the limit starts again.
SeenAfterWraps(b) ==
  IF ~val THEN 0 ELSE IF seen[b] < SeenMax THEN seen[b] + 1 ELSE 0

SeenAfter(b) ==
  IF ~val THEN 0 ELSE IF seen[b] < SeenMax THEN seen[b] + 1 ELSE seen[b]

\* Defect: the release is reported only while the count is still short of the
\* limit.
ReleasesUnlessLong(b) ==
  /\ ~val /\ seen[b] \geq ReleaseFrom[b] /\ seen[b] < SeenMax
  /\ Code[b] = "F20" => prestate[b] # val

Releases(b) ==
  /\ ~val /\ seen[b] \geq ReleaseFrom[b]
  /\ Code[b] = "F20" => prestate[b] # val

Report ==
  /\ at = "report"
  /\ LET b == hbtn IN
     /\ down' = [down EXCEPT ![b] = Presses(b) \/ (@ /\ ~Releases(b))]
     /\ last_report' = [last_report EXCEPT ![b] = Presses(b) \/ (@ /\ ~Releases(b))]
     /\ last' = [last EXCEPT ![b] =
          IF Presses(b) THEN PressAt[b]
          ELSE IF val /\ seen[b] \geq PressAt[b] /\ @ \leq SeenMax THEN @ + 1 ELSE @]
     /\ seen' = [seen EXCEPT ![b] = SeenAfter(b)]
     /\ prestate' = [prestate EXCEPT ![b] = val]
  /\ at' = "check" /\ hbtn' = hbtn + 1
  /\ UNCHANGED <<phase, mapped, pending, ukey, level, val, raced>>

\* mod_timer, whatever happened meanwhile.
Rearm ==
  /\ at = "check" /\ hbtn \notin Buttons
  /\ pending' = TRUE
  /\ at' = "idle"
  /\ UNCHANGED <<phase, mapped, ukey, level, hbtn, val, btnvars, down, hvars>>

HandlerStep == Check \/ Read \/ Report \/ Rearm

\* Somebody presses or lets go of a button.
Toggle(b) ==
  /\ level' = [level EXCEPT ![b] = ~@]
  /\ UNCHANGED <<phase, mapped, pending, ukey, at, hbtn, val, btnvars, down, hvars>>

----------------------------------------------------------------------------
(* ug_gpiokey_probe.                                                       *)

\* hwinit.  ioremap may fail, for each button on its own; the DXP2800 GT, whose
\* hwinit then goes through the null pointer, does not get further.
ProbeMap ==
  /\ Running /\ phase = "unbound" /\ (Rebinds \/ ukey = "none")
  /\ phase' = "mapped"
  /\ mapped' \in IF Fails THEN [Buttons -> BOOLEAN] ELSE {[b \in Buttons |-> TRUE]}
  /\ UNCHANGED <<pending, ukey, level, at, hbtn, val, btnvars, down, hvars>>

\* The timer is queued before there is an input device.
ProbeTimer ==
  /\ Running /\ phase = "mapped"
  /\ phase' = "timed" /\ pending' = TRUE
  /\ UNCHANGED <<mapped, ukey, level, at, hbtn, val, btnvars, down, hvars>>

\* The input device is allocated and registered; it holds no key for pressed.
ProbeInput ==
  /\ Running /\ phase = "timed"
  /\ phase' = "bound"
  /\ ukey' = "live" /\ down' = [b \in Buttons |-> FALSE]
  /\ UNCHANGED <<mapped, pending, level, at, hbtn, val, btnvars, hvars>>

\* No memory, or the registration fails: what is set up already stays.
ProbeFail ==
  /\ Running /\ phase = "timed" /\ Fails
  /\ phase' = "failed"
  /\ \E k \in {"none", "freed"} : ukey' = k
  /\ UNCHANGED <<mapped, pending, level, at, hbtn, val, btnvars, down, hvars>>

----------------------------------------------------------------------------
(* ug_gpiokey_remove.                                                      *)

\* hw_unioremap.
RemoveUnmap ==
  /\ Running /\ phase = "bound"
  /\ phase' = "unmapped"
  /\ mapped' = [b \in Buttons |-> FALSE]
  /\ raced' = (raced \/ at # "idle")
  /\ UNCHANGED <<pending, ukey, level, at, hbtn, val, btnvars, down, last>>

\* Defect: the timer runs on.
RemoveTimerForgotten ==
  /\ Running /\ phase = "unmapped"
  /\ phase' = "stopped"
  /\ UNCHANGED <<mapped, pending, ukey, level, at, hbtn, val, btnvars, down, hvars>>

\* del_timer, which does not wait for the handler.
RemoveTimer ==
  /\ Running /\ phase = "unmapped"
  /\ phase' = "stopped" /\ pending' = FALSE
  /\ raced' = (at # "idle")
  /\ UNCHANGED <<mapped, ukey, level, at, hbtn, val, btnvars, down, last>>

RemoveInput ==
  /\ Running /\ phase = "stopped"
  /\ phase' = "unbound" /\ ukey' = "freed"
  /\ UNCHANGED <<mapped, pending, level, at, hbtn, val, btnvars, down, hvars>>

----------------------------------------------------------------------------
\* The product was recognised: every button is at rest, nothing is mapped.
Init ==
  /\ phase = "unbound" /\ mapped = [b \in Buttons |-> FALSE]
  /\ pending = FALSE /\ ukey = "none"
  /\ level \in [Buttons -> BOOLEAN]
  /\ at = "idle" /\ hbtn = 1 /\ val = FALSE
  /\ seen = [b \in Buttons |-> 0] /\ prestate = [b \in Buttons |-> FALSE]
  /\ last_report = [b \in Buttons |-> FALSE]
  /\ down = [b \in Buttons |-> FALSE] /\ last = [b \in Buttons |-> 0]
  /\ raced = FALSE

Probe == ProbeMap \/ ProbeTimer \/ ProbeInput \/ ProbeFail
Remove == RemoveUnmap \/ RemoveTimer \/ RemoveInput

Next ==
  \/ Fire \/ HandlerStep \/ \E b \in Buttons : Toggle(b)
  \/ Probe \/ Remove

Spec == Init /\ [][Next]_vars

\* Timers expire, a handler that runs goes on, and so does a probe.
Fairness == WF_vars(Fire) /\ WF_vars(HandlerStep) /\ WF_vars(Probe)
FairSpec == Spec /\ Fairness

----------------------------------------------------------------------------
TypeOK ==
  /\ phase \in Phases /\ mapped \in [Buttons -> BOOLEAN]
  /\ pending \in BOOLEAN /\ ukey \in {"none", "live", "freed"}
  /\ level \in [Buttons -> BOOLEAN]
  /\ at \in {"idle", "check", "read", "report"} /\ hbtn \in 1 .. N + 1
  /\ val \in BOOLEAN
  /\ seen \in [Buttons -> 0 .. SeenMax] /\ prestate \in [Buttons -> BOOLEAN]
  /\ last_report \in [Buttons -> BOOLEAN] /\ down \in [Buttons -> BOOLEAN]
  /\ last \in [Buttons -> 0 .. SeenMax + 1] /\ raced \in BOOLEAN

----------------------------------------------------------------------------
(* Safety.                                                                 *)

\* The handler reads no register that has been unmapped.
MapAlive == at = "read" => mapped[hbtn]

\* It reports to an input device that exists, unless a failed probe left it
\* running without one.
KeyAlive == at = "report" /\ phase # "failed" => ukey = "live"

\* A driver that is not bound has no timer queued, for add_timer of the next
\* probe to meet, and no handler running.
TimerGone == phase \in {"unbound", "mapped", "stopped"} => ~pending /\ at = "idle"

\* Without a lock all this holds through any number of probes and removals, on
\* any number of CPUs, but for two races: remove that finds the handler running,
\* and a tick that comes before probe is done, more than 50 ms after add_timer.
\* A later removal that finds the handler idle when it deletes the timer ends
\* what such a race has left.
HandlerSafe == raced \/ (MapAlive /\ KeyAlive /\ TimerGone)

\* A key that the input core still holds for pressed although its button was
\* found released was left so by a hold that was long enough to press it and
\* too short to release it: one of PressAt .. ReleaseFrom - 1 samples.  A
\* button with ReleaseFrom \leq PressAt never leaves its key pressed.
StuckOnlyByWindow ==
  \A b \in Buttons : down[b] /\ seen[b] = 0 =>
    PressAt[b] \leq last[b] /\ last[b] < ReleaseFrom[b]

----------------------------------------------------------------------------
(* Liveness.                                                               *)

\* A button whose register is mapped and whose shortest releasing hold is no
\* longer than the one that presses the key: once it is let go for good the key
\* is reported released.
KeyReleased ==
  \A b \in Buttons : ReleaseFrom[b] \leq PressAt[b] =>
    [](([](phase = "bound" /\ mapped[b] /\ ~level[b])) => <>~down[b])

=============================================================================
