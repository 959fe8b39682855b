------------------------------ MODULE Beeper ------------------------------
(***************************************************************************)
(* The beeper of ug_sataio_beeper.c (and, with the same code,              *)
(* ug-beeper-dxp480t.c): writers of /proc/nas/beeper, the timer            *)
(* beeper_timer that sounds a series of beeps, the delayed work that ends  *)
(* each beep, and the module's exit.  Nothing in this code takes a lock.   *)
(*                                                                         *)
(* The timer core, the workqueue and procfs are the kernel's.  A handler   *)
(* runs in interrupt context: on one CPU nothing else moves while it runs, *)
(* with Smp everything may.                                                *)
(***************************************************************************)
EXTENDS Naturals

CONSTANTS
  Writers,   \* processes that write /proc/nas/beeper
  Commands,  \* what they write: [op, n, off, on]
  Smp,       \* whether other CPUs run while the timer handler does
  MaxBeeps,  \* bound: beeps of one series that are told apart
  MaxCount,  \* bound: values of the handler's counter that are told apart
  Unloads    \* whether the module may be unloaded

Ops == {"on", "off", "one", "timer", "rep"}
NoCommand == [op |-> "none", n |-> 0, off |-> 1, on |-> 1]

ASSUME BeeperAssumption ==
  /\ Commands # {}
  /\ \A c \in Commands :
       c.op \in Ops /\ c.n \in Nat /\ c.off \in Nat \ {0} /\ c.on \in Nat \ {0}
  /\ Smp \in BOOLEAN /\ Unloads \in BOOLEAN
  /\ MaxBeeps \in Nat /\ MaxCount \in Nat
  /\ \A c \in Commands : c.n \leq MaxCount

VARIABLES
  phase,        \* how far the module's exit has come
  pending,      \* beeper_timer is queued
  timerStatus,  \* what the driver believes of the timer
  g_count,      \* length of the series, 0 without end
  count,        \* the handler's static counter
  delay_off, delay_on,
  sound,        \* the speaker is on
  work,         \* beeper_delay_work is queued
  wpc,          \* where the running work is
  hpc,          \* where the timer handler is
  pc, cmd,      \* per writer: its step and its command
  \* History, which no step depends on:
  held,         \* the speaker was last opened by "on"
  beeps,        \* beeps since the last timer or rep command took effect
  missed,       \* the length of the series was set when count had reached it
  raced         \* since the last command that stopped the timer undisturbed, two
                \* writers overlapped or del_timer found the handler running

hvars == <<held, beeps, missed, raced>>
vars == <<phase, pending, timerStatus, g_count, count, delay_off, delay_on,
          sound, work, wpc, hpc, pc, cmd, hvars>>

Phases == {"loaded", "removing", "removed", "cancelled", "gone"}
Steps == {"idle", "del", "clear", "sound", "sched", "set", "check", "add", "started"}

\* Process context, work items included, runs: on one CPU not while the timer
\* handler does, and never once the module is gone.
Running == phase # "gone" /\ (Smp \/ hpc = "idle")

Goto(w, step) == pc' = [pc EXCEPT ![w] = step] /\ UNCHANGED cmd
Return(w) == pc' = [pc EXCEPT ![w] = "idle"] /\ cmd' = [cmd EXCEPT ![w] = NoCommand]

AllOut == \A w \in Writers : pc[w] = "idle"
Alone(w) == \A v \in Writers \ {w} : pc[v] = "idle"

\* set_beeper opens the speaker; h: by "on", nothing will close it.
Open(h) == sound' = TRUE /\ held' = h

----------------------------------------------------------------------------
(* beeper_write.                                                           *)

Write(w, c) ==
  /\ Running /\ phase = "loaded" /\ pc[w] = "idle"
  /\ cmd' = [cmd EXCEPT ![w] = c]
  /\ pc' = [pc EXCEPT ![w] = IF c.op \in {"on", "off", "one"} THEN "del" ELSE "set"]
  /\ raced' = (raced \/ ~AllOut)
  /\ UNCHANGED <<phase, pending, timerStatus, g_count, count, delay_off,
                 delay_on, sound, work, wpc, hpc, held, beeps, missed>>

\* Defect: the command does not stop the timer.
DelTimerForgotten(w) ==
  /\ Running /\ pc[w] = "del"
  /\ Goto(w, "clear")
  /\ UNCHANGED <<phase, pending, timerStatus, g_count, count, delay_off,
                 delay_on, sound, work, wpc, hpc, hvars>>

\* on, off and one: del_timer, which does not wait for the handler.
DelTimer(w) ==
  /\ Running /\ pc[w] = "del"
  /\ pending' = FALSE
  /\ Goto(w, "clear")
  /\ raced' = ~(hpc = "idle" /\ Alone(w))
  /\ UNCHANGED <<phase, timerStatus, g_count, count, delay_off, delay_on,
                 sound, work, wpc, hpc, held, beeps, missed>>

ClearStatus(w) ==
  /\ Running /\ pc[w] = "clear"
  /\ timerStatus' = 0
  /\ Goto(w, "sound")
  /\ UNCHANGED <<phase, pending, g_count, count, delay_off, delay_on, sound,
                 work, wpc, hpc, hvars>>

SetBeeper(w) ==
  /\ Running /\ pc[w] = "sound"
  /\ \/ cmd[w].op = "on" /\ Open(TRUE) /\ Return(w)
     \/ cmd[w].op = "one" /\ Open(FALSE) /\ Goto(w, "sched")
     \/ cmd[w].op = "off" /\ sound' = FALSE /\ held' = FALSE /\ Return(w)
  /\ UNCHANGED <<phase, pending, timerStatus, g_count, count, delay_off,
                 delay_on, work, wpc, hpc, beeps, missed, raced>>

\* Defect: one opens the speaker and queues nothing to close it.
ScheduleForgotten(w) ==
  /\ Running /\ pc[w] = "sched"
  /\ Return(w)
  /\ UNCHANGED <<phase, pending, timerStatus, g_count, count, delay_off,
                 delay_on, sound, work, wpc, hpc, hvars>>

\* schedule_delayed_work: a work that is queued already stays as it is.
Schedule(w) ==
  /\ Running /\ pc[w] = "sched"
  /\ work' = TRUE
  /\ Return(w)
  /\ UNCHANGED <<phase, pending, timerStatus, g_count, count, delay_off,
                 delay_on, sound, wpc, hpc, hvars>>

\* timer and rep: the delays, and for rep the length of the series.  The
\* handler's own counter is left as it is.
SetDelays(w) ==
  /\ Running /\ pc[w] = "set"
  /\ delay_off' = cmd[w].off /\ delay_on' = cmd[w].on
  /\ g_count' = IF cmd[w].op = "rep" THEN cmd[w].n ELSE g_count
  /\ beeps' = 0
  /\ missed' = (g_count' # 0 /\ count \geq g_count')
  /\ Goto(w, "check")
  /\ UNCHANGED <<phase, pending, timerStatus, count, sound, work, wpc, hpc, held, raced>>

CheckStatus(w) ==
  /\ Running /\ pc[w] = "check"
  /\ IF timerStatus = 0 THEN Goto(w, "add") ELSE Return(w)
  /\ UNCHANGED <<phase, pending, timerStatus, g_count, count, delay_off,
                 delay_on, sound, work, wpc, hpc, hvars>>

AddTimer(w) ==
  /\ Running /\ pc[w] = "add"
  /\ pending' = TRUE
  /\ beeps' = 0
  /\ Goto(w, "started")
  /\ UNCHANGED <<phase, timerStatus, g_count, count, delay_off, delay_on,
                 sound, work, wpc, hpc, held, missed, raced>>

\* Defect: the driver does not note that the timer runs.
SetStatusForgotten(w) ==
  /\ Running /\ pc[w] = "started"
  /\ Return(w)
  /\ UNCHANGED <<phase, pending, timerStatus, g_count, count, delay_off,
                 delay_on, sound, work, wpc, hpc, hvars>>

SetStatus(w) ==
  /\ Running /\ pc[w] = "started"
  /\ timerStatus' = 1
  /\ Return(w)
  /\ UNCHANGED <<phase, pending, g_count, count, delay_off, delay_on, sound,
                 work, wpc, hpc, hvars>>

WriterStep(w) ==
  \/ DelTimer(w) \/ ClearStatus(w) \/ SetBeeper(w) \/ Schedule(w)
  \/ SetDelays(w) \/ CheckStatus(w) \/ AddTimer(w) \/ SetStatus(w)

----------------------------------------------------------------------------
(* beeperTimerHandle.  The delays are set before the timer is ever added,  *)
(* so its defaults for missing delays never apply.                         *)

Fire ==
  /\ pending /\ hpc = "idle" /\ phase # "gone"
  /\ pending' = FALSE
  /\ Open(FALSE)
  /\ beeps' = IF beeps < MaxBeeps THEN beeps + 1 ELSE beeps
  /\ hpc' = "sched"
  /\ UNCHANGED <<phase, timerStatus, g_count, count, delay_off, delay_on,
                 work, wpc, pc, cmd, missed, raced>>

\* Defect: the handler does not queue the work that ends the beep.
FireScheduleForgotten ==
  /\ hpc = "sched" /\ phase # "gone"
  /\ hpc' = "arm"
  /\ UNCHANGED <<phase, pending, timerStatus, g_count, count, delay_off,
                 delay_on, sound, work, wpc, pc, cmd, hvars>>

FireSchedule ==
  /\ hpc = "sched" /\ phase # "gone"
  /\ work' = TRUE
  /\ hpc' = "arm"
  /\ UNCHANGED <<phase, pending, timerStatus, g_count, count, delay_off,
                 delay_on, sound, wpc, pc, cmd, hvars>>

\* mod_timer: the next beep, whatever the writers did meanwhile.
Rearm ==
  /\ hpc = "arm" /\ phase # "gone"
  /\ pending' = TRUE
  /\ hpc' = "count"
  /\ UNCHANGED <<phase, timerStatus, g_count, count, delay_off, delay_on,
                 sound, work, wpc, pc, cmd, hvars>>

\* The real counter, an int, wraps only in a series without an end, after 2^31
\* beeps of at least 40 ms.
CountUp == IF count < MaxCount THEN count + 1 ELSE count

\* Defect: the counter does not survive from one call of the handler to the
\* next.
CountNotStatic ==
  /\ hpc = "count" /\ phase # "gone"
  /\ \/ g_count = 1
        /\ pending' = FALSE /\ hpc' = "finish" /\ UNCHANGED count
     \/ g_count # 1
        /\ hpc' = "idle" /\ UNCHANGED <<pending, count>>
  /\ UNCHANGED <<phase, timerStatus, g_count, delay_off, delay_on, sound, work,
                 wpc, pc, cmd, hvars>>

\* Defect: the series is one beep too long.
CountTooLate ==
  /\ hpc = "count" /\ phase # "gone"
  /\ \/ g_count # 0 /\ count = g_count
        /\ pending' = FALSE /\ hpc' = "finish" /\ UNCHANGED count
     \/ g_count # 0 /\ count # g_count
        /\ count' = CountUp /\ hpc' = "idle" /\ UNCHANGED pending
     \/ g_count = 0 /\ hpc' = "idle" /\ UNCHANGED <<pending, count>>
  /\ UNCHANGED <<phase, timerStatus, g_count, delay_off, delay_on, sound, work,
                 wpc, pc, cmd, hvars>>

\* A series of g_count beeps: the last one takes the timer off again.
Count ==
  /\ hpc = "count" /\ phase # "gone"
  /\ \/ g_count # 0 /\ count + 1 = g_count
        /\ pending' = FALSE /\ hpc' = "finish" /\ UNCHANGED count
     \/ g_count # 0 /\ count + 1 # g_count
        /\ count' = CountUp /\ hpc' = "idle" /\ UNCHANGED pending
     \/ g_count = 0 /\ hpc' = "idle" /\ UNCHANGED <<pending, count>>
  /\ UNCHANGED <<phase, timerStatus, g_count, delay_off, delay_on, sound, work,
                 wpc, pc, cmd, hvars>>

Finish ==
  /\ hpc = "finish" /\ phase # "gone"
  /\ timerStatus' = 0 /\ count' = 0
  /\ hpc' = "idle"
  /\ missed' = FALSE
  /\ UNCHANGED <<phase, pending, g_count, delay_off, delay_on, sound, work,
                 wpc, pc, cmd, held, beeps, raced>>

HandlerStep == FireSchedule \/ Rearm \/ Count \/ Finish

----------------------------------------------------------------------------
(* beeper_delay_work_func ends a beep.                                     *)

WorkStart ==
  /\ Running /\ work /\ wpc = "idle"
  /\ work' = FALSE /\ wpc' = "close"
  /\ UNCHANGED <<phase, pending, timerStatus, g_count, count, delay_off,
                 delay_on, sound, hpc, pc, cmd, hvars>>

WorkClose ==
  /\ Running /\ wpc = "close"
  /\ wpc' = "idle" /\ sound' = FALSE
  /\ UNCHANGED <<phase, pending, timerStatus, g_count, count, delay_off,
                 delay_on, work, hpc, pc, cmd, hvars>>

----------------------------------------------------------------------------
(* sataio_beep_exit.                                                       *)

\* remove_proc_entry lets no new writer in ...
ExitBegin ==
  /\ Running /\ Unloads /\ phase = "loaded"
  /\ phase' = "removing"
  /\ UNCHANGED <<pending, timerStatus, g_count, count, delay_off, delay_on,
                 sound, work, wpc, hpc, pc, cmd, hvars>>

\* ... and waits for those that are inside.
ProcRemoved ==
  /\ Running /\ phase = "removing" /\ AllOut
  /\ phase' = "removed"
  /\ UNCHANGED <<pending, timerStatus, g_count, count, delay_off, delay_on,
                 sound, work, wpc, hpc, pc, cmd, hvars>>

\* cancel_delayed_work_sync.
CancelWork ==
  /\ Running /\ phase = "removed" /\ wpc = "idle"
  /\ phase' = "cancelled" /\ work' = FALSE
  /\ UNCHANGED <<pending, timerStatus, g_count, count, delay_off, delay_on,
                 sound, wpc, hpc, pc, cmd, hvars>>

\* Defect: exit takes the timer off only if it believes it idle.
ExitTimerInverted ==
  /\ Running /\ phase = "cancelled"
  /\ phase' = "gone"
  /\ pending' = IF timerStatus = 1 THEN pending ELSE FALSE
  /\ raced' = (raced \/ hpc # "idle")
  /\ UNCHANGED <<timerStatus, g_count, count, delay_off, delay_on, sound,
                 work, wpc, hpc, pc, cmd, held, beeps, missed>>

\* del_timer, if the driver believes the timer is running.
ExitTimer ==
  /\ Running /\ phase = "cancelled"
  /\ phase' = "gone"
  /\ pending' = IF timerStatus = 1 THEN FALSE ELSE pending
  /\ raced' = (raced \/ hpc # "idle")
  /\ UNCHANGED <<timerStatus, g_count, count, delay_off, delay_on, sound,
                 work, wpc, hpc, pc, cmd, held, beeps, missed>>

Exit == ExitBegin \/ ProcRemoved \/ CancelWork \/ ExitTimer

----------------------------------------------------------------------------
Init ==
  /\ phase = "loaded" /\ pending = FALSE /\ timerStatus = 0
  /\ g_count = 0 /\ count = 0 /\ delay_off = 0 /\ delay_on = 0
  /\ sound = FALSE /\ work = FALSE /\ wpc = "idle" /\ hpc = "idle"
  /\ pc = [w \in Writers |-> "idle"]
  /\ cmd = [w \in Writers |-> NoCommand]
  /\ held = FALSE /\ beeps = 0 /\ missed = FALSE /\ raced = FALSE

Next ==
  \/ \E w \in Writers : (\E c \in Commands : Write(w, c)) \/ WriterStep(w)
  \/ Fire \/ HandlerStep
  \/ WorkStart \/ WorkClose
  \/ Exit

Spec == Init /\ [][Next]_vars

\* Timers expire, work items run and a writer that is inside its call goes on.
Fairness ==
  /\ \A w \in Writers : WF_vars(WriterStep(w))
  /\ WF_vars(Fire) /\ WF_vars(HandlerStep)
  /\ WF_vars(WorkStart) /\ WF_vars(WorkClose)

FairSpec == Spec /\ Fairness

----------------------------------------------------------------------------
TypeOK ==
  /\ phase \in Phases /\ pending \in BOOLEAN /\ timerStatus \in {0, 1}
  /\ g_count \in 0 .. MaxCount /\ count \in 0 .. MaxCount
  /\ delay_off \in Nat /\ delay_on \in Nat
  /\ sound \in BOOLEAN /\ work \in BOOLEAN
  /\ wpc \in {"idle", "close"}
  /\ hpc \in {"idle", "sched", "arm", "count", "finish"}
  /\ pc \in [Writers -> Steps] /\ cmd \in [Writers -> Commands \cup {NoCommand}]
  /\ held \in BOOLEAN /\ beeps \in 0 .. MaxBeeps
  /\ missed \in BOOLEAN /\ raced \in BOOLEAN

----------------------------------------------------------------------------
(* Safety.                                                                 *)

\* As long as the module is loaded, a speaker that was not opened by "on" is
\* going to be closed: the work is queued, it is running, or the code that
\* opened the speaker is about to queue it.  No interleaving of writers, timer
\* and work leaves a beep without an end.
SoundEnds ==
  sound /\ ~held /\ phase \in {"loaded", "removing", "removed"} =>
    \/ work \/ wpc = "close"
    \/ hpc = "sched" \/ \E w \in Writers : pc[w] = "sched"

\* A series of n beeps, rep n in the words of ugbeep, has at most n, whatever
\* other commands and lengths are written while it sounds, on any number of
\* CPUs.  The exception is a length that the handler's counter, which no command
\* resets, had reached before it was written: such a series has no end.
RepAtMost == g_count # 0 => beeps \leq g_count \/ missed

\* add_timer never meets a timer that is queued already, which the timer core
\* treats as a bug: timerStatus is 0 only while the timer is off.  Two writers
\* at once and a handler that runs while its timer is deleted break this, and
\* nothing else does; the next on, off or one that is alone repairs it.
NoDoubleAdd == \A w \in Writers : pc[w] = "add" => ~pending \/ raced

\* The timer is off and its handler done when exit returns, although exit stops
\* it only if timerStatus says that it runs, unless exit itself or a command
\* before it met the handler running, or two writers met.
TimerGone == phase = "gone" => (~pending /\ hpc = "idle") \/ raced

\* The handler sounds only if a timer or rep command is in effect: after off
\* nothing sounds but what is written next, unless off came while the handler
\* was running, which queues the timer again, or met another writer.
NoSpuriousBeep ==
  [][~sound /\ sound' =>
       \/ timerStatus = 1
       \/ \E w \in Writers : pc[w] # "idle"
       \/ raced]_vars

----------------------------------------------------------------------------
(* Liveness.                                                               *)

\* A series with a length comes to its end, however the commands that are
\* written meanwhile interleave with the handler, unless one of them makes it
\* endless: rep 0 does, and so does a length that the counter has reached.
SeriesEnds ==
  (pending /\ g_count # 0 /\ ~missed) ~>
    (hpc = "finish" \/ (~pending /\ hpc = "idle") \/ g_count = 0 \/ missed)

\* A beep comes to its end, unless on or the next beep takes over.
BeepEnds == sound ~> (~sound \/ held \/ ~(phase = "loaded"))

=============================================================================
