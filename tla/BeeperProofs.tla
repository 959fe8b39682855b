--------------------------- MODULE BeeperProofs ---------------------------
(***************************************************************************)
(* Proofs about Beeper, for any number of writers and CPUs: its types, that*)
(* every beep has an end, how long a series is, and that only an overlap of*)
(* writers or a del_timer that finds the handler running can make the      *)
(* driver's view of its timer wrong.                                       *)
(***************************************************************************)
EXTENDS Beeper, TLAPS

----------------------------------------------------------------------------
(* Types.                                                                  *)

LEMMA TypeInit == Init => TypeOK
  <1>1. 0 \in 0 .. MaxBeeps /\ 0 \in 0 .. MaxCount
    BY BeeperAssumption
  <1>2. [w \in Writers |-> "idle"] \in [Writers -> Steps]
    BY DEF Steps
  <1>3. ASSUME Init PROVE beeps \in 0 .. MaxBeeps /\ pc \in [Writers -> Steps]
    BY <1>1, <1>2, <1>3 DEF Init
  <1>4. ASSUME Init PROVE cmd \in [Writers -> Commands \cup {NoCommand}]
    BY <1>4 DEF Init
  <1>5. ASSUME Init
        PROVE  /\ pending \in BOOLEAN /\ sound \in BOOLEAN /\ work \in BOOLEAN
               /\ held \in BOOLEAN /\ missed \in BOOLEAN /\ raced \in BOOLEAN
    BY <1>5 DEF Init
  <1>6. ASSUME Init
        PROVE  /\ timerStatus \in {0, 1} /\ g_count \in 0 .. MaxCount /\ count \in 0 .. MaxCount
               /\ delay_off \in Nat /\ delay_on \in Nat
    BY <1>1, <1>6 DEF Init
  <1>7. ASSUME Init
        PROVE  /\ phase \in Phases /\ wpc \in {"idle", "close"}
               /\ hpc \in {"idle", "sched", "arm", "count", "finish"}
    BY <1>7 DEF Init, Phases
  <1> QED
    BY <1>3, <1>4, <1>5, <1>6, <1>7 DEF TypeOK

LEMMA TypeStep == TypeOK /\ [Next]_vars => TypeOK'
  <1> SUFFICES ASSUME TypeOK, [Next]_vars PROVE TypeOK'
    OBVIOUS
  <1> USE DEF hvars
  <1>1. ASSUME NEW w \in Writers, NEW c \in Commands, Write(w, c) PROVE TypeOK'
    BY <1>1 DEF TypeOK, Write, AllOut, Steps
  <1>2. ASSUME NEW w \in Writers, WriterStep(w) PROVE TypeOK'
    <2>1. /\ cmd[w].on \in Nat /\ cmd[w].off \in Nat
          /\ cmd[w].n \in 0 .. MaxCount
      <3>1. CASE cmd[w] \in Commands
        BY <3>1, BeeperAssumption
      <3>2. CASE cmd[w] = NoCommand
        BY <3>2, BeeperAssumption DEF NoCommand
      <3> QED
        BY <3>1, <3>2 DEF TypeOK
    <2>2. 0 \in 0 .. MaxBeeps
      BY BeeperAssumption
    <2>3. CASE DelTimer(w)
      BY <2>3 DEF TypeOK, DelTimer, Alone, Goto, Steps
    <2>4. CASE ClearStatus(w)
      BY <2>4 DEF TypeOK, ClearStatus, Goto, Steps
    <2>5. CASE SetBeeper(w)
      BY <2>5 DEF TypeOK, SetBeeper, Open, Goto, Return, Steps
    <2>6. CASE Schedule(w)
      BY <2>6 DEF TypeOK, Schedule, Return, Steps
    <2>7. CASE SetDelays(w)
      BY <2>1, <2>2, <2>7 DEF TypeOK, SetDelays, Goto, Steps
    <2>8. CASE CheckStatus(w)
      BY <2>8 DEF TypeOK, CheckStatus, Goto, Return, Steps
    <2>9. CASE AddTimer(w)
      BY <2>2, <2>9 DEF TypeOK, AddTimer, Goto, Steps
    <2>10. CASE SetStatus(w)
      BY <2>10 DEF TypeOK, SetStatus, Return, Steps
    <2> QED
      BY <1>2, <2>3, <2>4, <2>5, <2>6, <2>7, <2>8, <2>9, <2>10 DEF WriterStep
  <1>3. CASE Fire
    <2>1. beeps' \in 0 .. MaxBeeps
      BY <1>3, BeeperAssumption DEF TypeOK, Fire
    <2> QED
      BY <1>3, <2>1 DEF TypeOK, Fire, Open
  <1>4. CASE HandlerStep
    <2>1. CASE FireSchedule \/ Rearm
      BY <2>1 DEF TypeOK, FireSchedule, Rearm
    <2>2. CASE Count
      <3>1. count' \in 0 .. MaxCount /\ pending' \in BOOLEAN /\ hpc' \in {"idle", "finish"}
        <4>1. count \in 0 .. MaxCount /\ CountUp \in 0 .. MaxCount /\ pending \in BOOLEAN
          BY BeeperAssumption DEF TypeOK, CountUp
        <4> QED
          BY <2>2, <4>1 DEF Count
      <3> QED
        BY <2>2, <3>1 DEF TypeOK, Count
    <2>3. CASE Finish
      <3>1. 0 \in 0 .. MaxCount
        BY BeeperAssumption
      <3> QED
        BY <2>3, <3>1 DEF TypeOK, Finish
    <2> QED
      BY <1>4, <2>1, <2>2, <2>3 DEF HandlerStep
  <1>5. CASE WorkStart \/ WorkClose
    BY <1>5 DEF TypeOK, WorkStart, WorkClose
  <1>6. CASE Exit
    <2>1. CASE ExitBegin \/ ProcRemoved
      BY <2>1 DEF TypeOK, ExitBegin, ProcRemoved, Phases
    <2>2. CASE CancelWork
      BY <2>2 DEF TypeOK, CancelWork, Phases
    <2>3. CASE ExitTimer
      <3>1. pending' \in BOOLEAN /\ raced' \in BOOLEAN
        BY <2>3 DEF TypeOK, ExitTimer
      <3> QED
        BY <2>3, <3>1 DEF TypeOK, ExitTimer, Phases
    <2> QED
      BY <1>6, <2>1, <2>2, <2>3 DEF Exit
  <1>7. CASE UNCHANGED vars
    BY <1>7 DEF TypeOK, vars
  <1> QED
    BY <1>1, <1>2, <1>3, <1>4, <1>5, <1>6, <1>7 DEF Next

\* The variables keep their types, with any number of writers and CPUs.
THEOREM TypeCorrect == Spec => []TypeOK
  <1>1. Init => TypeOK
    BY TypeInit
  <1>2. TypeOK /\ [Next]_vars => TypeOK'
    BY TypeStep
  <1> QED
    BY <1>1, <1>2, PTL DEF Spec

----------------------------------------------------------------------------
(* Every beep has an end.                                                  *)

LEMMA SoundStep == TypeOK /\ SoundEnds /\ [Next]_vars => SoundEnds'
  <1> SUFFICES ASSUME TypeOK, SoundEnds, [Next]_vars PROVE SoundEnds'
    OBVIOUS
  <1> USE DEF hvars
  <1>1. ASSUME NEW w \in Writers, NEW c \in Commands, Write(w, c) PROVE SoundEnds'
    BY <1>1 DEF SoundEnds, TypeOK, Write
  <1>2. ASSUME NEW w \in Writers, WriterStep(w) PROVE SoundEnds'
    <2>1. CASE SetBeeper(w)
      BY <2>1 DEF SoundEnds, TypeOK, SetBeeper, Open, Goto, Return
    <2>2. CASE Schedule(w)
      BY <2>2 DEF SoundEnds, Schedule
    <2>3. CASE DelTimer(w) \/ ClearStatus(w) \/ SetDelays(w)
      BY <2>3 DEF SoundEnds, TypeOK, Goto, DelTimer, ClearStatus, SetDelays
    <2>4. CASE CheckStatus(w) \/ AddTimer(w) \/ SetStatus(w)
      BY <2>4 DEF SoundEnds, TypeOK, Goto, Return, CheckStatus, AddTimer, SetStatus
    <2> QED
      BY <1>2, <2>1, <2>2, <2>3, <2>4 DEF WriterStep
  <1>3. CASE Fire
    BY <1>3 DEF SoundEnds, Fire
  <1>4. CASE HandlerStep
    BY <1>4 DEF SoundEnds, HandlerStep, FireSchedule, Rearm, Count, Finish
  <1>5. CASE WorkStart \/ WorkClose
    BY <1>5 DEF SoundEnds, WorkStart, WorkClose
  <1>6. CASE Exit
    BY <1>6 DEF SoundEnds, Exit, ExitBegin, ProcRemoved, CancelWork, ExitTimer
  <1>7. CASE UNCHANGED vars
    BY <1>7 DEF SoundEnds, vars
  <1> QED
    BY <1>1, <1>2, <1>3, <1>4, <1>5, <1>6, <1>7 DEF Next

\* However many writers and CPUs there are, and in whatever order they run,
\* somebody is always going to close a speaker that "on" did not open.
THEOREM EveryBeepEnds == Spec => []SoundEnds
  <1>1. Init => SoundEnds
    BY DEF Init, SoundEnds
  <1>2. TypeOK /\ SoundEnds /\ [Next]_vars => SoundEnds'
    BY SoundStep
  <1> QED
    BY <1>1, <1>2, TypeCorrect, PTL DEF Spec

----------------------------------------------------------------------------
(* What the driver believes of its timer.                                  *)

\* As long as nothing has raced since the timer was last stopped: at most one
\* writer is inside; timerStatus tells the truth, a timer that is queued or
\* running is known or the writer has just added it; a writer that is stopping
\* or starting the timer finds it off.  Exit finds no writer, raced or not.
StatusSound ==
  /\ phase \in {"removed", "cancelled", "gone"} => AllOut
  /\ \/ raced
     \/ /\ \A v, w \in Writers : pc[v] # "idle" /\ pc[w] # "idle" => v = w
        /\ hpc = "finish" => ~pending
        /\ pending \/ hpc # "idle" =>
             timerStatus = 1 \/ \E w \in Writers : pc[w] = "started"
        /\ \A w \in Writers :
             pc[w] \in {"clear", "sound", "sched", "add"} => ~pending /\ hpc = "idle"
        /\ phase = "gone" => ~pending /\ hpc = "idle"

LEMMA StatusStep ==
  ASSUME TypeOK, StatusSound, [Next]_vars
  PROVE  StatusSound'
  <1> USE DEF hvars
  <1>1. ASSUME NEW w \in Writers, NEW c \in Commands, Write(w, c) PROVE StatusSound'
    <2>1. phase = "loaded" /\ UNCHANGED <<phase, pending, timerStatus, hpc>>
      BY <1>1 DEF Write
    <2>2. CASE raced \/ ~AllOut
      BY <1>1, <2>1, <2>2 DEF StatusSound, Write
    <2>3. CASE ~raced /\ AllOut
      <3>1. \A v \in Writers : v # w => pc'[v] = "idle"
        BY <1>1, <2>3 DEF Write, AllOut, TypeOK
      <3>2. pc'[w] \in {"del", "set"}
        BY <1>1 DEF Write, TypeOK
      <3>3. timerStatus = 1 \/ ~(pending \/ hpc # "idle")
        BY <2>3 DEF StatusSound, AllOut
      <3> QED
        BY <2>1, <2>3, <3>1, <3>2, <3>3 DEF StatusSound
    <2> QED
      BY <2>2, <2>3
  <1>2. ASSUME NEW w \in Writers, WriterStep(w) PROVE StatusSound'
    <2>1. pc[w] # "idle" /\ UNCHANGED <<phase, hpc>>
      BY <1>2 DEF WriterStep, DelTimer, ClearStatus, SetBeeper, Schedule, SetDelays,
                  CheckStatus, AddTimer, SetStatus
    <2>2. phase \notin {"removed", "cancelled", "gone"}
      BY <2>1 DEF StatusSound, AllOut
    <2>3. CASE DelTimer(w)
      <3>1. CASE hpc = "idle" /\ Alone(w)
        <4>1. pending' = FALSE /\ pc'[w] = "clear" /\ \A v \in Writers \ {w} : pc'[v] = "idle"
          BY <2>3, <3>1 DEF DelTimer, Alone, Goto, TypeOK
        <4> QED
          BY <2>1, <2>2, <3>1, <4>1 DEF StatusSound
      <3>2. CASE ~(hpc = "idle" /\ Alone(w))
        BY <2>1, <2>2, <2>3, <3>2 DEF StatusSound, DelTimer
      <3> QED
        BY <3>1, <3>2
    <2>4. CASE ~DelTimer(w) /\ raced
      BY <1>2, <2>1, <2>2, <2>4 DEF StatusSound, WriterStep, ClearStatus, SetBeeper, Schedule,
                  SetDelays, CheckStatus, AddTimer, SetStatus
    <2>5. CASE ~DelTimer(w) /\ ~raced
      <3>1. \A v \in Writers \ {w} : pc[v] = "idle"
        BY <2>1, <2>5 DEF StatusSound
      <3>2. \A v \in Writers \ {w} : pc'[v] = "idle"
        BY <1>2, <2>5, <3>1 DEF TypeOK, Goto, Return, WriterStep, ClearStatus, SetBeeper,
               Schedule, SetDelays, CheckStatus, AddTimer, SetStatus
      <3>3. CASE ClearStatus(w)
        BY <2>1, <2>2, <2>5, <3>2, <3>3 DEF StatusSound, TypeOK, Goto, ClearStatus
      <3>4. CASE SetBeeper(w) \/ Schedule(w)
        <4>1. pc[w] \in {"sound", "sched"} /\ UNCHANGED <<pending, raced>>
          BY <3>4 DEF SetBeeper, Schedule
        <4>2. ~pending' /\ hpc' = "idle"
          BY <2>1, <2>5, <4>1 DEF StatusSound
        <4> QED
          BY <2>1, <2>2, <3>2, <4>1, <4>2 DEF StatusSound
      <3>5. CASE SetDelays(w) \/ CheckStatus(w)
        <4>1. /\ UNCHANGED <<pending, hpc, timerStatus, raced>>
              /\ pc[w] \in {"set", "check"} /\ pc'[w] \in {"check", "add", "idle"}
              /\ pc'[w] = "add" => timerStatus = 0
          BY <3>5 DEF SetDelays, CheckStatus, Goto, Return, TypeOK
        <4>2. pending \/ hpc # "idle" => timerStatus = 1
          BY <2>5, <3>1, <4>1 DEF StatusSound
        <4> QED
          BY <2>1, <2>2, <2>5, <3>2, <4>1, <4>2 DEF StatusSound
      <3>6. CASE AddTimer(w)
        BY <2>1, <2>2, <2>5, <3>2, <3>6 DEF StatusSound, TypeOK, Goto, AddTimer
      <3>7. CASE SetStatus(w)
        BY <2>1, <2>2, <2>5, <3>2, <3>7 DEF StatusSound, TypeOK, Return, SetStatus
      <3> QED
        BY <1>2, <2>5, <3>3, <3>4, <3>5, <3>6, <3>7 DEF WriterStep
    <2> QED
      BY <2>3, <2>4, <2>5
  <1>3. CASE Fire
    BY <1>3 DEF StatusSound, AllOut, Fire
  <1>4. CASE HandlerStep
    <2>1. UNCHANGED <<phase, pc, raced>> /\ phase # "gone"
      BY <1>4 DEF HandlerStep, FireSchedule, Rearm, Count, Finish
    <2>2. CASE raced
      BY <2>1, <2>2 DEF StatusSound, AllOut
    <2>3. CASE ~raced
      BY <1>4, <2>1, <2>3
         DEF StatusSound, AllOut, HandlerStep, FireSchedule, Rearm, Count, Finish
    <2> QED
      BY <2>2, <2>3
  <1>5. CASE WorkStart \/ WorkClose
    BY <1>5 DEF StatusSound, AllOut, WorkStart, WorkClose
  <1>6. CASE ExitBegin \/ ProcRemoved \/ CancelWork
    BY <1>6 DEF StatusSound, AllOut, ExitBegin, ProcRemoved, CancelWork
  <1>7. CASE ExitTimer
    <2>1. AllOut /\ UNCHANGED <<pc, hpc, timerStatus>> /\ phase' = "gone"
      BY <1>7 DEF StatusSound, ExitTimer
    <2>2. CASE raced \/ hpc # "idle"
      BY <1>7, <2>1, <2>2 DEF StatusSound, AllOut, ExitTimer
    <2>3. CASE ~raced /\ hpc = "idle"
      <3>1. ~pending' /\ hpc' = "idle"
        BY <1>7, <2>1, <2>3 DEF StatusSound, AllOut, ExitTimer
      <3> QED
        BY <2>1, <3>1 DEF StatusSound, AllOut
    <2> QED
      BY <2>2, <2>3
  <1>8. CASE UNCHANGED vars
    BY <1>8 DEF StatusSound, AllOut, vars
  <1> QED
    BY <1>1, <1>2, <1>3, <1>4, <1>5, <1>6, <1>7, <1>8 DEF Next, Exit

LEMMA StatusAlways == Spec => []StatusSound
  <1>1. Init => StatusSound
    BY DEF Init, StatusSound, AllOut
  <1>2. TypeOK /\ StatusSound /\ [Next]_vars => StatusSound'
    BY StatusStep
  <1> QED
    BY <1>1, <1>2, TypeCorrect, PTL DEF Spec

\* add_timer meets a queued timer only after two writers overlapped or a command
\* found the handler running, for any writers, commands and CPUs; the argument
\* is StatusSound.
THEOREM AddsOnce == Spec => []NoDoubleAdd
  <1>1. StatusSound => NoDoubleAdd
    BY DEF StatusSound, NoDoubleAdd
  <1> QED
    BY <1>1, StatusAlways, PTL

\* Exit leaves a timer or a running handler behind only after such a race, or
\* when it finds the handler running itself.
THEOREM TimerIsGone == Spec => []TimerGone
  <1>1. StatusSound => TimerGone
    BY DEF StatusSound, TimerGone
  <1> QED
    BY <1>1, StatusAlways, PTL

\* But for such a race the speaker starts only for a command that is being
\* carried out or in effect.
THEOREM SoundsOnCommand == Spec => NoSpuriousBeep
  <1> DEFINE Heard == ~sound /\ sound' =>
                        \/ timerStatus = 1
                        \/ \E w \in Writers : pc[w] # "idle"
                        \/ raced
  <1>1. StatusSound /\ [Next]_vars => [Heard]_vars
    <2> SUFFICES ASSUME StatusSound, Next, ~sound, sound'
                 PROVE  timerStatus = 1 \/ (\E w \in Writers : pc[w] # "idle") \/ raced
      BY DEF vars
    <2>1. ASSUME NEW w \in Writers, NEW c \in Commands, Write(w, c) PROVE FALSE
      BY <2>1 DEF Write
    <2>2. ASSUME NEW w \in Writers, WriterStep(w) PROVE pc[w] # "idle"
      BY <2>2 DEF WriterStep, DelTimer, ClearStatus, SetBeeper, Schedule, SetDelays,
                  CheckStatus, AddTimer, SetStatus
    <2>3. CASE Fire
      <3>1. timerStatus = 1 \/ (\E w \in Writers : pc[w] = "started") \/ raced
        BY <2>3 DEF Fire, StatusSound
      <3> QED
        BY <3>1
    <2>4. ~HandlerStep /\ ~WorkStart /\ ~WorkClose /\ ~Exit
      BY DEF HandlerStep, FireSchedule, Rearm, Count, Finish, WorkStart, WorkClose,
             Exit, ExitBegin, ProcRemoved, CancelWork, ExitTimer
    <2> QED
      BY <2>1, <2>2, <2>3, <2>4 DEF Next
  <1> QED
    BY <1>1, StatusAlways, PTL DEF Spec, NoSpuriousBeep

----------------------------------------------------------------------------
(* The length of a series.                                                 *)

\* Unless the length was set too late, the handler's counter stays below it, a
\* timer that is queued while the handler is idle has beeped as often as the
\* counter says, and the handler itself is at most one beep ahead.  A counter
\* that a stopped series has left behind only makes the next series shorter.
\* The last step of a series resets the counter whatever was written meanwhile.
Counted ==
  g_count # 0 =>
    /\ hpc = "finish" => beeps \leq g_count /\ (pending => beeps = 0)
    /\ \/ missed /\ count \geq g_count
       \/ /\ count < g_count /\ beeps \leq g_count
          /\ hpc = "idle" /\ pending => beeps \leq count
          /\ hpc \notin {"idle", "finish"} => beeps \leq count + 1

LEMMA CountedStep ==
  ASSUME TypeOK, Counted, [Next]_vars
  PROVE  Counted'
  <1> USE DEF hvars
  <1>0. /\ count \in Nat /\ beeps \in Nat /\ g_count \in Nat
        /\ MaxCount \in Nat /\ g_count \leq MaxCount
    BY BeeperAssumption DEF TypeOK
  <1>1. ASSUME NEW w \in Writers, NEW c \in Commands, Write(w, c) PROVE Counted'
    BY <1>1 DEF Counted, Write
  <1>2. ASSUME NEW w \in Writers, WriterStep(w) PROVE Counted'
    <2>1. CASE SetDelays(w)
      <3>1. beeps' = 0 /\ count' = count /\ UNCHANGED <<hpc, pending>>
            /\ missed' = (g_count' # 0 /\ count \geq g_count')
        BY <2>1 DEF SetDelays
      <3>2. g_count' \in Nat
        BY TypeStep, BeeperAssumption DEF TypeOK
      <3>3. g_count' # 0 => \/ missed' /\ count' \geq g_count'
                            \/ count' < g_count'
        <4>1. CASE g_count' # 0 /\ count \geq g_count'
          <5>1. missed'
            BY <2>1, <4>1, Zenon DEF SetDelays
          <5> QED
            BY <3>1, <4>1, <5>1
        <4>2. CASE ~(count \geq g_count')
          BY <1>0, <3>1, <3>2, <4>2
        <4> QED
          BY <4>1, <4>2
      <3>4. beeps' \leq g_count' /\ beeps' \leq count' /\ beeps' \leq count' + 1
        BY <1>0, <3>1, <3>2
      <3> QED
        BY <3>1, <3>3, <3>4 DEF Counted
    <2>2. CASE AddTimer(w)
      <3>1. beeps' = 0 /\ UNCHANGED <<hpc, count, g_count, missed>>
        BY <2>2 DEF AddTimer
      <3> QED
        BY <1>0, <3>1 DEF Counted
    <2>3. CASE DelTimer(w)
      BY <2>3 DEF Counted, DelTimer
    <2>4. CASE ClearStatus(w) \/ SetBeeper(w) \/ Schedule(w) \/ CheckStatus(w) \/ SetStatus(w)
      <3>1. UNCHANGED <<g_count, count, beeps, hpc, pending, missed>>
        BY <2>4 DEF ClearStatus, SetBeeper, Schedule, CheckStatus, SetStatus
      <3> QED
        BY <3>1 DEF Counted
    <2> QED
      BY <1>2, <2>1, <2>2, <2>3, <2>4 DEF WriterStep
  <1>3. CASE Fire
    <2>1. /\ pending /\ hpc = "idle" /\ hpc' = "sched" /\ beeps' \leq beeps + 1
          /\ UNCHANGED <<g_count, count, missed>>
      BY <1>0, <1>3 DEF Fire
    <2>2. beeps' \in Nat
      BY <1>0, <1>3 DEF Fire
    <2> QED
      BY <1>0, <2>1, <2>2 DEF Counted
  <1>4. CASE FireSchedule \/ Rearm
    BY <1>4 DEF Counted, FireSchedule, Rearm
  <1>5. CASE Count
    <2>1. UNCHANGED <<g_count, beeps, missed>> /\ hpc = "count"
      BY <1>5 DEF Count
    <2>2. CASE g_count # 0 /\ count + 1 # g_count
      <3>1. hpc' = "idle" /\ count' = CountUp
        BY <1>5, <2>2 DEF Count
      <3>2. count < g_count => count' = count + 1 /\ count' < g_count
        BY <1>0, <2>2, <3>1 DEF CountUp
      <3>3. count \geq g_count => count' \geq g_count
        BY <1>0, <3>1 DEF CountUp
      <3>4. CASE missed /\ count \geq g_count
        BY <2>1, <3>1, <3>3, <3>4 DEF Counted
      <3>5. CASE ~(missed /\ count \geq g_count)
        <4>1. count < g_count /\ beeps \leq g_count /\ beeps \leq count + 1
          BY <2>1, <2>2, <3>5 DEF Counted
        <4> QED
          BY <2>1, <3>1, <3>2, <4>1 DEF Counted
      <3> QED
        BY <3>4, <3>5
    <2>3. CASE g_count # 0 /\ count + 1 = g_count
      <3>1. hpc' = "finish" /\ pending' = FALSE /\ count' = count
        BY <1>5, <2>3 DEF Count
      <3>2. ~(count \geq g_count)
        BY <1>0, <2>3
      <3>3. count < g_count /\ beeps \leq g_count
        BY <2>1, <2>3, <3>2 DEF Counted
      <3> QED
        BY <2>1, <3>1, <3>3 DEF Counted
    <2>4. CASE g_count = 0
      BY <2>1, <2>4 DEF Counted
    <2> QED
      BY <2>2, <2>3, <2>4
  <1>6. CASE Finish
    BY <1>0, <1>6 DEF Counted, Finish
  <1>7. CASE WorkStart \/ WorkClose
    BY <1>7 DEF Counted, WorkStart, WorkClose
  <1>8. CASE Exit
    BY <1>8 DEF Counted, Exit, ExitBegin, ProcRemoved, CancelWork, ExitTimer
  <1>9. CASE UNCHANGED vars
    BY <1>9 DEF Counted, vars
  <1> QED
    BY <1>1, <1>2, <1>3, <1>4, <1>5, <1>6, <1>7, <1>8, <1>9 DEF Next, HandlerStep

\* For any writers, lengths and CPUs a series never has more beeps than were
\* asked for, unless the counter had reached its length when it was written.
THEOREM SeriesIsBounded == Spec => []RepAtMost
  <1>1. Init => Counted
    BY DEF Init, Counted
  <1>2. TypeOK /\ Counted /\ [Next]_vars => Counted'
    BY CountedStep
  <1>3. Counted => RepAtMost
    BY DEF Counted, RepAtMost
  <1> QED
    BY <1>1, <1>2, <1>3, TypeCorrect, PTL DEF Spec
=============================================================================
