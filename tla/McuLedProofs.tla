--------------------------- MODULE McuLedProofs ---------------------------
(***************************************************************************)
(* Proofs about McuLed: its types, the ownership of the acknowledge        *)
(* register, the exactness of the cache, the end of remove, what probe     *)
(* leaves of a controller that runs, that the driver implements            *)
(* LedRegisters and keeps what that promises, and that nobody in it waits  *)
(* for good.                                                               *)
(***************************************************************************)
EXTENDS McuLed, TLAPS

----------------------------------------------------------------------------
(* The operators on commands.                                              *)

LEMMA ConstantFacts ==
  /\ 0 \in Leds
  /\ \A l \in Leds : l \in Nat /\ (l + 1 # LED_COUNT => l + 1 \in Leds)
  /\ Leds \subseteq Procs /\ Callers \subseteq Procs
  BY LedAssumption DEF Leds, Procs

LEMMA BootRunsType == \A r \in BootRuns : r \in Nat
  <1> TAKE r \in BootRuns
  <1>1. r \in 0 .. 3
    BY LedAssumption
  <1> QED
    BY <1>1

LEMMA RegOfType == ASSUME NEW o \in Ops PROVE RegOf(o) \in Regs
  BY DEF Ops, Regs, RegOf

LEMMA ExecuteType ==
  ASSUME NEW m \in McuState, NEW c \in Command
  PROVE  Execute(m, c) \in McuState
  BY DEF McuState, Command, Ops, Execute, RUN_STATE_BLINK, RUN_STATE_BREATH

LEMMA RememberType ==
  ASSUME NEW s \in LedState, NEW c \in Command
  PROVE  Remember(s, c) \in LedState /\ RememberTimes(s, c) \in LedState
  BY DEF LedState, Command, Ops, Remember, RememberTimes,
         RUN_STATE_BLINK, RUN_STATE_BREATH

LEMMA CmdType ==
  ASSUME NEW l \in Leds, NEW o \in Ops, NEW v \in Nat
  PROVE  Cmd(l, o, v) \in Command
  BY DEF Cmd, Command

LEMMA BrightnessCmdType ==
  ASSUME NEW l \in Leds, NEW b \in Nat
  PROVE  /\ BrightnessCmd(l, b) \in Command
         /\ BrightnessCmd(l, b).op = "OP_ONOFF" => BrightnessCmd(l, b).val \in {0, 1}
  BY DEF BrightnessCmd, Cmd, Command, Ops, LED_OFF, LED_ON

LEMMA BlinkTimeType == ASSUME NEW d \in Nat, NEW t PROVE BlinkTime(t, d) \in Nat
  BY DEF BlinkTime, AtLeast

LEMMA ColorType == ASSUME NEW s \in Nat PROVE ColorOf(s) \in Nat
  BY DEF ColorOf

----------------------------------------------------------------------------
(* Types.                                                                  *)

\* The part of TypeOK that a thread's own steps touch.
ThreadsOK ==
  /\ pc \in [Procs -> Steps] /\ cmd \in [Procs -> Command]
  /\ tries \in [Procs -> 0 .. RETRIES]
  /\ access \in [Leds -> Callers \cup {NoOne}]

\* TypeOK is not inductive by itself: the brightness that a call is about to
\* store in led->value has to be a byte.
StoredOK == \A p \in Procs : pc[p] = "store" => cmd[p].val \in 0 .. 255

LEMMA NoCmdType == NoCmd \in Command
  BY ConstantFacts DEF NoCmd, Command, Ops

LEMMA ReturnType ==
  ASSUME TypeOK, NEW p \in Procs, Return(p)
  PROVE  ThreadsOK'
  <1>1. pc' \in [Procs -> Steps]
    BY DEF TypeOK, Return, Goto, Steps
  <1>2. cmd' \in [Procs -> Command]
    BY NoCmdType DEF TypeOK, Return
  <1>3. tries' \in [Procs -> 0 .. RETRIES]
    BY DEF TypeOK, Return, RETRIES
  <1>4. access' \in [Leds -> Callers \cup {NoOne}]
    BY DEF TypeOK, Return
  <1> QED
    BY <1>1, <1>2, <1>3, <1>4 DEF ThreadsOK

LEMMA RequestType ==
  ASSUME TypeOK, NEW p \in Procs, NEW c \in Command, Request(p, c)
  PROVE  ThreadsOK'
  <1>1. CASE Cached(cache[c.led], c)
    BY <1>1, ReturnType DEF Request
  <1>2. CASE ~Cached(cache[c.led], c)
    BY <1>2 DEF Request, TypeOK, ThreadsOK, Goto, Steps
  <1> QED
    BY <1>1, <1>2

LEMMA BlinkSetType ==
  ASSUME TypeOK, NEW p \in Procs, NEW l \in Leds, NEW d \in Nat,
         NEW t, BlinkSet(p, l, t, d)
  PROVE  ThreadsOK'
  <1>1. Return(p) => ThreadsOK'
    BY ReturnType
  <1>2. ASSUME NEW o \in Ops, NEW v \in Nat, Request(p, Cmd(l, o, v)) PROVE ThreadsOK'
    BY <1>2, RequestType, CmdType
  <1>3. LED_OFF \in Nat /\ BlinkTime(t, d) \in Nat
    BY BlinkTimeType DEF LED_OFF
  <1>4. {"OP_ONOFF", "OP_BLINK", "OP_BREATH"} \subseteq Ops
    BY DEF Ops
  <1>5. CASE t = "normal"
    BY <1>5, <1>1, <1>2, <1>3, <1>4 DEF BlinkSet
  <1>6. CASE t = "timer2"
    BY <1>6, <1>1, <1>2, <1>3, <1>4 DEF BlinkSet
  <1>7. CASE t = "breath"
    BY <1>7, <1>1, <1>2, <1>3, <1>4 DEF BlinkSet
  <1>8. CASE t \notin {"normal", "timer2", "breath"}
    BY <1>8, <1>1 DEF BlinkSet
  <1> QED
    BY <1>5, <1>6, <1>7, <1>8

LEMMA SendType ==
  ASSUME TypeOK, NEW p \in Procs, NEW c \in Command, NEW a \in BOOLEAN, Send(p, c, a)
  PROVE  /\ bus' \in [by : Procs \cup {NoOne, Probe}, ok : BOOLEAN]
         /\ mcu' \in [Leds -> McuState]
         /\ owner' \in [Leds -> [Regs -> Procs \cup {NoOne}]]
  <1>1. c.led \in Leds /\ c.op \in Ops
    BY DEF Command
  <1>2. RegOf(c.op) \in Regs
    BY <1>1, RegOfType
  <1>3. Execute(mcu[c.led], c) \in McuState
    BY <1>1, ExecuteType DEF TypeOK
  <1> QED
    BY <1>1, <1>2, <1>3 DEF TypeOK, Send

LEMMA TypeInit == Init => TypeOK
  <1> SUFFICES ASSUME Init PROVE TypeOK
    OBVIOUS
  <1> DEFINE M == [run : BootRuns, time : {0}, brightness : {0}, color : {COLOR_WHITE}]
  <1>1. mcu \in [Leds -> McuState]
    <2>1. ASSUME NEW m \in M PROVE m \in McuState
      <3>1. m.run \in BootRuns /\ m.time = 0 /\ m.brightness = 0 /\ m.color = 1
        BY DEF COLOR_WHITE
      <3>3. m.run \in Nat
        BY <3>1, BootRunsType
      <3>2. m = [run |-> m.run, time |-> m.time,
                 brightness |-> m.brightness, color |-> m.color]
        OBVIOUS
      <3> QED
        BY <3>1, <3>2, <3>3 DEF McuState
    <2>2. mcu \in [Leds -> M]
      BY DEF Init
    <2> QED
      BY <2>1, <2>2
  <1>2. cache \in [Leds -> LedState]
    BY DEF Init, LedState, COLOR_NONE
  <1>3. ThreadsOK
    BY NoCmdType DEF Init, ThreadsOK, Steps, RETRIES
  <1>4. drv \in Phases /\ at \in Leds /\ stopping \in BOOLEAN /\ live \subseteq Leds
    BY ConstantFacts DEF Init, Phases
  <1>5. /\ mutex \in Procs \cup {NoOne}
        /\ bus \in [by : Procs \cup {NoOne, Probe}, ok : BOOLEAN]
    BY DEF Init, Quiet
  <1>6. /\ value \in [Leds -> 0 .. 255] /\ pending \in [Leds -> BOOLEAN]
        /\ trig \in [Leds -> Triggers \cup {"none"}]
    BY DEF Init
  <1>7. owner \in [Leds -> [Regs -> Procs \cup {NoOne}]]
    BY DEF Init
  <1> QED
    BY <1>1, <1>2, <1>3, <1>4, <1>5, <1>6, <1>7 DEF TypeOK, ThreadsOK

\* A step of the protocol keeps the types.
LEMMA TypeProtocol ==
  ASSUME TypeOK, NEW p \in Procs, Protocol(p)
  PROVE  TypeOK'
  <1> DEFINE c == cmd[p]
  <1>1. c \in Command /\ c.led \in Leds /\ c.op \in Ops /\ RegOf(c.op) \in Regs
    BY RegOfType DEF TypeOK, Command
  <1>2. ASSUME NEW s \in LedState
        PROVE  Remember(s, c) \in LedState /\ RememberTimes(s, c) \in LedState
    BY <1>1, RememberType
  <1>3. Quiet \in [by : Procs \cup {NoOne, Probe}, ok : BOOLEAN]
    BY DEF Quiet
  <1>4. CASE Lock(p)
    <2>1. CASE Return(p) /\ UNCHANGED <<mutex, bus, mcu, owner>>
      BY <1>4, <2>1, ReturnType DEF Lock, TypeOK, ThreadsOK, devVars, userVars
    <2>2. CASE mutex' = p /\ (\E a \in BOOLEAN : Send(p, c, a))
               /\ tries' = [tries EXCEPT ![p] = RETRIES] /\ Goto(p, "ack")
               /\ UNCHANGED <<cmd, access>>
      BY <1>1, <1>4, <2>2, SendType
         DEF Lock, TypeOK, Goto, Steps, RETRIES, devVars, userVars
    <2> QED
      BY <1>4, <2>1, <2>2 DEF Lock
  <1>5. CASE Ack(p)
    <2>1. owner' \in [Leds -> [Regs -> Procs \cup {NoOne}]]
      BY <1>1, <1>5 DEF Ack, Disown, TypeOK
    <2>2. CASE Return(p) /\ cache' = [cache EXCEPT ![c.led] = Remember(@, c)]
      BY <1>1, <1>2, <1>3, <1>5, <2>1, <2>2, ReturnType
         DEF Ack, TypeOK, ThreadsOK, devVars, userVars
    <2>3. CASE Goto(p, "commit") /\ UNCHANGED <<cache, cmd, tries, access>>
      BY <1>3, <1>5, <2>1, <2>3 DEF Ack, TypeOK, Goto, Steps, devVars, userVars
    <2> QED
      BY <1>5, <2>2, <2>3 DEF Ack
  <1>6. CASE Nak(p)
    <2>1. PICK a \in BOOLEAN :
            \/ /\ tries[p] > 1 /\ Send(p, c, a)
               /\ tries' = [tries EXCEPT ![p] = @ - 1]
               /\ UNCHANGED <<mutex, pc, cmd, access>>
            \/ /\ mcu' = IF a THEN [mcu EXCEPT ![c.led] = Execute(@, c)] ELSE mcu
               /\ owner' = [owner EXCEPT ![c.led][RegOf(c.op)] = NoOne]
               /\ mutex' = NoOne /\ bus' = Quiet /\ Return(p)
      BY <1>6 DEF Nak
    <2>2. CASE tries[p] > 1 /\ Send(p, c, a)
               /\ tries' = [tries EXCEPT ![p] = @ - 1]
               /\ UNCHANGED <<mutex, pc, cmd, access>>
      <3>1. tries' \in [Procs -> 0 .. RETRIES]
        BY <2>2 DEF TypeOK, RETRIES
      <3> QED
        BY <1>1, <1>6, <2>2, <3>1, SendType DEF Nak, TypeOK, devVars, userVars
    <2>3. CASE /\ mcu' = IF a THEN [mcu EXCEPT ![c.led] = Execute(@, c)] ELSE mcu
               /\ owner' = [owner EXCEPT ![c.led][RegOf(c.op)] = NoOne]
               /\ mutex' = NoOne /\ bus' = Quiet /\ Return(p)
      <3>1. mcu' \in [Leds -> McuState]
        BY <1>1, <2>3, ExecuteType DEF TypeOK
      <3>2. owner' \in [Leds -> [Regs -> Procs \cup {NoOne}]]
        BY <1>1, <2>3 DEF TypeOK
      <3> QED
        BY <1>3, <1>6, <2>3, <3>1, <3>2, ReturnType
           DEF Nak, TypeOK, ThreadsOK, devVars, userVars
    <2> QED
      BY <2>1, <2>2, <2>3
  <1>7. CASE Commit(p)
    <2>1. /\ owner' \in [Leds -> [Regs -> Procs \cup {NoOne}]]
          /\ cache' \in [Leds -> LedState]
      BY <1>1, <1>2, <1>7 DEF Commit, TypeOK
    <2>2. ThreadsOK'
      BY <1>7, ReturnType DEF Commit, TypeOK, ThreadsOK, Goto, Steps
    <2> QED
      BY <1>7, <2>1, <2>2 DEF Commit, TypeOK, ThreadsOK, devVars, userVars
  <1>8. CASE CommitTimes(p)
    <2>1. /\ owner' \in [Leds -> [Regs -> Procs \cup {NoOne}]]
          /\ cache' \in [Leds -> LedState]
      BY <1>1, <1>2, <1>8 DEF CommitTimes, TypeOK, Regs
    <2> QED
      BY <1>8, <2>1, ReturnType DEF CommitTimes, TypeOK, ThreadsOK, devVars, userVars
  <1> QED
    BY <1>4, <1>5, <1>6, <1>7, <1>8 DEF Protocol

\* A work item that starts keeps the types.
LEMMA TypeWork ==
  ASSUME TypeOK, NEW l \in Leds, McuWork(l)
  PROVE  TypeOK'
  <1>1. l \in Procs /\ value[l] \in Nat
    <2>1. value[l] \in 0 .. 255
      BY DEF TypeOK
    <2> QED
      BY <2>1, ConstantFacts
  <1>2. ThreadsOK'
    <2>1. CASE stopping
      BY <2>1 DEF McuWork, TypeOK, ThreadsOK, procVars
    <2>2. CASE ~stopping
      BY <1>1, <2>2, BrightnessCmdType, RequestType DEF McuWork
    <2> QED
      BY <2>1, <2>2
  <1>3. pending' \in [Leds -> BOOLEAN]
    BY DEF McuWork, TypeOK
  <1> QED
    BY <1>2, <1>3 DEF McuWork, TypeOK, ThreadsOK, devVars

\* A system call keeps the types.
LEMMA TypeSystemCall ==
  ASSUME TypeOK, StoredOK, NEW p \in Callers, SystemCall(p)
  PROVE  TypeOK'
  <1>1. p \in Procs
    BY ConstantFacts
  <1>2. {"OP_BRIGHTNESS", "OP_COLOR", "OP_BLINK"} \subseteq Ops /\ 0 \in Nat
    BY DEF Ops
  <1>3. ASSUME NEW l \in Leds, NEW b \in Brightness, BrightnessStore(p, l, b)
        PROVE  TypeOK'
    <2>1. Cmd(l, "OP_BRIGHTNESS", b) \in Command
      BY <1>2, CmdType, LedAssumption
    <2>2. ThreadsOK'
      BY <1>1, <1>3, <2>1 DEF BrightnessStore, TypeOK, ThreadsOK, Goto, Steps
    <2>3. trig' \in [Leds -> Triggers \cup {"none"}]
      BY <1>3 DEF BrightnessStore, TypeOK
    <2> QED
      BY <1>3, <2>2, <2>3 DEF BrightnessStore, TypeOK, ThreadsOK, devVars
  <1>4. ASSUME NEW l \in Leds, NEW s \in ColorRequests, ColorSet(p, l, s)
        PROVE  TypeOK'
    <2>1. ThreadsOK'
      BY <1>1, <1>2, <1>4, CmdType, ColorType, RequestType, LedAssumption DEF ColorSet
    <2> QED
      BY <1>4, <2>1 DEF ColorSet, TypeOK, ThreadsOK, devVars, userVars
  <1>5. ASSUME NEW l \in Leds, NEW d \in Delays, DelayStore(p, l, d)
        PROVE  TypeOK'
    <2>1. d \in Nat
      BY LedAssumption
    <2>2. ThreadsOK'
      BY <1>1, <1>5, <2>1, BlinkSetType DEF DelayStore
    <2> QED
      BY <1>5, <2>2 DEF DelayStore, TypeOK, ThreadsOK, devVars, userVars
  <1>6. ASSUME NEW l \in Leds, NEW t \in Triggers \cup {"none"}, TriggerStore(p, l, t)
        PROVE  TypeOK'
    <2>1. Cmd(l, "OP_BLINK", 0) \in Command
      BY <1>2, CmdType
    <2>2. ThreadsOK'
      <3>1. CASE UNCHANGED <<procVars, access>>
        BY <3>1 DEF TypeOK, ThreadsOK, procVars
      <3>2. CASE /\ access' = [access EXCEPT ![l] = p] /\ Goto(p, "activate")
                 /\ cmd' = [cmd EXCEPT ![p] = Cmd(l, "OP_BLINK", 0)]
                 /\ UNCHANGED tries
        BY <1>1, <2>1, <3>2 DEF TypeOK, ThreadsOK, Goto, Steps
      <3> QED
        BY <1>6, <3>1, <3>2 DEF TriggerStore
    <2>3. trig' \in [Leds -> Triggers \cup {"none"}]
      BY <1>6 DEF TriggerStore, TypeOK
    <2>4. value' \in [Leds -> 0 .. 255] /\ pending' \in [Leds -> BOOLEAN]
      <3>1. CASE UNCHANGED <<value, pending>>
        BY <3>1 DEF TypeOK
      <3>2. CASE /\ value' = [value EXCEPT ![l] = LED_OFF]
                 /\ pending' = [pending EXCEPT ![l] = TRUE]
        BY <3>2 DEF TypeOK, LED_OFF
      <3> QED
        BY <1>6, <3>1, <3>2 DEF TriggerStore
    <2> QED
      BY <1>6, <2>2, <2>3, <2>4 DEF TriggerStore, TypeOK, ThreadsOK, devVars
  <1>7. CASE LedsBrightnessSet(p)
    <2>1. cmd[p].val \in 0 .. 255
      BY <1>1, <1>7 DEF StoredOK, LedsBrightnessSet
    <2>2. cmd[p].led \in Leds
      BY <1>1 DEF TypeOK, Command
    <2>3. value' \in [Leds -> 0 .. 255] /\ pending' \in [Leds -> BOOLEAN]
      BY <1>7, <2>1, <2>2 DEF LedsBrightnessSet, TypeOK
    <2> QED
      BY <1>1, <1>7, <2>3, ReturnType DEF LedsBrightnessSet, TypeOK, ThreadsOK, devVars
  <1>8. CASE Activate(p)
    <2>1. cmd[p].led \in Leds
      BY <1>1 DEF TypeOK, Command
    <2>2. ThreadsOK'
      BY <1>1, <1>2, <1>8, <2>1, ReturnType, BlinkSetType DEF Activate
    <2> QED
      BY <1>8, <2>2 DEF Activate, TypeOK, ThreadsOK, devVars, userVars
  <1> QED
    BY <1>3, <1>4, <1>5, <1>6, <1>7, <1>8 DEF SystemCall

\* A step of probe or remove keeps the types.
LEMMA TypeProbeRemove ==
  ASSUME TypeOK, ProbeRemove
  PROVE  TypeOK'
  <1> USE DEF devVars, userVars, procVars
  <1>1. at + 1 # LED_COUNT => at + 1 \in Leds
    BY ConstantFacts DEF TypeOK
  <1>2. \A l \in Leds : cache[l] \in LedState /\ mcu[l] \in McuState
    BY DEF TypeOK
  <1>3. ASSUME NextLed PROVE drv' \in Phases /\ at' \in Leds
    BY <1>1, <1>3, ConstantFacts DEF NextLed, Phases
  <1>4. CASE ProbeStart
    BY <1>4 DEF ProbeStart, TypeOK, Phases
  <1>5. CASE InitLedsStats
    <2>1. cache' \in [Leds -> LedState]
      <3>1. ASSUME NEW s \in LedState, NEW b \in Nat, NEW c \in Nat, NEW r \in Nat
            PROVE  [s EXCEPT !.brightness = b, !.color = c, !.run = r] \in LedState
        BY DEF LedState
      <3>4. 255 \in Nat /\ COLOR_NONE \in Nat /\ LED_ON \in Nat /\ LED_OFF \in Nat
        BY DEF COLOR_NONE, LED_ON, LED_OFF
      <3>2. cache' = [l \in Leds |-> [cache[l] EXCEPT !.brightness = 255,
               !.color = COLOR_NONE, !.run = IF l = 0 THEN LED_ON ELSE LED_OFF]]
        BY <1>5 DEF InitLedsStats
      <3>3. ASSUME NEW l \in Leds
            PROVE  [cache[l] EXCEPT !.brightness = 255, !.color = COLOR_NONE,
                      !.run = IF l = 0 THEN LED_ON ELSE LED_OFF] \in LedState
        <4> DEFINE r == IF l = 0 THEN LED_ON ELSE LED_OFF
        <4>1. r \in Nat
          BY <3>4
        <4> HIDE DEF r
        <4>2. [cache[l] EXCEPT !.brightness = 255, !.color = COLOR_NONE, !.run = r] \in LedState
          BY <1>2, <3>1, <3>4, <4>1
        <4> QED
          BY <4>2 DEF r
      <3> QED
        BY <3>2, <3>3
    <2>2. owner' \in [Leds -> [Regs -> Procs \cup {NoOne}]]
      BY <1>5 DEF InitLedsStats
    <2> QED
      BY <1>5, <2>1, <2>2, ConstantFacts DEF InitLedsStats, TypeOK, Phases
  <1>6. ASSUME NEW failed \in BOOLEAN, InitLeds(failed) PROVE TypeOK'
    <2>1. CASE UNCHANGED <<cache, owner>>
      BY <1>3, <1>6, <2>1 DEF InitLeds, TypeOK, Phases
    <2>2. CASE /\ cache' = [cache EXCEPT ![at].run = mcu[at].run,
                               ![at].brightness = mcu[at].brightness,
                               ![at].color = ColorRead(mcu[at].color)]
               /\ owner' = [owner EXCEPT ![at] = [r \in Regs |-> NoOne]]
      <3>1. at \in Leds
        BY DEF TypeOK
      <3>2. /\ mcu[at].run \in Nat /\ mcu[at].brightness \in Nat
            /\ ColorRead(mcu[at].color) \in Nat
        BY <1>2, <3>1 DEF McuState, ColorRead, COLOR_WHITE
      <3>3. cache' \in [Leds -> LedState]
        <4> DEFINE s == [cache[at] EXCEPT !.run = mcu[at].run,
                           !.brightness = mcu[at].brightness,
                           !.color = ColorRead(mcu[at].color)]
        <4>1. s \in LedState
          BY <1>2, <3>1, <3>2 DEF LedState
        <4>2. cache' = [cache EXCEPT ![at] = s]
          BY <2>2, <3>1 DEF TypeOK
        <4> QED
          BY <3>1, <4>1, <4>2 DEF TypeOK
      <3>4. owner' \in [Leds -> [Regs -> Procs \cup {NoOne}]]
        BY <2>2, <3>1 DEF TypeOK
      <3>5. drv' \in Phases /\ at' \in Leds
        BY <1>3, <1>6, <3>1 DEF InitLeds, Phases
      <3> QED
        BY <1>6, <3>3, <3>4, <3>5 DEF InitLeds, TypeOK
    <2> QED
      BY <1>6, <2>1, <2>2 DEF InitLeds, ReadOk
  <1>7. ASSUME NEW c \in Command, ProbeWrite(c)
        PROVE  /\ bus' \in [by : Procs \cup {NoOne, Probe}, ok : BOOLEAN]
               /\ mcu' \in [Leds -> McuState]
               /\ owner' \in [Leds -> [Regs -> Procs \cup {NoOne}]]
    <2>1. c.led \in Leds /\ c.op \in Ops /\ RegOf(c.op) \in Regs
      BY RegOfType DEF Command
    <2>2. Execute(mcu[c.led], c) \in McuState
      BY <1>2, <2>1, ExecuteType
    <2> QED
      BY <1>7, <2>1, <2>2 DEF ProbeWrite, TypeOK
  <1>8. at \in Leds /\ cache[at].brightness \in Nat /\ cache[at].run \in Nat
    BY DEF TypeOK, LedState
  <1>9. CASE InitBrightness
    <2>1. Cmd(at, "OP_BRIGHTNESS", cache[at].brightness) \in Command
      BY <1>8, CmdType DEF Ops
    <2> QED
      BY <1>7, <1>9, <2>1 DEF InitBrightness, ProbeWrite, TypeOK, Phases
  <1>10. CASE InitOnOff
    <2>1. Cmd(at, "OP_ONOFF", cache[at].run) \in Command
      BY <1>8, CmdType DEF Ops
    <2> QED
      BY <1>3, <1>7, <1>10, <2>1 DEF InitOnOff, ProbeWrite, TypeOK
  <1>11. CASE RemoveStart
    BY <1>11, ConstantFacts DEF RemoveStart, TypeOK, Phases
  <1>12. CASE CancelWork
    <2>1. drv' \in Phases /\ at' \in Leds
      BY <1>1, <1>12, ConstantFacts DEF CancelWork, Phases
    <2> QED
      BY <1>12, <2>1 DEF CancelWork, TypeOK
  <1>13. CASE Unregister
    <2>1. drv' \in Phases /\ at' \in Leds
      BY <1>1, <1>13, ConstantFacts DEF Unregister, Phases
    <2>2. trig' \in [Leds -> Triggers \cup {"none"}] /\ live' \subseteq Leds
      BY <1>13 DEF Unregister, TypeOK
    <2> QED
      BY <1>13, <2>1, <2>2 DEF Unregister, TypeOK
  <1> QED
    BY <1>4, <1>5, <1>6, <1>9, <1>10, <1>11, <1>12, <1>13 DEF ProbeRemove

\* Only brightness_store puts a value in front of leds_brightness_set.
LEMMA StoredStep ==
  ASSUME TypeOK, StoredOK, [Next]_vars
  PROVE  StoredOK'
  <1> SUFFICES ASSUME NEW q \in Procs, pc'[q] = "store"
               PROVE  cmd'[q].val \in 0 .. 255
    BY DEF StoredOK
  <1> DEFINE Same == pc'[q] = pc[q] /\ cmd'[q] = cmd[q]
  <1>1. Same => cmd'[q].val \in 0 .. 255
    BY DEF StoredOK
  <1>2. ASSUME NEW p \in Procs, Return(p) PROVE Same
    BY <1>2 DEF Return, Goto, TypeOK
  <1>3. ASSUME NEW p \in Procs, NEW c, Request(p, c) PROVE Same
    BY <1>2, <1>3 DEF Request, Goto, TypeOK
  <1>4. ASSUME NEW p \in Procs, NEW l, NEW t, NEW d, BlinkSet(p, l, t, d) PROVE Same
    <2>1. CASE t = "normal"
      BY <1>2, <1>3, <1>4, <2>1 DEF BlinkSet
    <2>2. CASE t = "timer2"
      BY <1>2, <1>3, <1>4, <2>2 DEF BlinkSet
    <2>3. CASE t = "breath"
      BY <1>2, <1>3, <1>4, <2>3 DEF BlinkSet
    <2>4. CASE t \notin {"normal", "timer2", "breath"}
      BY <1>2, <1>4, <2>4 DEF BlinkSet
    <2> QED
      BY <2>1, <2>2, <2>3, <2>4
  <1>5. ASSUME UNCHANGED <<pc, cmd>> PROVE Same
    BY <1>5
  <1>6. ASSUME NEW p \in Procs, NEW s, s # "store", Goto(p, s), UNCHANGED cmd PROVE Same
    BY <1>6 DEF Goto, TypeOK
  <1>7. ASSUME NEW p \in Procs, Protocol(p) PROVE Same
    BY <1>2, <1>5, <1>6, <1>7 DEF Protocol, Lock, Ack, Nak, Commit, CommitTimes
  <1>8. ASSUME NEW l \in Leds, McuWork(l) PROVE Same
    BY <1>3, <1>5, <1>8, ConstantFacts DEF McuWork, procVars
  <1>9. ASSUME NEW p \in Callers, SystemCall(p) PROVE cmd'[q].val \in 0 .. 255
    <2> p \in Procs
      BY ConstantFacts
    <2>1. ASSUME NEW l \in Leds, NEW b \in Brightness, BrightnessStore(p, l, b)
          PROVE  cmd'[q].val \in 0 .. 255
      <3>1. CASE q = p
        BY <2>1, <3>1, LedAssumption DEF BrightnessStore, Cmd, TypeOK
      <3>2. CASE q # p
        BY <1>1, <2>1, <3>2 DEF BrightnessStore, Goto, TypeOK
      <3> QED
        BY <3>1, <3>2
    <2>2. ASSUME NEW l \in Leds, NEW s \in ColorRequests, ColorSet(p, l, s) PROVE Same
      BY <1>3, <2>2 DEF ColorSet
    <2>3. ASSUME NEW l \in Leds, NEW d \in Delays, DelayStore(p, l, d) PROVE Same
      BY <1>4, <2>3 DEF DelayStore
    <2>4. ASSUME NEW l \in Leds, NEW t \in Triggers \cup {"none"}, TriggerStore(p, l, t)
          PROVE  Same
      <3>1. CASE q = p
        BY <1>5, <2>4, <3>1 DEF TriggerStore, procVars, Goto, TypeOK
      <3>2. CASE q # p
        BY <2>4, <3>2 DEF TriggerStore, procVars, Goto, TypeOK
      <3> QED
        BY <3>1, <3>2
    <2>5. CASE LedsBrightnessSet(p)
      BY <1>1, <1>2, <2>5 DEF LedsBrightnessSet
    <2>6. CASE Activate(p)
      BY <1>1, <1>2, <1>4, <2>6 DEF Activate
    <2> QED
      BY <1>1, <1>9, <2>1, <2>2, <2>3, <2>4, <2>5, <2>6 DEF SystemCall
  <1>10. CASE ProbeRemove
    <2>1. UNCHANGED procVars
      BY <1>10 DEF ProbeRemove, ProbeStart, InitLedsStats, InitLeds, InitBrightness,
                   InitOnOff, ProbeWrite, RemoveStart, CancelWork, Unregister
    <2> QED
      BY <1>1, <1>5, <2>1 DEF procVars
  <1>11. CASE UNCHANGED vars
    BY <1>1, <1>5, <1>11 DEF vars
  <1> QED
    BY <1>1, <1>7, <1>8, <1>9, <1>10, <1>11 DEF Next

\* In every reachable state the variables have their types; in particular
\* probe's and remove's loops stay inside the LED table and led->value is a
\* byte.
THEOREM TypeCorrect == Spec => [](TypeOK /\ StoredOK)
  <1>1. Init => TypeOK /\ StoredOK
    BY TypeInit DEF Init, StoredOK
  <1>2. TypeOK /\ StoredOK /\ [Next]_vars => (TypeOK /\ StoredOK)'
    <2> SUFFICES ASSUME TypeOK, StoredOK, [Next]_vars PROVE TypeOK' /\ StoredOK'
      OBVIOUS
    <2>1. StoredOK'
      BY StoredStep
    <2>2. CASE UNCHANGED vars
      <3>1. /\ UNCHANGED <<drv, at, stopping, live, mutex, bus, mcu, cache>>
            /\ UNCHANGED <<value, pending, trig, access, pc, cmd, tries, owner>>
        BY <2>2 DEF vars
      <3> QED
        BY <2>1, <3>1 DEF TypeOK
    <2>3. CASE Next
      <3>1. ASSUME NEW p \in Procs, Protocol(p) PROVE TypeOK'
        BY <3>1, TypeProtocol
      <3>2. ASSUME NEW l \in Leds, McuWork(l) PROVE TypeOK'
        BY <3>2, TypeWork
      <3>3. ASSUME NEW p \in Callers, SystemCall(p) PROVE TypeOK'
        BY <3>3, TypeSystemCall
      <3> QED
        BY <2>1, <2>3, <3>1, <3>2, <3>3, TypeProbeRemove DEF Next
    <2> QED
      BY <2>1, <2>2, <2>3
  <1> QED
    BY <1>1, <1>2, PTL DEF Spec

----------------------------------------------------------------------------
(* What the steps of a thread leave alone.                                 *)

\* Only thread p moves, and s is where it may go.
Moves(p, s) ==
  /\ pc'[p] \in s
  /\ \A q \in Procs \ {p} : pc'[q] = pc[q] /\ cmd'[q] = cmd[q]

LEMMA ReturnMoves ==
  ASSUME TypeOK, NEW p \in Procs, Return(p)
  PROVE  Moves(p, {"idle"})
  BY DEF TypeOK, Return, Goto, Moves

LEMMA RequestMoves ==
  ASSUME TypeOK, NEW p \in Procs, NEW c, Request(p, c)
  PROVE  Moves(p, {"idle", "lock"})
  <1>1. CASE Return(p)
    BY <1>1, ReturnMoves DEF Moves
  <1>2. CASE Goto(p, "lock") /\ cmd' = [cmd EXCEPT ![p] = c]
    BY <1>2 DEF TypeOK, Goto, Moves
  <1> QED
    BY <1>1, <1>2 DEF Request

LEMMA BlinkSetMoves ==
  ASSUME TypeOK, NEW p \in Procs, NEW l, NEW t, NEW d, BlinkSet(p, l, t, d)
  PROVE  Moves(p, {"idle", "lock"})
  <1>1. Return(p) => Moves(p, {"idle", "lock"})
    BY ReturnMoves DEF Moves
  <1>2. \A c : Request(p, c) => Moves(p, {"idle", "lock"})
    BY RequestMoves
  <1>3. CASE t = "normal"
    BY <1>1, <1>2, <1>3 DEF BlinkSet
  <1>4. CASE t = "timer2"
    BY <1>1, <1>2, <1>4 DEF BlinkSet
  <1>5. CASE t = "breath"
    BY <1>1, <1>2, <1>5 DEF BlinkSet
  <1>6. CASE t \notin {"normal", "timer2", "breath"}
    BY <1>1, <1>6 DEF BlinkSet
  <1> QED
    BY <1>3, <1>4, <1>5, <1>6

\* The threads that are not in the protocol of a command.
Outside == {"idle", "store", "activate"}

\* A system call outside the protocol touches neither the bus nor the cache.
LEMMA SystemCallFrame ==
  ASSUME TypeOK, NEW p \in Callers, SystemCall(p)
  PROVE  /\ pc[p] \in Outside /\ Moves(p, Outside \cup {"lock"})
         /\ UNCHANGED <<drv, at, stopping, live, mutex, bus, mcu, cache, owner>>
  <1> USE DEF Outside, devVars, userVars
  <1>1. p \in Procs
    BY ConstantFacts
  <1>2. ASSUME NEW l \in Leds, NEW b \in Brightness, BrightnessStore(p, l, b)
        PROVE  pc[p] \in Outside /\ Moves(p, Outside \cup {"lock"})
               /\ UNCHANGED <<drv, at, stopping, live, mutex, bus, mcu, cache, owner>>
    BY <1>1, <1>2 DEF BrightnessStore, TypeOK, Goto, Moves
  <1>3. ASSUME NEW l \in Leds, NEW s \in ColorRequests, ColorSet(p, l, s)
        PROVE  pc[p] \in Outside /\ Moves(p, Outside \cup {"lock"})
               /\ UNCHANGED <<drv, at, stopping, live, mutex, bus, mcu, cache, owner>>
    BY <1>1, <1>3, RequestMoves DEF ColorSet, Moves
  <1>4. ASSUME NEW l \in Leds, NEW d \in Delays, DelayStore(p, l, d)
        PROVE  pc[p] \in Outside /\ Moves(p, Outside \cup {"lock"})
               /\ UNCHANGED <<drv, at, stopping, live, mutex, bus, mcu, cache, owner>>
    BY <1>1, <1>4, BlinkSetMoves DEF DelayStore, Moves
  <1>5. ASSUME NEW l \in Leds, NEW t \in Triggers \cup {"none"}, TriggerStore(p, l, t)
        PROVE  pc[p] \in Outside /\ Moves(p, Outside \cup {"lock"})
               /\ UNCHANGED <<drv, at, stopping, live, mutex, bus, mcu, cache, owner>>
    <2>1. CASE UNCHANGED <<procVars, access>>
      BY <1>1, <1>5, <2>1 DEF TriggerStore, TypeOK, Moves, procVars
    <2>2. CASE Goto(p, "activate") /\ cmd' = [cmd EXCEPT ![p] = Cmd(l, "OP_BLINK", 0)]
      BY <1>1, <1>5, <2>2 DEF TriggerStore, TypeOK, Moves, Goto
    <2> QED
      BY <1>5, <2>1, <2>2 DEF TriggerStore
  <1>6. CASE LedsBrightnessSet(p)
    BY <1>1, <1>6, ReturnMoves DEF LedsBrightnessSet, Moves
  <1>7. CASE Activate(p)
    BY <1>1, <1>7, ReturnMoves, BlinkSetMoves DEF Activate, Moves
  <1> QED
    BY <1>2, <1>3, <1>4, <1>5, <1>6, <1>7 DEF SystemCall

\* Nor does a work item that starts.
LEMMA WorkFrame ==
  ASSUME TypeOK, NEW l \in Leds, McuWork(l)
  PROVE  /\ pc[l] = "idle" /\ Moves(l, {"idle", "lock"})
         /\ stopping => pc'[l] = "idle"
         /\ UNCHANGED <<drv, at, stopping, live, mutex, bus, mcu, cache, owner>>
  <1>1. l \in Procs
    BY ConstantFacts
  <1>2. CASE stopping
    BY <1>1, <1>2 DEF McuWork, Moves, procVars, devVars
  <1>3. CASE ~stopping
    BY <1>1, <1>3, RequestMoves DEF McuWork, devVars
  <1> QED
    BY <1>2, <1>3

\* The protocol steps of p move p only.
LEMMA ProtocolFrame ==
  ASSUME TypeOK, NEW p \in Procs, Protocol(p)
  PROVE  /\ pc[p] \in {"lock", "ack", "commit", "times"}
         /\ Moves(p, {"idle", "ack", "commit", "times"})
         /\ UNCHANGED <<drv, at, stopping, live, value, pending, trig>>
  <1> DEFINE S == {"idle", "ack", "commit", "times"}
  <1> USE DEF devVars, userVars
  <1>1. Return(p) => Moves(p, S)
    BY ReturnMoves DEF Moves
  <1>2. ASSUME NEW s \in S, Goto(p, s), UNCHANGED cmd PROVE Moves(p, S)
    BY <1>2 DEF Goto, TypeOK, Moves
  <1>3. ASSUME UNCHANGED <<pc, cmd>>, pc[p] = "ack" PROVE Moves(p, S)
    BY <1>3 DEF Moves
  <1>4. CASE Lock(p)
    BY <1>1, <1>2, <1>4 DEF Lock
  <1>5. CASE Ack(p)
    BY <1>1, <1>2, <1>5 DEF Ack
  <1>6. CASE Nak(p)
    BY <1>1, <1>3, <1>6 DEF Nak
  <1>7. CASE Commit(p)
    BY <1>1, <1>2, <1>7 DEF Commit
  <1>8. CASE CommitTimes(p)
    BY <1>1, <1>8 DEF CommitTimes
  <1> QED
    BY <1>4, <1>5, <1>6, <1>7, <1>8 DEF Protocol

\* Probe and remove take no step of a thread.
LEMMA ProbeFrame ==
  ASSUME ProbeRemove
  PROVE  /\ UNCHANGED <<mutex, pc, cmd, tries, access>>
         /\ UNCHANGED bus \/ bus'.by = Probe
  <1> USE DEF procVars
  <1>1. CASE ProbeStart \/ InitLedsStats
    BY <1>1 DEF ProbeStart, InitLedsStats
  <1>2. CASE \E failed \in BOOLEAN : InitLeds(failed)
    BY <1>2 DEF InitLeds
  <1>3. CASE InitBrightness \/ InitOnOff
    <2>1. PICK c : ProbeWrite(c)
      BY <1>3 DEF InitBrightness, InitOnOff
    <2>2. bus'.by = Probe
      BY <2>1 DEF ProbeWrite
    <2> QED
      BY <2>1, <2>2 DEF ProbeWrite
  <1>4. CASE RemoveStart \/ CancelWork \/ Unregister
    BY <1>4 DEF RemoveStart, CancelWork, Unregister
  <1> QED
    BY <1>1, <1>2, <1>3, <1>4 DEF ProbeRemove

----------------------------------------------------------------------------
(* The acknowledge register.                                               *)

\* The lock is held by the thread that waits for its acknowledge, and by
\* nobody else.
LockHeld == mutex # NoOne => pc[mutex] = "ack"

LEMMA AckStep ==
  ASSUME TypeOK, AckIsOwn, LockHeld, [Next]_vars
  PROVE  AckIsOwn' /\ LockHeld'
  <1>1. ASSUME NEW p \in Procs, pc[p] # "ack", pc'[p] # "ack", UNCHANGED <<mutex, bus>>,
               \A q \in Procs \ {p} : pc'[q] = pc[q]
        PROVE  AckIsOwn' /\ LockHeld'
    BY <1>1 DEF AckIsOwn, LockHeld, TypeOK
  <1>2. ASSUME NEW p \in Procs, Protocol(p) PROVE AckIsOwn' /\ LockHeld'
    <2>1. \A q \in Procs \ {p} : pc'[q] = pc[q]
      BY <1>2, ProtocolFrame DEF Moves
    <2>2. ASSUME mutex' = p, pc'[p] = "ack", bus'.by = p, mutex \in {NoOne, p}
          PROVE  AckIsOwn' /\ LockHeld'
      BY <2>1, <2>2, LedAssumption DEF AckIsOwn, LockHeld, TypeOK
    <2>3. ASSUME mutex' = NoOne, pc'[p] # "ack", pc[p] = "ack"
          PROVE  AckIsOwn' /\ LockHeld'
      BY <2>1, <2>3, LedAssumption DEF AckIsOwn, LockHeld, TypeOK
    <2>4. pc[p] = "ack" => mutex = p
      BY DEF AckIsOwn
    <2>5. Return(p) => pc'[p] = "idle"
      BY DEF Return, Goto, TypeOK
    <2>6. \A s : Goto(p, s) => pc'[p] = s
      BY DEF Goto, TypeOK
    <2>7. \A c, a : Send(p, c, a) => bus'.by = p
      BY DEF Send
    <2>8. CASE Lock(p)
      BY <1>1, <2>1, <2>2, <2>5, <2>6, <2>7, <2>8 DEF Lock
    <2>9. CASE Ack(p)
      BY <2>3, <2>5, <2>6, <2>9 DEF Ack
    <2>10. CASE Nak(p)
      BY <2>2, <2>3, <2>4, <2>5, <2>7, <2>10 DEF Nak
    <2>11. CASE Commit(p)
      BY <1>1, <2>1, <2>5, <2>6, <2>11 DEF Commit
    <2>12. CASE CommitTimes(p)
      BY <1>1, <2>1, <2>5, <2>12 DEF CommitTimes
    <2> QED
      BY <1>2, <2>8, <2>9, <2>10, <2>11, <2>12 DEF Protocol
  <1>3. ASSUME NEW l \in Leds, McuWork(l) PROVE AckIsOwn' /\ LockHeld'
    BY <1>1, <1>3, WorkFrame, ConstantFacts DEF Moves
  <1>4. ASSUME NEW p \in Callers, SystemCall(p) PROVE AckIsOwn' /\ LockHeld'
    BY <1>1, <1>4, SystemCallFrame, ConstantFacts DEF Moves, Outside
  <1>5. CASE ProbeRemove
    BY <1>5, ProbeFrame DEF AckIsOwn, LockHeld
  <1>6. CASE UNCHANGED vars
    BY <1>6 DEF vars, AckIsOwn, LockHeld
  <1> QED
    BY <1>2, <1>3, <1>4, <1>5, <1>6 DEF Next

\* Whatever the number of LEDs and of writers, no system call and no work
\* item takes another one's acknowledge for its own; only the unlocked writes
\* of probe can put theirs in between.
THEOREM AckOwned == Spec => []AckIsOwn
  <1>1. Init => AckIsOwn /\ LockHeld
    BY LedAssumption DEF Init, AckIsOwn, LockHeld
  <1>2. TypeOK /\ AckIsOwn /\ LockHeld /\ [Next]_vars => (AckIsOwn /\ LockHeld)'
    BY AckStep
  <1> QED
    BY <1>1, <1>2, TypeCorrect, PTL DEF Spec

----------------------------------------------------------------------------
(* The cache.  First the registers: a command, the controller and the      *)
(* cache meet in one register only.                                        *)

\* What register r holds is the same in m and n, and in the caches s and u.
SameReg(m, n, s, u, r) ==
  /\ r = "brightness" => m.brightness = n.brightness /\ s.brightness = u.brightness
  /\ r = "color" => m.color = n.color /\ s.color = u.color
  /\ r = "run" => /\ m.run = n.run /\ m.time = n.time
                  /\ s.run = u.run /\ s.t_blink = u.t_blink /\ s.t_breath = u.t_breath

\* The run state of a blink or a breath is in the cache already.
RunShown(s, c) ==
  /\ c.op = "OP_BLINK" => s.run = RUN_STATE_BLINK
  /\ c.op = "OP_BREATH" => s.run = RUN_STATE_BREATH

LEMMA SameRegSuffices ==
  ASSUME NEW m, NEW n, NEW s, NEW u, NEW r \in Regs, SameReg(m, n, s, u, r)
  PROVE  /\ Agree(m, s, r) => Agree(n, u, r)
         /\ \A c \in Command : RegOf(c.op) = r =>
              /\ Shows(m, c) => Shows(n, c)
              /\ RunShown(s, c) => RunShown(u, c)
  <1>1. Agree(m, s, r) => Agree(n, u, r)
    BY DEF SameReg, Agree, Regs
  <1>2. ASSUME NEW c \in Command, RegOf(c.op) = r
        PROVE  (Shows(m, c) => Shows(n, c)) /\ (RunShown(s, c) => RunShown(u, c))
    BY <1>2 DEF SameReg, Shows, RunShown, RegOf, Command, Ops
  <1> QED
    BY <1>1, <1>2

LEMMA ExecuteReg ==
  ASSUME NEW m \in McuState, NEW c \in Command, NEW s \in LedState
  PROVE  /\ Shows(Execute(m, c), c)
         /\ \A r \in Regs : r # RegOf(c.op) => SameReg(m, Execute(m, c), s, s, r)
  <1>1. c.op \in Ops
    BY DEF Command
  <1>2. CASE c.op = "OP_BRIGHTNESS"
    BY <1>2 DEF Execute, Shows, SameReg, RegOf, McuState
  <1>3. CASE c.op = "OP_COLOR"
    BY <1>3 DEF Execute, Shows, SameReg, RegOf, McuState
  <1>4. CASE c.op = "OP_ONOFF"
    BY <1>4 DEF Execute, Shows, SameReg, RegOf, McuState
  <1>5. CASE c.op = "OP_BLINK"
    BY <1>5 DEF Execute, Shows, SameReg, RegOf, McuState
  <1>6. CASE c.op = "OP_BREATH"
    BY <1>6 DEF Execute, Shows, SameReg, RegOf, McuState
  <1> QED
    BY <1>1, <1>2, <1>3, <1>4, <1>5, <1>6 DEF Ops

LEMMA RememberReg ==
  ASSUME NEW s \in LedState, NEW c \in Command, NEW m \in McuState
  PROVE  /\ \A r \in Regs : r # RegOf(c.op) => SameReg(m, m, s, Remember(s, c), r)
         /\ \A r \in Regs : r # "run" => SameReg(m, m, s, RememberTimes(s, c), r)
         /\ RunShown(Remember(s, c), c)
  <1>1. c.op \in Ops
    BY DEF Command
  <1>2. \A r \in Regs : r # "run" => SameReg(m, m, s, RememberTimes(s, c), r)
    BY DEF RememberTimes, SameReg, LedState
  <1>3. CASE c.op = "OP_BRIGHTNESS"
    BY <1>2, <1>3 DEF Remember, RunShown, SameReg, RegOf, LedState
  <1>4. CASE c.op = "OP_COLOR"
    BY <1>2, <1>4 DEF Remember, RunShown, SameReg, RegOf, LedState
  <1>5. CASE c.op = "OP_ONOFF"
    BY <1>2, <1>5 DEF Remember, RunShown, SameReg, RegOf, LedState
  <1>6. CASE c.op = "OP_BLINK"
    BY <1>2, <1>6 DEF Remember, RunShown, SameReg, RegOf, LedState
  <1>7. CASE c.op = "OP_BREATH"
    BY <1>2, <1>7 DEF Remember, RunShown, SameReg, RegOf, LedState
  <1> QED
    BY <1>1, <1>3, <1>4, <1>5, <1>6, <1>7 DEF Ops

\* Remembering what the controller shows makes cache and controller agree; a
\* blink or a breath needs its times too.
LEMMA RememberAgrees ==
  ASSUME NEW s \in LedState, NEW c \in Command, NEW m \in McuState, Shows(m, c)
  PROVE  /\ c.op \in {"OP_BRIGHTNESS", "OP_COLOR"} => Agree(m, Remember(s, c), RegOf(c.op))
         /\ c.op = "OP_ONOFF" /\ c.val \in {0, 1} => Agree(m, Remember(s, c), "run")
         /\ c.op \in {"OP_BLINK", "OP_BREATH"} /\ RunShown(s, c) =>
              Agree(m, RememberTimes(s, c), "run")
  <1>1. c.op \in {"OP_BRIGHTNESS", "OP_COLOR"} => Agree(m, Remember(s, c), RegOf(c.op))
    BY DEF Remember, Shows, Agree, RegOf, LedState
  <1>2. c.op = "OP_ONOFF" /\ c.val \in {0, 1} => Agree(m, Remember(s, c), "run")
    BY DEF Remember, Shows, Agree, LedState, RUN_STATE_BLINK, RUN_STATE_BREATH
  <1>3. c.op \in {"OP_BLINK", "OP_BREATH"} /\ RunShown(s, c) =>
              Agree(m, RememberTimes(s, c), "run")
    <2>1. CASE c.op = "OP_BLINK"
      BY <2>1 DEF RememberTimes, RunShown, Shows, Agree, LedState,
                  RUN_STATE_BLINK, RUN_STATE_BREATH
    <2>2. CASE c.op = "OP_BREATH"
      BY <2>2 DEF RememberTimes, RunShown, Shows, Agree, LedState,
                  RUN_STATE_BLINK, RUN_STATE_BREATH
    <2> QED
      BY <2>1, <2>2
  <1> QED
    BY <1>1, <1>2, <1>3

\* The command of a thread fits the step the thread is at.
OnOffBit(c) == c.op = "OP_ONOFF" => c.val \in {0, 1}
CmdOK ==
  \A p \in Procs :
    /\ OnOffBit(cmd[p])
    /\ pc[p] = "commit" => cmd[p].op # "OP_ONOFF"
    /\ pc[p] = "times" => cmd[p].op \in {"OP_BLINK", "OP_BREATH"}

LEMMA ReturnCmd ==
  ASSUME TypeOK, NEW p \in Procs, Return(p)
  PROVE  OnOffBit(cmd'[p]) /\ pc'[p] = "idle"
  BY DEF Return, Goto, TypeOK, OnOffBit, NoCmd

LEMMA RequestCmd ==
  ASSUME TypeOK, NEW p \in Procs, NEW c, Request(p, c), OnOffBit(c)
  PROVE  OnOffBit(cmd'[p])
  <1>1. CASE Return(p)
    BY <1>1, ReturnCmd
  <1>2. CASE cmd' = [cmd EXCEPT ![p] = c]
    <2>1. cmd'[p] = c
      BY <1>2 DEF TypeOK
    <2> QED
      BY <2>1 DEF OnOffBit
  <1> QED
    BY <1>1, <1>2 DEF Request

LEMMA BlinkSetCmd ==
  ASSUME TypeOK, NEW p \in Procs, NEW l, NEW t, NEW d, BlinkSet(p, l, t, d)
  PROVE  OnOffBit(cmd'[p])
  <1>1. OnOffBit(Cmd(l, "OP_ONOFF", LED_OFF))
    BY DEF OnOffBit, Cmd, LED_OFF
  <1>2. \A v : OnOffBit(Cmd(l, "OP_BLINK", v)) /\ OnOffBit(Cmd(l, "OP_BREATH", v))
    BY DEF OnOffBit, Cmd
  <1>3. \A c : Request(p, c) /\ OnOffBit(c) => OnOffBit(cmd'[p])
    BY RequestCmd
  <1>4. Return(p) => OnOffBit(cmd'[p])
    BY ReturnCmd
  <1>5. CASE t = "normal"
    BY <1>1, <1>3, <1>4, <1>5 DEF BlinkSet
  <1>6. CASE t = "timer2"
    BY <1>2, <1>3, <1>4, <1>6 DEF BlinkSet
  <1>7. CASE t = "breath"
    BY <1>2, <1>3, <1>4, <1>7 DEF BlinkSet
  <1>8. CASE t \notin {"normal", "timer2", "breath"}
    BY <1>4, <1>8 DEF BlinkSet
  <1> QED
    BY <1>5, <1>6, <1>7, <1>8

LEMMA SystemCallCmd ==
  ASSUME TypeOK, CmdOK, NEW p \in Callers, SystemCall(p)
  PROVE  OnOffBit(cmd'[p])
  <1>1. p \in Procs
    BY ConstantFacts
  <1>2. \A l, v : OnOffBit(Cmd(l, "OP_COLOR", v))
    BY DEF OnOffBit, Cmd
  <1>4. CASE \E l \in Leds, b \in Brightness : BrightnessStore(p, l, b)
    <2>1. PICK l \in Leds, b \in Brightness : BrightnessStore(p, l, b)
      BY <1>4
    <2>2. cmd'[p] = Cmd(l, "OP_BRIGHTNESS", b)
      BY <1>1, <2>1 DEF BrightnessStore, TypeOK
    <2> QED
      BY <2>2 DEF OnOffBit, Cmd
  <1>5. CASE \E l \in Leds, s \in ColorRequests : ColorSet(p, l, s)
    BY <1>1, <1>2, <1>5, RequestCmd DEF ColorSet
  <1>6. CASE \E l \in Leds, d \in Delays : DelayStore(p, l, d)
    BY <1>1, <1>6, BlinkSetCmd DEF DelayStore
  <1>7. CASE \E l \in Leds, t \in Triggers \cup {"none"} : TriggerStore(p, l, t)
    <2>1. PICK l \in Leds, t \in Triggers \cup {"none"} : TriggerStore(p, l, t)
      BY <1>7
    <2>2. cmd' = cmd \/ cmd'[p] = Cmd(l, "OP_BLINK", 0)
      BY <1>1, <2>1 DEF TriggerStore, procVars, TypeOK
    <2> QED
      BY <1>1, <2>2 DEF OnOffBit, Cmd, CmdOK
  <1>8. CASE LedsBrightnessSet(p)
    BY <1>1, <1>8, ReturnCmd DEF LedsBrightnessSet
  <1>9. CASE Activate(p)
    BY <1>1, <1>9, ReturnCmd, BlinkSetCmd DEF Activate
  <1> QED
    BY <1>4, <1>5, <1>6, <1>7, <1>8, <1>9 DEF SystemCall

LEMMA CmdStep ==
  ASSUME TypeOK, CmdOK, [Next]_vars
  PROVE  CmdOK'
  <1>1. ASSUME NEW p \in Procs, NEW s, Moves(p, s), OnOffBit(cmd'[p]),
               pc'[p] = "commit" => cmd'[p].op # "OP_ONOFF",
               pc'[p] = "times" => cmd'[p].op \in {"OP_BLINK", "OP_BREATH"}
        PROVE  CmdOK'
    <2> SUFFICES ASSUME NEW q \in Procs
                 PROVE  /\ OnOffBit(cmd'[q])
                        /\ pc'[q] = "commit" => cmd'[q].op # "OP_ONOFF"
                        /\ pc'[q] = "times" => cmd'[q].op \in {"OP_BLINK", "OP_BREATH"}
      BY DEF CmdOK, OnOffBit
    <2>1. CASE q = p
      BY <1>1, <2>1
    <2>2. CASE q # p
      BY <1>1, <2>2 DEF Moves, CmdOK
    <2> QED
      BY <2>1, <2>2
  <1>2. ASSUME NEW p \in Procs, Protocol(p) PROVE CmdOK'
    <2>1. Moves(p, {"idle", "ack", "commit", "times"})
      BY <1>2, ProtocolFrame
    <2>2. CASE Return(p)
      BY <1>1, <2>1, <2>2, ReturnCmd
    <2>3. CASE UNCHANGED cmd /\ pc'[p] = "ack"
      BY <1>1, <2>1, <2>3 DEF CmdOK
    <2>4. CASE UNCHANGED cmd /\ pc'[p] = "commit" /\ cmd[p].op # "OP_ONOFF"
      BY <1>1, <2>1, <2>4 DEF CmdOK
    <2>5. CASE UNCHANGED cmd /\ pc'[p] = "times" /\ pc[p] = "commit"
               /\ RegOf(cmd[p].op) = "run"
      <3>1. cmd[p].op \in {"OP_BLINK", "OP_BREATH"}
        BY <2>5 DEF CmdOK, TypeOK, Command, Ops, RegOf
      <3> QED
        BY <1>1, <2>1, <2>5, <3>1 DEF CmdOK
    <2>6. \A s : Goto(p, s) => pc'[p] = s
      BY DEF Goto, TypeOK
    <2> QED
      BY <1>2, <2>2, <2>3, <2>4, <2>5, <2>6 DEF Protocol, Lock, Ack, Nak, Commit, CommitTimes
  <1>3. ASSUME NEW l \in Leds, McuWork(l) PROVE CmdOK'
    <2>1. l \in Procs /\ value[l] \in 0 .. 255
      BY ConstantFacts DEF TypeOK
    <2>2. OnOffBit(BrightnessCmd(l, value[l]))
      BY <2>1, BrightnessCmdType DEF OnOffBit
    <2>3. OnOffBit(cmd'[l])
      BY <1>3, <2>1, <2>2, RequestCmd DEF McuWork, procVars, CmdOK
    <2>4. Moves(l, {"idle", "lock"})
      BY <1>3, WorkFrame
    <2> QED
      BY <1>1, <2>1, <2>3, <2>4 DEF Moves
  <1>4. ASSUME NEW p \in Callers, SystemCall(p) PROVE CmdOK'
    <2>1. p \in Procs
      BY ConstantFacts
    <2>2. Moves(p, Outside \cup {"lock"})
      BY <1>4, SystemCallFrame
    <2>3. OnOffBit(cmd'[p])
      BY <1>4, SystemCallCmd
    <2> QED
      BY <1>1, <2>1, <2>2, <2>3 DEF Moves, Outside
  <1>5. CASE UNCHANGED <<pc, cmd>>
    BY <1>5 DEF CmdOK
  <1> QED
    BY <1>2, <1>3, <1>4, <1>5, ProbeFrame DEF Next, vars

\* What is true of register r of LED l while the command of thread o stands
\* on it, from the write to the last update of the cache.
Standing(l, r, o) ==
  /\ ~InFlight(o, l, r) => Agree(mcu[l], cache[l], r)
  /\ InFlight(o, l, r) /\ pc[o] = "ack" /\ bus.by = o /\ bus.ok => Shows(mcu[l], cmd[o])
  /\ InFlight(o, l, r) /\ pc[o] \in {"commit", "times"} => Shows(mcu[l], cmd[o])
  /\ InFlight(o, l, r) /\ pc[o] = "times" => RunShown(cache[l], cmd[o])

OwnedOK ==
  \A l \in Leds, r \in Regs : owner[l][r] # NoOne => Standing(l, r, owner[l][r])

LEMMA OwnedImpliesExact == OwnedOK => CacheExact
  BY DEF OwnedOK, Standing, CacheExact

\* A step that neither moves the owner of a register inside its command nor
\* touches the register keeps what stands on it.
LEMMA Undisturbed ==
  ASSUME TypeOK, OwnedOK, NEW l \in Leds, NEW r \in Regs,
         NEW o \in Procs, owner[l][r] = o,
         SameReg(mcu[l], mcu'[l], cache[l], cache'[l], r),
         \/ pc'[o] = pc[o] /\ cmd'[o] = cmd[o] /\ (bus' = bus \/ bus'.by # o)
         \/ ~InFlight(o, l, r) /\ ~InFlight(o, l, r)'
  PROVE  Standing(l, r, o)'
  <1>1. o # NoOne /\ cmd[o] \in Command
    BY LedAssumption DEF TypeOK
  <1>2. Standing(l, r, o)
    BY <1>1 DEF OwnedOK
  <1>3. Agree(mcu[l], cache[l], r) => Agree(mcu'[l], cache'[l], r)
    BY SameRegSuffices
  <1>4. RegOf(cmd[o].op) = r =>
          /\ Shows(mcu[l], cmd[o]) => Shows(mcu'[l], cmd[o])
          /\ RunShown(cache[l], cmd[o]) => RunShown(cache'[l], cmd[o])
    BY <1>1, SameRegSuffices
  <1>5. CASE pc'[o] = pc[o] /\ cmd'[o] = cmd[o] /\ (bus' = bus \/ bus'.by # o)
    <2>1. InFlight(o, l, r)' <=> InFlight(o, l, r)
      BY <1>5 DEF InFlight
    <2>2. InFlight(o, l, r) => RegOf(cmd[o].op) = r
      BY DEF InFlight
    <2>3. ~InFlight(o, l, r)' => Agree(mcu[l], cache[l], r)'
      BY <1>2, <1>3, <2>1 DEF Standing
    <2>4. InFlight(o, l, r) /\ Shows(mcu[l], cmd[o]) => Shows(mcu[l], cmd[o])'
      <3>1. Shows(mcu'[l], cmd[o]) => Shows(mcu[l], cmd[o])'
        BY <1>5 DEF Shows
      <3> QED
        BY <1>4, <2>2, <3>1
    <2>5. InFlight(o, l, r) /\ RunShown(cache[l], cmd[o]) => RunShown(cache[l], cmd[o])'
      <3>1. RunShown(cache'[l], cmd[o]) => RunShown(cache[l], cmd[o])'
        BY <1>5 DEF RunShown
      <3> QED
        BY <1>4, <2>2, <3>1
    <2>6. pc'[o] = pc[o] /\ (bus'.by = o /\ bus'.ok => bus.by = o /\ bus.ok)
      BY <1>5
    <2> QED
      BY <1>2, <2>1, <2>3, <2>4, <2>5, <2>6 DEF Standing
  <1>6. CASE ~InFlight(o, l, r) /\ ~InFlight(o, l, r)'
    BY <1>2, <1>3, <1>6 DEF Standing
  <1> QED
    BY <1>5, <1>6

LEMMA SameRegRefl ==
  ASSUME NEW m, NEW s, NEW r PROVE SameReg(m, m, s, s, r)
  BY DEF SameReg

\* A thread outside the bus part of the protocol moves, or nobody does.
LEMMA OwnedQuiet ==
  ASSUME TypeOK, OwnedOK, NEW p \in Procs, NEW s, Moves(p, s),
         pc[p] \notin {"ack", "commit", "times"}, pc'[p] \notin {"ack", "commit", "times"},
         UNCHANGED <<bus, mcu, cache, owner>>
  PROVE  OwnedOK'
  <1> SUFFICES ASSUME NEW l \in Leds, NEW r \in Regs, owner'[l][r] # NoOne
               PROVE  Standing(l, r, owner[l][r])'
    BY DEF OwnedOK
  <1>1. owner[l][r] \in Procs
    BY DEF TypeOK
  <1>2. SameReg(mcu[l], mcu'[l], cache[l], cache'[l], r)
    BY SameRegRefl
  <1>3. \/ pc'[owner[l][r]] = pc[owner[l][r]] /\ cmd'[owner[l][r]] = cmd[owner[l][r]]
        \/ ~InFlight(owner[l][r], l, r) /\ ~InFlight(owner[l][r], l, r)'
    BY <1>1 DEF Moves, InFlight
  <1> QED
    BY <1>1, <1>2, <1>3, Undisturbed

\* A protocol step of p works on one register of one LED.
LEMMA ProtocolRegs ==
  ASSUME TypeOK, CmdOK, NEW p \in Procs, Protocol(p), NEW l \in Leds, NEW r \in Regs,
         l # cmd[p].led \/ r # RegOf(cmd[p].op)
  PROVE  owner'[l][r] = owner[l][r] /\ SameReg(mcu[l], mcu'[l], cache[l], cache'[l], r)
  <1> DEFINE c == cmd[p]
  <1>1. /\ c \in Command /\ c.led \in Leds /\ RegOf(c.op) \in Regs
        /\ mcu[c.led] \in McuState /\ cache[c.led] \in LedState
    BY RegOfType DEF TypeOK, Command
  <1>2. ASSUME owner' = [owner EXCEPT ![c.led][RegOf(c.op)] = owner'[c.led][RegOf(c.op)]]
        PROVE  owner'[l][r] = owner[l][r]
    BY <1>1, <1>2 DEF TypeOK
  <1>3. ASSUME UNCHANGED cache,
               mcu' = mcu \/ mcu' = [mcu EXCEPT ![c.led] = Execute(@, c)]
        PROVE  SameReg(mcu[l], mcu'[l], cache[l], cache'[l], r)
    <2>1. CASE l # c.led \/ mcu' = mcu
      BY <1>1, <1>3, <2>1, SameRegRefl DEF TypeOK
    <2>2. CASE l = c.led /\ mcu' = [mcu EXCEPT ![c.led] = Execute(@, c)]
      <3>1. mcu'[l] = Execute(mcu[l], c)
        BY <2>2 DEF TypeOK
      <3> QED
        BY <1>1, <1>3, <2>2, <3>1, ExecuteReg
    <2> QED
      BY <1>3, <2>1, <2>2
  <1>4. ASSUME UNCHANGED mcu,
               \/ cache' = [cache EXCEPT ![c.led] = Remember(@, c)]
               \/ cache' = [cache EXCEPT ![c.led] = RememberTimes(@, c)] /\ RegOf(c.op) = "run"
        PROVE  SameReg(mcu[l], mcu'[l], cache[l], cache'[l], r)
    <2>1. CASE l # c.led
      BY <1>1, <1>4, <2>1, SameRegRefl DEF TypeOK
    <2>2. CASE l = c.led
      <3>1. \/ cache'[l] = Remember(cache[l], c)
            \/ cache'[l] = RememberTimes(cache[l], c) /\ RegOf(c.op) = "run"
        BY <1>4, <2>2 DEF TypeOK
      <3> QED
        BY <1>1, <1>4, <2>2, <3>1, RememberReg
    <2> QED
      BY <2>1, <2>2
  <1>5. CASE Lock(p)
    BY <1>2, <1>3, <1>5, SameRegRefl DEF Lock, Send
  <1>6. CASE Ack(p)
    <2>1. owner'[l][r] = owner[l][r]
      BY <1>1, <1>6 DEF Ack, Disown, TypeOK
    <2> QED
      BY <1>4, <1>6, <2>1, SameRegRefl DEF Ack
  <1>7. CASE Nak(p)
    <2>1. owner'[l][r] = owner[l][r]
      BY <1>1, <1>7 DEF Nak, Send, TypeOK
    <2> QED
      BY <1>3, <1>7, <2>1 DEF Nak, Send
  <1>8. CASE Commit(p)
    <2>1. owner'[l][r] = owner[l][r]
      BY <1>1, <1>8 DEF Commit, TypeOK
    <2> QED
      BY <1>4, <1>8, <2>1 DEF Commit
  <1>9. CASE CommitTimes(p)
    <2>1. RegOf(c.op) = "run"
      BY <1>9 DEF CommitTimes, CmdOK, RegOf
    <2>2. owner'[l][r] = owner[l][r]
      BY <1>1, <1>9, <2>1 DEF CommitTimes, TypeOK
    <2> QED
      BY <1>4, <1>9, <2>1, <2>2 DEF CommitTimes
  <1> QED
    BY <1>5, <1>6, <1>7, <1>8, <1>9 DEF Protocol

\* The register that the step of p works on.
LEMMA ProtocolOwn ==
  ASSUME TypeOK, CmdOK, OwnedOK, NEW p \in Procs, Protocol(p), NEW l \in Leds, NEW r \in Regs,
         l = cmd[p].led, r = RegOf(cmd[p].op), NEW o \in Procs, owner'[l][r] = o
  PROVE  Standing(l, r, o)'
  <1> DEFINE c == cmd[p]
  <1>1. /\ c \in Command /\ c.op \in Ops /\ OnOffBit(c)
        /\ mcu[l] \in McuState /\ cache[l] \in LedState
    BY DEF TypeOK, Command, CmdOK
  <1>2. Return(p) => pc'[p] = "idle" /\ cmd'[p] = NoCmd
    BY DEF Return, Goto, TypeOK
  <1>3. \A s : Goto(p, s) => pc'[p] = s
    BY DEF Goto, TypeOK
  <1>4. owner[l][r] = p /\ pc[p] \in {"ack", "commit", "times"} =>
          Standing(l, r, p) /\ InFlight(p, l, r)
    BY LedAssumption DEF OwnedOK, InFlight
  <1>5. ASSUME Return(p), o = p, Agree(mcu'[l], cache'[l], r) PROVE Standing(l, r, o)'
    BY <1>2, <1>5 DEF Standing, InFlight
  <1>6. ASSUME NEW a \in BOOLEAN, Send(p, c, a), pc'[p] = "ack", UNCHANGED cmd
        PROVE  Standing(l, r, o)'
    <2>1. o = p
      BY <1>6 DEF Send, TypeOK
    <2>2. bus'.ok => mcu'[l] = Execute(mcu[l], c)
      BY <1>6 DEF Send, TypeOK
    <2>3. bus'.ok => Shows(mcu'[l], c)
      BY <1>1, <2>2, ExecuteReg
    <2>4. InFlight(p, l, r)' /\ cmd'[p] = c
      BY <1>6 DEF InFlight
    <2> QED
      BY <1>6, <2>1, <2>3, <2>4 DEF Standing
  <1>7. CASE Lock(p)
    <2>1. CASE Return(p) /\ UNCHANGED <<bus, mcu, owner>>
      <3>1. (~InFlight(o, l, r) /\ ~InFlight(o, l, r)') \/ o # p
        BY <1>2, <1>7, <2>1 DEF Lock, InFlight
      <3>2. o # p => pc'[o] = pc[o] /\ cmd'[o] = cmd[o]
        BY <1>7, ProtocolFrame DEF Moves, TypeOK
      <3>3. o \in Procs /\ owner[l][r] = o
        BY <2>1 DEF TypeOK
      <3>4. SameReg(mcu[l], mcu'[l], cache[l], cache'[l], r)
        BY <1>7, <2>1, SameRegRefl DEF Lock
      <3> QED
        BY <2>1, <3>1, <3>2, <3>3, <3>4, Undisturbed
    <2>2. CASE \E a \in BOOLEAN : Send(p, c, a) /\ Goto(p, "ack") /\ UNCHANGED cmd
      BY <1>3, <1>6, <2>2
    <2> QED
      BY <1>7, <2>1, <2>2 DEF Lock
  <1>8. CASE Ack(p)
    <2>1. o = p /\ owner[l][r] = p /\ bus.by = p /\ bus.ok
      BY <1>8, LedAssumption DEF Ack, Disown, TypeOK
    <2>2. Shows(mcu[l], c)
      BY <1>4, <1>8, <2>1 DEF Ack, Standing
    <2>3. CASE Return(p) /\ c.op = "OP_ONOFF" /\ cache' = [cache EXCEPT ![l] = Remember(@, c)]
      <3>1. mcu'[l] = mcu[l] /\ cache'[l] = Remember(cache[l], c) /\ r = "run"
        BY <1>8, <2>3 DEF Ack, TypeOK, RegOf
      <3>2. Agree(mcu[l], Remember(cache[l], c), "run")
        BY <1>1, <2>2, <2>3, RememberAgrees DEF OnOffBit
      <3> QED
        BY <1>5, <2>1, <2>3, <3>1, <3>2
    <2>4. CASE Goto(p, "commit") /\ UNCHANGED <<cache, cmd>>
      <3>1. pc'[p] = "commit" /\ cmd'[p] = c /\ mcu' = mcu /\ InFlight(p, l, r)'
        BY <1>3, <1>8, <2>4 DEF Ack, InFlight
      <3> QED
        BY <2>1, <2>2, <3>1 DEF Standing
    <2> QED
      BY <1>8, <2>3, <2>4 DEF Ack
  <1>9. CASE Nak(p)
    <2>1. CASE \E a \in BOOLEAN : Send(p, c, a) /\ UNCHANGED <<pc, cmd>>
      BY <1>6, <1>9, <2>1 DEF Nak
    <2>2. CASE owner' = [owner EXCEPT ![c.led][RegOf(c.op)] = NoOne]
      BY <2>2, LedAssumption DEF TypeOK
    <2> QED
      BY <1>9, <2>1, <2>2 DEF Nak
  <1>10. CASE Commit(p)
    <2>1. o = p /\ owner[l][r] = p
      BY <1>10, LedAssumption DEF Commit, TypeOK
    <2>2. Shows(mcu[l], c) /\ c.op # "OP_ONOFF"
      BY <1>4, <1>10, <2>1 DEF Commit, Standing, CmdOK
    <2>3. mcu'[l] = mcu[l] /\ cache'[l] = Remember(cache[l], c)
      BY <1>10 DEF Commit, TypeOK
    <2>4. CASE Return(p) /\ r # "run"
      <3>1. c.op \in {"OP_BRIGHTNESS", "OP_COLOR"}
        BY <1>1, <2>4 DEF Ops, RegOf
      <3>2. Agree(mcu[l], Remember(cache[l], c), r)
        BY <1>1, <2>2, <3>1, RememberAgrees
      <3> QED
        BY <1>5, <2>1, <2>3, <2>4, <3>2
    <2>5. CASE Goto(p, "times") /\ UNCHANGED cmd
      <3>1. pc'[p] = "times" /\ cmd'[p] = c /\ InFlight(p, l, r)'
        BY <1>3, <2>5 DEF InFlight
      <3>2. RunShown(Remember(cache[l], c), c)
        BY <1>1, RememberReg
      <3> QED
        BY <2>1, <2>2, <2>3, <3>1, <3>2 DEF Standing
    <2> QED
      BY <1>10, <2>4, <2>5 DEF Commit
  <1>11. CASE CommitTimes(p)
    <2>1. c.op \in {"OP_BLINK", "OP_BREATH"} /\ r = "run"
      BY <1>11 DEF CommitTimes, CmdOK, RegOf
    <2>2. o = p /\ owner[l][r] = p
      BY <1>11, <2>1, LedAssumption DEF CommitTimes, TypeOK
    <2>3. Shows(mcu[l], c) /\ RunShown(cache[l], c)
      BY <1>4, <1>11, <2>2 DEF CommitTimes, Standing
    <2>4. Agree(mcu[l], RememberTimes(cache[l], c), "run")
      BY <1>1, <2>1, <2>3, RememberAgrees
    <2>5. mcu'[l] = mcu[l] /\ cache'[l] = RememberTimes(cache[l], c)
      BY <1>11 DEF CommitTimes, TypeOK
    <2> QED
      BY <1>5, <1>11, <2>1, <2>2, <2>4, <2>5 DEF CommitTimes
  <1> QED
    BY <1>7, <1>8, <1>9, <1>10, <1>11 DEF Protocol

LEMMA OwnedProtocol ==
  ASSUME TypeOK, CmdOK, OwnedOK, NEW p \in Procs, Protocol(p), TypeOK'
  PROVE  OwnedOK'
  <1> SUFFICES ASSUME NEW l \in Leds, NEW r \in Regs, NEW o \in Procs, owner'[l][r] = o
               PROVE  Standing(l, r, o)'
    BY DEF OwnedOK, TypeOK
  <1>1. CASE l = cmd[p].led /\ r = RegOf(cmd[p].op)
    BY <1>1, ProtocolOwn
  <1>2. CASE l # cmd[p].led \/ r # RegOf(cmd[p].op)
    <2>1. owner[l][r] = o /\ SameReg(mcu[l], mcu'[l], cache[l], cache'[l], r)
      BY <1>2, ProtocolRegs
    <2>2. CASE o = p
      <3>1. ~InFlight(p, l, r)
        BY <1>2 DEF InFlight
      <3>2. pc'[p] = "idle" \/ cmd'[p] = cmd[p]
        BY DEF Protocol, Lock, Ack, Nak, Commit, CommitTimes, Return, Goto, TypeOK
      <3>3. ~InFlight(p, l, r)'
        BY <1>2, <3>2 DEF InFlight
      <3> QED
        BY <2>1, <2>2, <3>1, <3>3, Undisturbed
    <2>3. CASE o # p
      <3>1. pc'[o] = pc[o] /\ cmd'[o] = cmd[o]
        BY <2>3, ProtocolFrame DEF Moves
      <3>2. bus' = bus \/ bus'.by # o
        BY <2>3, LedAssumption DEF Protocol, Lock, Ack, Nak, Commit, CommitTimes, Send, Quiet
      <3> QED
        BY <2>1, <3>1, <3>2, Undisturbed
    <2> QED
      BY <2>2, <2>3
  <1> QED
    BY <1>1, <1>2

LEMMA OwnedProbe ==
  ASSUME TypeOK, OwnedOK, ProbeRemove, TypeOK'
  PROVE  OwnedOK'
  <1> SUFFICES ASSUME NEW l \in Leds, NEW r \in Regs, NEW o \in Procs, owner'[l][r] = o
               PROVE  Standing(l, r, o)'
    BY DEF OwnedOK, TypeOK
  <1>1. ASSUME owner[l][r] = o, SameReg(mcu[l], mcu'[l], cache[l], cache'[l], r)
        PROVE  Standing(l, r, o)'
    <2>1. pc'[o] = pc[o] /\ cmd'[o] = cmd[o] /\ (bus' = bus \/ bus'.by # o)
      BY ProbeFrame, LedAssumption
    <2> QED
      BY <1>1, <2>1, Undisturbed
  <1>2. ASSUME UNCHANGED <<mcu, cache, owner>> PROVE Standing(l, r, o)'
    BY <1>1, <1>2, SameRegRefl
  <1>3. CASE ProbeStart
    BY <1>2, <1>3 DEF ProbeStart
  <1>4. CASE InitLedsStats
    BY <1>4, LedAssumption DEF InitLedsStats
  <1>5. ASSUME NEW failed \in BOOLEAN, InitLeds(failed) PROVE Standing(l, r, o)'
    <2>1. UNCHANGED mcu
      BY <1>5 DEF InitLeds
    <2>2. CASE UNCHANGED <<cache, owner>>
      BY <1>2, <2>1, <2>2
    <2>3. CASE /\ cache' = [cache EXCEPT ![at].run = mcu[at].run,
                               ![at].brightness = mcu[at].brightness,
                               ![at].color = ColorRead(mcu[at].color)]
               /\ owner' = [owner EXCEPT ![at] = [q \in Regs |-> NoOne]]
      <3>1. l # at
        BY <2>3, LedAssumption DEF TypeOK
      <3>2. owner[l][r] = o /\ cache'[l] = cache[l]
        BY <2>3, <3>1 DEF TypeOK
      <3> QED
        BY <1>1, <2>1, <3>2, SameRegRefl
    <2> QED
      BY <1>5, <2>2, <2>3 DEF InitLeds, ReadOk
  <1>6. ASSUME NEW c \in Command, ProbeWrite(c) PROVE Standing(l, r, o)'
    <2>1. c.led \in Leds /\ RegOf(c.op) \in Regs /\ mcu[l] \in McuState /\ cache[l] \in LedState
      BY RegOfType DEF TypeOK, Command
    <2>2. l # c.led \/ r # RegOf(c.op)
      BY <1>6, <2>1, LedAssumption DEF ProbeWrite, TypeOK
    <2>3. owner[l][r] = o
      BY <1>6, <2>1, <2>2 DEF ProbeWrite, TypeOK
    <2>4. mcu'[l] = mcu[l] \/ (l = c.led /\ mcu'[l] = Execute(mcu[l], c))
      BY <1>6, <2>1 DEF ProbeWrite, TypeOK
    <2>5. SameReg(mcu[l], mcu'[l], cache[l], cache'[l], r)
      BY <1>6, <2>1, <2>2, <2>4, ExecuteReg, SameRegRefl DEF ProbeWrite
    <2> QED
      BY <1>1, <2>3, <2>5
  <1>7. at \in Leds /\ cache[at].brightness \in Nat /\ cache[at].run \in Nat
    BY DEF TypeOK, LedState
  <1>8. CASE InitBrightness
    <2>1. Cmd(at, "OP_BRIGHTNESS", cache[at].brightness) \in Command
      BY <1>7, CmdType DEF Ops
    <2> QED
      BY <1>6, <1>8, <2>1 DEF InitBrightness
  <1>9. CASE InitOnOff
    <2>1. Cmd(at, "OP_ONOFF", cache[at].run) \in Command
      BY <1>7, CmdType DEF Ops
    <2> QED
      BY <1>6, <1>9, <2>1 DEF InitOnOff
  <1>10. CASE RemoveStart \/ CancelWork \/ Unregister
    BY <1>2, <1>10 DEF RemoveStart, CancelWork, Unregister
  <1> QED
    BY <1>3, <1>4, <1>5, <1>8, <1>9, <1>10 DEF ProbeRemove

LEMMA OwnedStep ==
  ASSUME TypeOK, CmdOK, OwnedOK, [Next]_vars, TypeOK'
  PROVE  CmdOK' /\ OwnedOK'
  <1> SUFFICES OwnedOK'
    BY CmdStep
  <1>1. ASSUME NEW p \in Procs, Protocol(p) PROVE OwnedOK'
    BY <1>1, OwnedProtocol
  <1>2. ASSUME NEW l \in Leds, McuWork(l) PROVE OwnedOK'
    <2>1. /\ l \in Procs /\ Moves(l, {"idle", "lock"}) /\ pc[l] = "idle"
          /\ UNCHANGED <<bus, mcu, cache, owner>>
      BY <1>2, WorkFrame, ConstantFacts
    <2> QED
      BY <2>1, OwnedQuiet DEF Moves
  <1>3. ASSUME NEW p \in Callers, SystemCall(p) PROVE OwnedOK'
    <2>1. /\ p \in Procs /\ Moves(p, Outside \cup {"lock"}) /\ pc[p] \in Outside
          /\ UNCHANGED <<bus, mcu, cache, owner>>
      BY <1>3, SystemCallFrame, ConstantFacts
    <2> QED
      BY <2>1, OwnedQuiet DEF Moves, Outside
  <1>4. CASE ProbeRemove
    BY <1>4, OwnedProbe
  <1>5. CASE UNCHANGED vars
    BY <1>5 DEF vars, OwnedOK, Standing, InFlight
  <1> QED
    BY <1>1, <1>2, <1>3, <1>4, <1>5 DEF Next

LEMMA AlwaysOwned == Spec => [](CmdOK /\ OwnedOK)
  <1>1. Init => CmdOK /\ OwnedOK
    BY DEF Init, CmdOK, OnOffBit, NoCmd, OwnedOK
  <1> QED
    BY <1>1, OwnedStep, TypeCorrect, PTL DEF Spec

\* The cache that suppresses repeated requests tells the truth wherever the
\* last command was acknowledged to its sender and nobody else touched the
\* register or its cache since: for every number of LEDs and of writers, for
\* every order of their steps and every pattern of bad acknowledges.
THEOREM CacheIsExact == Spec => []CacheExact
  BY AlwaysOwned, OwnedImpliesExact, PTL

----------------------------------------------------------------------------
(* Remove.                                                                 *)

\* No call and no work item can start: remove_or_shutdown is raised, or the
\* driver has never been bound.
Closed == stopping \/ (live = {} /\ \A l \in Leds : ~pending[l])

\* What remove has waited for so far stays finished.
Draining ==
  /\ drv \in {"cancel", "unregister"} => stopping
  /\ drv = "cancel" => \A l \in Leds : l < at => pc[l] = "idle"
  /\ drv = "unregister" =>
       /\ \A l \in Leds : pc[l] = "idle"
       /\ \A p \in Callers : pc[p] # "idle" => at \leq cmd[p].led
  /\ drv = "unbound" => Closed /\ \A p \in Procs : pc[p] = "idle"

LEMMA DrainingQuiesces == TypeOK /\ LockHeld /\ Draining => RemoveQuiesces
  BY DEF TypeOK, LockHeld, Draining, RemoveQuiesces

\* Thread p does not start anything.
Continues(p) == pc'[p] # "idle" => pc[p] # "idle" /\ cmd'[p].led = cmd[p].led

LEMMA RequestContinues ==
  ASSUME TypeOK, NEW p \in Procs, pc[p] # "idle",
         NEW o, NEW v, Request(p, Cmd(cmd[p].led, o, v))
  PROVE  Continues(p)
  <1>1. CASE Return(p)
    BY <1>1 DEF Return, Goto, TypeOK, Continues
  <1>2. CASE cmd' = [cmd EXCEPT ![p] = Cmd(cmd[p].led, o, v)]
    BY <1>2 DEF Cmd, TypeOK, Continues
  <1> QED
    BY <1>1, <1>2 DEF Request

LEMMA BlinkSetContinues ==
  ASSUME TypeOK, NEW p \in Procs, pc[p] # "idle",
         NEW t, NEW d, BlinkSet(p, cmd[p].led, t, d)
  PROVE  Continues(p)
  <1>1. Return(p) => Continues(p)
    BY DEF Return, Goto, TypeOK, Continues
  <1>2. \A o, v : Request(p, Cmd(cmd[p].led, o, v)) => Continues(p)
    BY RequestContinues
  <1>3. CASE t = "normal"
    BY <1>1, <1>2, <1>3 DEF BlinkSet
  <1>4. CASE t = "timer2"
    BY <1>1, <1>2, <1>4 DEF BlinkSet
  <1>5. CASE t = "breath"
    BY <1>1, <1>2, <1>5 DEF BlinkSet
  <1>6. CASE t \notin {"normal", "timer2", "breath"}
    BY <1>1, <1>6 DEF BlinkSet
  <1> QED
    BY <1>3, <1>4, <1>5, <1>6

LEMMA ProtocolContinues ==
  ASSUME TypeOK, NEW p \in Procs, Protocol(p)
  PROVE  Continues(p)
  <1>1. pc[p] # "idle"
    BY ProtocolFrame
  <1>2. pc'[p] = "idle" \/ cmd'[p] = cmd[p]
    BY DEF Protocol, Lock, Ack, Nak, Commit, CommitTimes, Return, Goto, TypeOK
  <1> QED
    BY <1>1, <1>2 DEF Continues

\* A call of p that is under way goes on on its LED; a new one needs a LED
\* that is registered, and the flag down.
LEMMA SystemCallContinues ==
  ASSUME TypeOK, NEW p \in Callers, SystemCall(p)
  PROVE  \/ Continues(p) /\ pc[p] # "idle"
         \/ ~stopping /\ live # {}
  <1>1. p \in Procs
    BY ConstantFacts
  <1>2. CASE \E l \in Leds : Reachable(l)
    BY <1>2 DEF Reachable
  <1>3. CASE LedsBrightnessSet(p)
    BY <1>1, <1>3 DEF LedsBrightnessSet, Return, Goto, TypeOK, Continues
  <1>4. CASE Activate(p)
    <2>1. CASE Return(p)
      BY <1>1, <1>4, <2>1 DEF Activate, Return, Goto, TypeOK, Continues
    <2>2. CASE BlinkSet(p, cmd[p].led, trig[cmd[p].led], 0)
      BY <1>1, <1>4, <2>2, BlinkSetContinues DEF Activate
    <2> QED
      BY <1>4, <2>1, <2>2 DEF Activate
  <1> QED
    BY <1>2, <1>3, <1>4 DEF SystemCall, BrightnessStore, ColorSet, DelayStore, TriggerStore

\* A step of thread p that starts nothing keeps what remove has waited for.
LEMMA DrainingThread ==
  ASSUME TypeOK, Draining, NEW p \in Procs, NEW s, Moves(p, s),
         Continues(p) \/ ~(drv \in {"cancel", "unregister", "unbound"}),
         UNCHANGED <<drv, at, stopping, live>>,
         drv = "unbound" /\ Closed => Closed'
  PROVE  Draining'
  <1>1. CASE ~(drv \in {"cancel", "unregister", "unbound"})
    BY <1>1 DEF Draining
  <1>2. CASE Continues(p)
    <2>1. \A q \in Procs : pc'[q] # "idle" => pc[q] # "idle" /\ cmd'[q].led = cmd[q].led
      BY <1>2 DEF Moves, Continues
    <2> QED
      BY <2>1, ConstantFacts DEF Draining
  <1> QED
    BY <1>1, <1>2

LEMMA DrainingStep ==
  ASSUME TypeOK, Draining, [Next]_vars
  PROVE  Draining'
  <1>1. ASSUME NEW p \in Procs, Protocol(p) PROVE Draining'
    <2>1. /\ Moves(p, {"idle", "ack", "commit", "times"}) /\ Continues(p)
          /\ UNCHANGED <<drv, at, stopping, live, pending>>
      BY <1>1, ProtocolFrame, ProtocolContinues
    <2>2. Closed => Closed'
      BY <2>1 DEF Closed
    <2> QED
      BY <2>1, <2>2, DrainingThread
  <1>2. ASSUME NEW l \in Leds, McuWork(l) PROVE Draining'
    <2>1. /\ l \in Procs /\ Moves(l, {"idle", "lock"}) /\ pc[l] = "idle" /\ pending[l]
          /\ stopping => pc'[l] = "idle"
          /\ UNCHANGED <<drv, at, stopping, live>>
      BY <1>2, WorkFrame, ConstantFacts DEF McuWork
    <2>2. CASE stopping
      <3>1. Continues(l) /\ Closed'
        BY <2>1, <2>2 DEF Continues, Closed
      <3> QED
        BY <2>1, <3>1, DrainingThread
    <2>3. CASE ~stopping
      <3>1. ~(drv \in {"cancel", "unregister", "unbound"})
        BY <2>1, <2>3 DEF Draining, Closed
      <3> QED
        BY <2>1, <3>1, DrainingThread
    <2> QED
      BY <2>2, <2>3
  <1>3. ASSUME NEW p \in Callers, SystemCall(p) PROVE Draining'
    <2>1. /\ p \in Procs /\ Moves(p, Outside \cup {"lock"})
          /\ UNCHANGED <<drv, at, stopping, live>>
      BY <1>3, SystemCallFrame, ConstantFacts
    <2>2. CASE Continues(p) /\ pc[p] # "idle"
      <3>1. drv # "unbound"
        BY <2>1, <2>2 DEF Draining
      <3> QED
        BY <2>1, <2>2, <3>1, DrainingThread
    <2>3. CASE ~stopping /\ live # {}
      <3>1. ~(drv \in {"cancel", "unregister", "unbound"})
        BY <2>3 DEF Draining, Closed
      <3> QED
        BY <2>1, <3>1, DrainingThread
    <2> QED
      BY <1>3, <2>2, <2>3, SystemCallContinues
  <1>4. CASE ProbeRemove
    <2> USE <1>4 DEF procVars
    <2>1. UNCHANGED <<pc, cmd>>
      BY ProbeFrame
    <2>2. ASSUME drv' \notin {"cancel", "unregister", "unbound"} PROVE Draining'
      BY <2>2 DEF Draining
    <2>3. CASE ProbeStart \/ InitLedsStats \/ InitBrightness \/ InitOnOff
      BY <2>2, <2>3 DEF ProbeStart, InitLedsStats, InitBrightness, InitOnOff, NextLed
    <2>4. CASE \E failed \in BOOLEAN : InitLeds(failed)
      BY <2>2, <2>4 DEF InitLeds, NextLed
    <2>5. CASE RemoveStart
      BY <2>1, <2>5, ConstantFacts DEF RemoveStart, Draining
    <2>6. at \in Nat /\ \A l \in Leds : l \in Nat /\ l < LED_COUNT
      BY LedAssumption DEF TypeOK, Leds
    <2>7. CASE CancelWork
      <3>1. drv = "cancel" /\ pc[at] = "idle" /\ stopping /\ stopping' = stopping
        BY <2>7 DEF CancelWork, Draining
      <3>2. \A l \in Leds : l < at + 1 => pc[l] = "idle"
        BY <2>6, <3>1 DEF Draining
      <3>3. CASE at + 1 = LED_COUNT
        <4>1. drv' = "unregister" /\ at' = 0
          BY <2>7, <3>3 DEF CancelWork
        <4>2. \A p \in Callers : cmd[p].led \in Leds
          BY ConstantFacts DEF TypeOK, Command
        <4>3. \A p \in Callers : 0 \leq cmd[p].led
          BY <2>6, <4>2
        <4> QED
          BY <2>1, <2>6, <3>1, <3>2, <3>3, <4>1, <4>3 DEF Draining
      <3>4. CASE at + 1 # LED_COUNT
        <4>1. drv' = drv /\ at' = at + 1
          BY <2>7, <3>4 DEF CancelWork
        <4> QED
          BY <2>1, <3>1, <3>2, <4>1 DEF Draining
      <3> QED
        BY <3>3, <3>4
    <2>8. CASE Unregister
      <3>1. /\ drv = "unregister" /\ stopping /\ stopping' = stopping
            /\ \A l \in Leds : pc[l] = "idle"
        BY <2>8 DEF Unregister, Draining
      <3>2. ASSUME NEW p \in Callers, pc[p] # "idle" PROVE at + 1 \leq cmd[p].led
        <4>1. cmd[p].led \in Leds
          BY ConstantFacts DEF TypeOK, Command
        <4>2. at \leq cmd[p].led /\ cmd[p].led # at
          BY <2>8, <3>2 DEF Unregister, Draining
        <4> QED
          BY <2>6, <4>1, <4>2
      <3>3. CASE at + 1 = LED_COUNT
        <4>1. drv' = "unbound" /\ Closed'
          BY <2>8, <3>1, <3>3 DEF Unregister, Closed
        <4>2. \A p \in Callers : pc[p] = "idle"
          <5>1. \A p \in Callers : cmd[p].led \in Leds
            BY ConstantFacts DEF TypeOK, Command
          <5> QED
            BY <2>6, <3>2, <3>3, <5>1
        <4>3. \A p \in Procs : pc[p] = "idle"
          BY <3>1, <4>2 DEF Procs
        <4> QED
          BY <2>1, <4>1, <4>3 DEF Draining
      <3>4. CASE at + 1 # LED_COUNT
        <4>1. drv' = "unregister" /\ at' = at + 1
          BY <2>8, <3>1, <3>4 DEF Unregister
        <4> QED
          BY <2>1, <3>1, <3>2, <4>1 DEF Draining
      <3> QED
        BY <3>3, <3>4
    <2> QED
      BY <2>3, <2>4, <2>5, <2>7, <2>8 DEF ProbeRemove
  <1>5. CASE UNCHANGED vars
    BY <1>5 DEF vars, Draining, Closed
  <1> QED
    BY <1>1, <1>2, <1>3, <1>4, <1>5 DEF Next

\* When remove has returned no thread is inside the driver and i2cmutex is
\* free, whatever calls and work items were under way when it began.
THEOREM RemoveIsQuiet == Spec => []RemoveQuiesces
  <1>1. Init => AckIsOwn /\ LockHeld /\ Draining
    BY LedAssumption, ConstantFacts DEF Init, AckIsOwn, LockHeld, Draining, Closed
  <1>2. TypeOK /\ AckIsOwn /\ LockHeld /\ Draining /\ [Next]_vars
          => (AckIsOwn /\ LockHeld /\ Draining)'
    BY AckStep, DrainingStep
  <1> QED
    BY <1>1, <1>2, TypeCorrect, DrainingQuiesces, PTL DEF Spec


----------------------------------------------------------------------------
(* Probe of a controller that is running.                                  *)

Probing == {"stats", "read", "reread", "bright", "onoff"}

\* While probe runs nothing else does, and it writes to an LED other than the
\* power LED only when the LED is off.
ProbeAlone ==
  /\ drv \in Probing => /\ \A p \in Procs : pc[p] = "idle"
                        /\ \A l \in Leds : ~pending[l]
  /\ drv \in {"bright", "onoff"} /\ at # 0 => mcu[at].run = RUN_STATE_OFF

\* Without early users no thread takes a step while probe runs.
LEMMA ProbingIsQuiet ==
  ASSUME ~EarlyUsers, ProbeAlone, drv \in Probing, Next
  PROVE  ProbeRemove
  <1>1. ASSUME NEW p \in Procs, Protocol(p) PROVE FALSE
    BY <1>1 DEF ProbeAlone, Protocol, Lock, Ack, Nak, Commit, CommitTimes
  <1>2. ASSUME NEW l \in Leds, McuWork(l) PROVE FALSE
    BY <1>2 DEF ProbeAlone, McuWork
  <1>3. ASSUME NEW p \in Callers, SystemCall(p) PROVE FALSE
    <2>1. \A l \in Leds : ~Reachable(l)
      BY DEF Reachable, Probing
    <2>2. pc[p] = "idle"
      BY ConstantFacts DEF ProbeAlone
    <2> QED
      BY <1>3, <2>1, <2>2 DEF SystemCall, BrightnessStore, ColorSet, DelayStore, TriggerStore,
                              LedsBrightnessSet, Activate
  <1> QED
    BY <1>1, <1>2, <1>3 DEF Next

\* What probe writes is for the LED it is at, and nothing it writes before the
\* switch itself changes whether the LED is off.
LEMMA ProbeWrites ==
  ASSUME TypeOK, ProbeRemove
  PROVE  \/ mcu' = mcu
         \/ /\ drv \in {"bright", "onoff"} /\ \A l \in Leds \ {at} : mcu'[l] = mcu[l]
            /\ drv = "bright" => at' = at /\ drv' = "onoff" /\ mcu'[at].run = mcu[at].run
            /\ drv = "onoff" => drv' \in {"read", "bound"}
  <1>1. ASSUME NEW c, c.led = at, ProbeWrite(c)
        PROVE  /\ \A l \in Leds \ {at} : mcu'[l] = mcu[l]
               /\ mcu'[at] \in {mcu[at], Execute(mcu[at], c)}
    <2>1. at \in Leds
      BY DEF TypeOK
    <2> QED
      BY <1>1, <2>1 DEF ProbeWrite, TypeOK
  <1>2. CASE InitBrightness
    <2> DEFINE c == Cmd(at, "OP_BRIGHTNESS", cache[at].brightness)
    <2>1. c.led = at /\ c.op = "OP_BRIGHTNESS"
      BY DEF Cmd
    <2>2. Execute(mcu[at], c).run = mcu[at].run
      <3>1. mcu[at] \in McuState
        BY DEF TypeOK
      <3> QED
        BY <2>1, <3>1 DEF Execute, McuState
    <2> QED
      BY <1>1, <1>2, <2>1, <2>2 DEF InitBrightness
  <1>3. CASE InitOnOff
    <2>1. Cmd(at, "OP_ONOFF", cache[at].run).led = at
      BY DEF Cmd
    <2> QED
      BY <1>1, <1>3, <2>1 DEF InitOnOff, NextLed
  <1>4. CASE \/ ProbeStart \/ InitLedsStats \/ (\E failed \in BOOLEAN : InitLeds(failed))
             \/ RemoveStart \/ CancelWork \/ Unregister
    BY <1>4 DEF ProbeStart, InitLedsStats, InitLeds, RemoveStart, CancelWork, Unregister
  <1> QED
    BY <1>2, <1>3, <1>4 DEF ProbeRemove

LEMMA ProbeAloneStep ==
  ASSUME ~EarlyUsers, MaxNaks \leq 1, TypeOK, Draining, ProbeAlone, [Next]_vars
  PROVE  ProbeAlone'
  <1>1. CASE UNCHANGED vars
    BY <1>1 DEF vars, ProbeAlone
  <1>2. CASE Next /\ ~ProbeRemove
    <2>1. drv \notin Probing
      BY <1>2, ProbingIsQuiet
    <2>2. drv' = drv
      <3>1. ASSUME NEW p \in Procs, Protocol(p) PROVE drv' = drv
        BY <3>1, ProtocolFrame
      <3>2. ASSUME NEW l \in Leds, McuWork(l) PROVE drv' = drv
        BY <3>2, WorkFrame
      <3>3. ASSUME NEW p \in Callers, SystemCall(p) PROVE drv' = drv
        BY <3>3, SystemCallFrame
      <3> QED
        BY <1>2, <3>1, <3>2, <3>3 DEF Next
    <2> QED
      BY <2>1, <2>2 DEF ProbeAlone, Probing
  <1>3. CASE ProbeRemove
    <2>1. UNCHANGED pc
      BY <1>3, ProbeFrame
    <2>2. ASSUME drv' \in Probing
          PROVE  \A p \in Procs : pc[p] = "idle"
      <3>1. CASE drv \in Probing
        BY <3>1 DEF ProbeAlone
      <3>2. CASE drv \notin Probing
        <4>1. ProbeStart
          BY <1>3, <2>2, <3>2 DEF ProbeRemove, Probing, InitLedsStats, InitLeds, InitBrightness,
                                  InitOnOff, RemoveStart, CancelWork, Unregister
        <4> QED
          BY <4>1 DEF ProbeStart, Draining
      <3> QED
        BY <3>1, <3>2
    <2>3. ASSUME drv' \in Probing
          PROVE  \A l \in Leds : ~pending'[l]
      <3>1. CASE ProbeStart
        BY <3>1 DEF ProbeStart, userVars
      <3>2. CASE ~ProbeStart
        <4>1. drv \in Probing /\ pending' = pending
          <5>1. CASE InitLedsStats \/ \E failed \in BOOLEAN : InitLeds(failed)
            BY <5>1 DEF InitLedsStats, InitLeds, Probing, userVars
          <5>2. CASE InitBrightness \/ InitOnOff
            BY <5>2 DEF InitBrightness, InitOnOff, ProbeWrite, Probing, userVars
          <5>3. ~RemoveStart /\ ~CancelWork /\ ~Unregister
            BY <2>3 DEF RemoveStart, CancelWork, Unregister, Probing
          <5> QED
            BY <1>3, <3>2, <5>1, <5>2, <5>3 DEF ProbeRemove
        <4> QED
          BY <4>1 DEF ProbeAlone
      <3> QED
        BY <3>1, <3>2
    <2>4. ASSUME drv' \in {"bright", "onoff"}, at' # 0
          PROVE  mcu'[at'].run = RUN_STATE_OFF
      <3>1. CASE InitBrightness
        <4>1. at' = at /\ drv = "bright" /\ mcu[at].run = RUN_STATE_OFF
          BY <2>4, <3>1 DEF InitBrightness, ProbeAlone
        <4> QED
          BY <1>3, <4>1, ProbeWrites
      <3>2. ASSUME NEW failed \in BOOLEAN, InitLeds(failed)
            PROVE  mcu'[at'].run = RUN_STATE_OFF
        <4>1. mcu' = mcu /\ at' = at /\ ~failed /\ cache'[at].run = RUN_STATE_OFF
          <5>1. drv' = "bright"
            BY <2>4, <3>2 DEF InitLeds, NextLed
          <5>2. ~(failed /\ drv = "read") /\ cache'[at].run = RUN_STATE_OFF /\ at' = at
            BY <3>2, <5>1 DEF InitLeds, NextLed
          <5>3. failed => drv = "read"
            BY <3>2, LedAssumption DEF InitLeds, MayFail, RETRIES
          <5> QED
            BY <3>2, <5>2, <5>3 DEF InitLeds
        <4>2. CASE mcu[at].run = RUN_STATE_OFF
          BY <4>1, <4>2
        <4>3. CASE mcu[at].run # RUN_STATE_OFF
          <5>1. cache' = [cache EXCEPT ![at].run = mcu[at].run,
                             ![at].brightness = mcu[at].brightness,
                             ![at].color = ColorRead(mcu[at].color)]
            BY <3>2, <4>1, <4>3 DEF InitLeds, ReadOk
          <5>2. cache'[at].run = mcu[at].run
            BY <5>1 DEF TypeOK, LedState
          <5> QED
            BY <4>1, <4>3, <5>2
        <4> QED
          BY <4>2, <4>3
      <3>3. CASE ProbeStart \/ InitLedsStats \/ InitOnOff \/ RemoveStart \/ CancelWork \/ Unregister
        BY <2>4, <3>3 DEF ProbeStart, InitLedsStats, InitOnOff, NextLed, RemoveStart, CancelWork,
                          Unregister
      <3> QED
        BY <1>3, <3>1, <3>2, <3>3 DEF ProbeRemove
    <2> QED
      BY <2>1, <2>2, <2>3, <2>4 DEF ProbeAlone
  <1> QED
    BY <1>1, <1>2, <1>3

\* Binding the driver leaves every LED but the power LED as it runs, whenever
\* no two reads in a row fail and user space waits for probe: with any number
\* of LEDs, and on every binding, not only the first.
THEOREM ProbeKeepsLeds ==
  ASSUME ~EarlyUsers, MaxNaks \leq 1
  PROVE  Spec => WarmProbe
  <1> DEFINE Kept == \A l \in Leds \ {0} :
                       (drv \in {"stats", "read", "reread", "bright", "onoff"}
                          /\ mcu[l].run # RUN_STATE_OFF) => mcu'[l] = mcu[l]
  <1>1. Init => Draining /\ ProbeAlone
    BY LedAssumption, ConstantFacts DEF Init, Draining, Closed, ProbeAlone, Probing
  <1>2. TypeOK /\ Draining /\ ProbeAlone /\ [Next]_vars => (Draining /\ ProbeAlone)'
    BY DrainingStep, ProbeAloneStep
  <1>3. TypeOK /\ ProbeAlone /\ [Next]_vars => [Kept]_vars
    <2> SUFFICES ASSUME TypeOK, ProbeAlone, Next, NEW l \in Leds \ {0},
                        drv \in Probing, mcu[l].run # RUN_STATE_OFF
                 PROVE  mcu'[l] = mcu[l]
      BY DEF Probing
    <2>1. ProbeRemove
      BY ProbingIsQuiet
    <2>2. drv \in {"bright", "onoff"} => l # at
      BY DEF ProbeAlone
    <2> QED
      BY <2>1, <2>2, ProbeWrites
  <1> QED
    BY <1>1, <1>2, <1>3, TypeCorrect, PTL DEF Spec, WarmProbe

----------------------------------------------------------------------------
(* What the driver promises: LedRegisters.                                 *)

\* A table of something per register of each LED.
Table(f) == f = [l \in Leds |-> [r \in Regs |-> f[l][r]]]


LEMMA RowsOfRegs ==
  ASSUME NEW m, NEW s
  PROVE  /\ ShownIn(m) = [r \in Regs |-> ShownIn(m)[r]]
         /\ KnownIn(s) = [r \in Regs |-> KnownIn(s)[r]]
  <1>1. ShownIn(m) = [r \in Regs |-> ShownIn(m)[r]]
    BY DEF ShownIn
  <1>2. KnownIn(s) = [r \in Regs |-> KnownIn(s)[r]]
    BY DEF KnownIn
  <1> QED
    BY <1>1, <1>2

LEMMA Tables == Table(Shown) /\ Table(Known) /\ Table(Settled)
  <1>1. Table(Shown)
    BY RowsOfRegs DEF Table, Shown
  <1>2. Table(Known)
    BY RowsOfRegs DEF Table, Known
  <1>3. Table(Settled)
    BY DEF Table, Settled
  <1> QED
    BY <1>1, <1>2, <1>3

LEMMA TablesNext == Table(Shown') /\ Table(Known') /\ Table(Settled')
  <1>1. Table(Shown')
    BY RowsOfRegs DEF Table, Shown
  <1>2. Table(Known')
    BY RowsOfRegs DEF Table, Known
  <1>3. Table(Settled')
    BY DEF Table, Settled
  <1> QED
    BY <1>1, <1>2, <1>3

\* Two tables that differ at most in one entry.
PutAt(f, g, l, r, v) == g = [f EXCEPT ![l][r] = v]
DifferAt(f, g, l, r) == PutAt(f, g, l, r, g[l][r])

LEMMA OneEntry ==
  ASSUME NEW f, NEW g, Table(f), Table(g), NEW l \in Leds, NEW r \in Regs,
         \A k \in Leds, q \in Regs : k # l \/ q # r => g[k][q] = f[k][q]
  PROVE  DifferAt(f, g, l, r)
  <1>1. g = [k \in Leds |-> [q \in Regs |-> g[k][q]]]
    BY DEF Table
  <1>2. f = [k \in Leds |-> [q \in Regs |-> f[k][q]]]
    BY DEF Table
  <1>3. [f EXCEPT ![l][r] = g[l][r]] =
          [k \in Leds |-> [q \in Regs |-> IF k = l /\ q = r THEN g[l][r] ELSE f[k][q]]]
    BY <1>2
  <1>4. \A k \in Leds, q \in Regs :
          g[k][q] = IF k = l /\ q = r THEN g[l][r] ELSE f[k][q]
    OBVIOUS
  <1> QED
    BY <1>1, <1>3, <1>4 DEF DifferAt, PutAt

LEMMA SameTable ==
  ASSUME NEW f, NEW g, Table(f), Table(g),
         \A k \in Leds, q \in Regs : g[k][q] = f[k][q]
  PROVE  g = f
  BY DEF Table

\* The registers of the driver, one by one.
LEMMA Entries ==
  ASSUME NEW l \in Leds, NEW r \in Regs
  PROVE  /\ Shown[l][r] = ShownIn(mcu[l])[r] /\ Shown'[l][r] = ShownIn(mcu'[l])[r]
         /\ Known[l][r] = KnownIn(cache[l])[r] /\ Known'[l][r] = KnownIn(cache'[l])[r]
         /\ Settled[l][r] = SettledOn(l, r) /\ Settled'[l][r] = SettledOn(l, r)'
  BY DEF Shown, Known, Settled

LEMMA SameRegReads ==
  ASSUME NEW m, NEW n, NEW s, NEW u, NEW r \in Regs, SameReg(m, n, s, u, r)
  PROVE  ShownIn(n)[r] = ShownIn(m)[r] /\ KnownIn(u)[r] = KnownIn(s)[r]
  BY DEF SameReg, ShownIn, KnownIn, Reading, Regs

LEMMA AgreeReads ==
  ASSUME NEW m, NEW s, NEW r \in Regs, Agree(m, s, r)
  PROVE  KnownIn(s)[r] = ShownIn(m)[r]
  BY DEF Agree, ShownIn, KnownIn, Reading, Regs, RUN_STATE_BLINK, RUN_STATE_BREATH

\* The command that a brightness asks for, and the register it is about.
LEMMA WantCommand ==
  ASSUME NEW l \in Leds, NEW b \in 0 .. 255
  PROVE  /\ BrightnessCmd(l, b) \in Command /\ BrightnessCmd(l, b).led = l
         /\ BrightnessCmd(l, b).op \in {"OP_ONOFF", "OP_BRIGHTNESS"}
         /\ RegOf(BrightnessCmd(l, b).op) = Want(b).reg
  <1>1. BrightnessCmd(l, b) \in Command
    BY BrightnessCmdType
  <1>2. CASE b \in {0, 1}
    BY <1>1, <1>2 DEF BrightnessCmd, Cmd, RegOf, Want, LED_OFF, LED_ON
  <1>3. CASE b \notin {0, 1}
    BY <1>1, <1>3 DEF BrightnessCmd, Cmd, RegOf, Want, LED_OFF, LED_ON
  <1> QED
    BY <1>2, <1>3

\* A cache that has it reads as was asked.
LEMMA WantReads ==
  ASSUME NEW l \in Leds, NEW b \in 0 .. 255, NEW s \in LedState,
         Cached(s, BrightnessCmd(l, b))
  PROVE  KnownIn(s)[Want(b).reg] = Want(b).val
  <1>1. CASE b \in {0, 1}
    <2>1. BrightnessCmd(l, b).op = "OP_ONOFF" /\ BrightnessCmd(l, b).val = b
      BY <1>1 DEF BrightnessCmd, Cmd, LED_OFF, LED_ON
    <2>2. s.run = b
      BY <2>1 DEF Cached
    <2>3. KnownIn(s)["run"] = <<b>>
      BY <1>1, <2>2 DEF KnownIn, Reading, Regs, RUN_STATE_BLINK, RUN_STATE_BREATH
    <2>4. Want(b).reg = "run" /\ Want(b).val = <<b>>
      BY <1>1 DEF Want, LED_OFF, LED_ON
    <2> QED
      BY <2>3, <2>4
  <1>2. CASE b \notin {0, 1}
    <2>1. BrightnessCmd(l, b).op = "OP_BRIGHTNESS" /\ BrightnessCmd(l, b).val = b
      BY <1>2 DEF BrightnessCmd, Cmd, LED_OFF, LED_ON
    <2>2. s.brightness = b
      BY <2>1 DEF Cached
    <2>3. KnownIn(s)["brightness"] = <<b>>
      BY <2>2 DEF KnownIn, Regs
    <2>4. Want(b).reg = "brightness" /\ Want(b).val = <<b>>
      BY <1>2 DEF Want, LED_OFF, LED_ON
    <2> QED
      BY <2>3, <2>4
  <1> QED
    BY <1>1, <1>2

LEMMA RememberCached ==
  ASSUME NEW s \in LedState, NEW c, c.op \in {"OP_ONOFF", "OP_BRIGHTNESS"}
  PROVE  Cached(Remember(s, c), c)
  BY DEF Cached, Remember, LedState

\* The work item of an LED that runs and is not queued again acts on the
\* brightness asked for last; the flag is up only after remove has begun.
WorkInv ==
  \A l \in Leds : pc[l] # "idle" /\ ~pending[l] => cmd[l] = BrightnessCmd(l, value[l])
Stopped == stopping => drv \in {"cancel", "unregister", "unbound"}

\* A system call asks for nothing, or for one brightness, and queues the work.
LEMMA SystemCallAsks ==
  ASSUME TypeOK, StoredOK, NEW p \in Callers, SystemCall(p)
  PROVE  \/ UNCHANGED <<value, pending>>
         \/ \E l \in Leds, b \in 0 .. 255 : /\ value' = [value EXCEPT ![l] = b]
                                            /\ pending' = [pending EXCEPT ![l] = TRUE]
  <1> USE DEF devVars, userVars
  <1>1. p \in Procs
    BY ConstantFacts
  <1>2. CASE \E l \in Leds, b \in Brightness : BrightnessStore(p, l, b)
    BY <1>2 DEF BrightnessStore
  <1>3. CASE \E l \in Leds, s \in ColorRequests : ColorSet(p, l, s)
    BY <1>3 DEF ColorSet
  <1>4. CASE \E l \in Leds, d \in Delays : DelayStore(p, l, d)
    BY <1>4 DEF DelayStore
  <1>5. CASE \E l \in Leds, t \in Triggers \cup {"none"} : TriggerStore(p, l, t)
    <2>1. LED_OFF \in 0 .. 255
      BY DEF LED_OFF
    <2> QED
      BY <1>5, <2>1 DEF TriggerStore
  <1>6. CASE LedsBrightnessSet(p)
    <2>1. cmd[p].led \in Leds /\ cmd[p].val \in 0 .. 255
      BY <1>1, <1>6 DEF TypeOK, Command, StoredOK, LedsBrightnessSet
    <2> QED
      BY <1>6, <2>1 DEF LedsBrightnessSet
  <1>7. CASE Activate(p)
    BY <1>7 DEF Activate
  <1> QED
    BY <1>2, <1>3, <1>4, <1>5, <1>6, <1>7 DEF SystemCall

LEMMA WorkStep ==
  ASSUME TypeOK, StoredOK, WorkInv, [Next]_vars
  PROVE  WorkInv'
  <1> SUFFICES ASSUME NEW l \in Leds, pc'[l] # "idle", ~pending'[l]
               PROVE  cmd'[l] = BrightnessCmd(l, value'[l])
    BY DEF WorkInv, BrightnessCmd, Cmd
  <1>1. ASSUME pc'[l] = pc[l], cmd'[l] = cmd[l], value'[l] = value[l], pending'[l] = pending[l]
        PROVE  cmd'[l] = BrightnessCmd(l, value'[l])
    BY <1>1 DEF WorkInv
  <1>2. l \in Procs
    BY ConstantFacts
  <1>3. ASSUME NEW p \in Procs, Protocol(p) PROVE cmd'[l] = BrightnessCmd(l, value'[l])
    <2>1. /\ Moves(p, {"idle", "ack", "commit", "times"}) /\ UNCHANGED <<value, pending>>
          /\ pc[p] # "idle"
      BY <1>3, ProtocolFrame
    <2>2. pc'[p] = "idle" \/ cmd'[p] = cmd[p]
      BY <1>3 DEF Protocol, Lock, Ack, Nak, Commit, CommitTimes, Return, Goto, TypeOK
    <2> QED
      BY <1>2, <2>1, <2>2 DEF Moves, WorkInv
  <1>4. ASSUME NEW k \in Leds, McuWork(k) PROVE cmd'[l] = BrightnessCmd(l, value'[l])
    <2>1. Moves(k, {"idle", "lock"}) /\ pc[k] = "idle" /\ UNCHANGED value
      BY <1>4, WorkFrame DEF McuWork
    <2>2. CASE l = k
      <3>1. Request(l, BrightnessCmd(l, value[l])) /\ ~Return(l)
        BY <1>2, <1>4, <2>1, <2>2 DEF McuWork, procVars, Return, Goto, TypeOK
      <3> QED
        BY <1>2, <2>1, <3>1 DEF Request, TypeOK
    <2>3. CASE l # k
      <3>1. pending'[l] = pending[l]
        BY <1>4, <2>3 DEF McuWork, TypeOK
      <3> QED
        BY <1>1, <1>2, <2>1, <2>3, <3>1 DEF Moves
    <2> QED
      BY <2>2, <2>3
  <1>5. ASSUME NEW p \in Callers, SystemCall(p) PROVE cmd'[l] = BrightnessCmd(l, value'[l])
    <2>1. pc'[l] = pc[l] /\ cmd'[l] = cmd[l]
      BY <1>2, <1>5, SystemCallFrame, LedAssumption DEF Moves
    <2>2. pending'[l] = pending[l] /\ value'[l] = value[l]
      BY <1>5, SystemCallAsks DEF TypeOK
    <2> QED
      BY <1>1, <2>1, <2>2
  <1>6. CASE ProbeRemove
    <2>1. UNCHANGED <<pc, cmd>>
      BY <1>6, ProbeFrame
    <2>2. UNCHANGED value /\ (pending'[l] = pending[l] \/ pc[l] = "idle")
      BY <1>6 DEF ProbeRemove, ProbeStart, InitLedsStats, InitLeds, InitBrightness, InitOnOff,
                  ProbeWrite, RemoveStart, CancelWork, Unregister, userVars, TypeOK
    <2> QED
      BY <1>1, <2>1, <2>2
  <1>7. CASE UNCHANGED vars
    BY <1>1, <1>7 DEF vars
  <1> QED
    BY <1>3, <1>4, <1>5, <1>6, <1>7 DEF Next

LEMMA StoppedStep ==
  ASSUME TypeOK, Stopped, [Next]_vars
  PROVE  Stopped'
  <1>1. ASSUME UNCHANGED <<drv, stopping>> PROVE Stopped'
    BY <1>1 DEF Stopped
  <1>2. ASSUME NEW p \in Procs, Protocol(p) PROVE Stopped'
    BY <1>1, <1>2, ProtocolFrame
  <1>3. ASSUME NEW l \in Leds, McuWork(l) PROVE Stopped'
    BY <1>1, <1>3, WorkFrame
  <1>4. ASSUME NEW p \in Callers, SystemCall(p) PROVE Stopped'
    BY <1>1, <1>4, SystemCallFrame
  <1>5. CASE ProbeRemove
    <2>1. CASE ProbeStart \/ RemoveStart
      BY <2>1 DEF ProbeStart, RemoveStart, Stopped
    <2>2. CASE CancelWork \/ Unregister
      BY <2>2 DEF CancelWork, Unregister, Stopped
    <2>3. CASE \/ InitLedsStats \/ InitBrightness \/ InitOnOff
               \/ \E failed \in BOOLEAN : InitLeds(failed)
      BY <2>3 DEF InitLedsStats, InitBrightness, InitOnOff, InitLeds, ProbeWrite, Stopped
    <2> QED
      BY <1>5, <2>1, <2>2, <2>3 DEF ProbeRemove
  <1>6. CASE UNCHANGED vars
    BY <1>1, <1>6 DEF vars
  <1> QED
    BY <1>2, <1>3, <1>4, <1>5, <1>6 DEF Next

\* A thread that moves outside the protocol settles nothing.
LEMMA QuietSettled ==
  ASSUME TypeOK, NEW p \in Procs, NEW s, Moves(p, s),
         pc[p] \notin {"ack", "commit", "times"}, pc'[p] \notin {"ack", "commit", "times"},
         UNCHANGED owner
  PROVE  UNCHANGED Settled
  <1>1. ASSUME NEW l \in Leds, NEW r \in Regs PROVE SettledOn(l, r)' = SettledOn(l, r)
    <2>1. owner[l][r] \in Procs \cup {NoOne}
      BY DEF TypeOK
    <2>2. owner[l][r] \in Procs => (InFlight(owner[l][r], l, r)' <=> InFlight(owner[l][r], l, r))
      BY DEF Moves, InFlight
    <2> QED
      BY <2>1, <2>2 DEF SettledOn
  <1>2. \A l \in Leds, r \in Regs : Settled'[l][r] = Settled[l][r]
    BY <1>1, Entries
  <1> QED
    BY <1>2, Tables, TablesNext, SameTable

LEMMA ProtocolElsewhere ==
  ASSUME TypeOK, CmdOK, NEW p \in Procs, Protocol(p), NEW l \in Leds, NEW r \in Regs,
         l # cmd[p].led \/ r # RegOf(cmd[p].op)
  PROVE  /\ Shown'[l][r] = Shown[l][r] /\ Known'[l][r] = Known[l][r]
         /\ Settled'[l][r] = Settled[l][r]
  <1>1. owner'[l][r] = owner[l][r] /\ SameReg(mcu[l], mcu'[l], cache[l], cache'[l], r)
    BY ProtocolRegs
  <1>2. ASSUME NEW o \in Procs PROVE InFlight(o, l, r)' <=> InFlight(o, l, r)
    <2>1. CASE o = p
      <3>1. pc'[p] = "idle" \/ cmd'[p] = cmd[p]
        BY DEF Protocol, Lock, Ack, Nak, Commit, CommitTimes, Return, Goto, TypeOK
      <3> QED
        BY <2>1, <3>1 DEF InFlight
    <2>2. CASE o # p
      BY <2>2, ProtocolFrame DEF Moves, InFlight
    <2> QED
      BY <2>1, <2>2
  <1>3. owner[l][r] \in Procs \cup {NoOne}
    BY DEF TypeOK
  <1>4. SettledOn(l, r)' = SettledOn(l, r)
    BY <1>1, <1>2, <1>3 DEF SettledOn
  <1> QED
    BY <1>1, <1>4, Entries, SameRegReads

\* A step of the protocol is a step of LedRegisters on one register.
LEMMA ProtocolCommand ==
  ASSUME TypeOK, CmdOK, OwnedOK', NEW p \in Procs, Protocol(p),
         NEW l, NEW r, l = cmd[p].led, r = RegOf(cmd[p].op)
  PROVE  \/ Registers!Send(l, r) \/ Registers!Suppose(l, r) \/ Registers!Settle(l, r)
         \/ UNCHANGED <<Shown, Known, Settled>>
  <1>1. l \in Leds /\ r \in Regs /\ p # NoOne
    BY RegOfType, LedAssumption DEF TypeOK, Command
  <1>2. /\ Shown' = [Shown EXCEPT ![l][r] = Shown'[l][r]]
        /\ Known' = [Known EXCEPT ![l][r] = Known'[l][r]]
        /\ Settled' = [Settled EXCEPT ![l][r] = Settled'[l][r]]
    <2>1. \A k \in Leds, q \in Regs : k # l \/ q # r =>
            /\ Shown'[k][q] = Shown[k][q] /\ Known'[k][q] = Known[k][q]
            /\ Settled'[k][q] = Settled[k][q]
      BY ProtocolElsewhere
    <2>2. DifferAt(Shown, Shown', l, r)
      BY <1>1, <2>1, Tables, TablesNext, OneEntry
    <2>3. DifferAt(Known, Known', l, r)
      BY <1>1, <2>1, Tables, TablesNext, OneEntry
    <2>4. DifferAt(Settled, Settled', l, r)
      BY <1>1, <2>1, Tables, TablesNext, OneEntry
    <2> QED
      BY <2>2, <2>3, <2>4 DEF DifferAt, PutAt
  <1>3. UNCHANGED mcu => UNCHANGED Shown
    BY DEF Shown
  <1>4. UNCHANGED cache => UNCHANGED Known
    BY DEF Known
  <1> DEFINE Unsettled == \/ owner'[l][r] = NoOne
                          \/ /\ owner'[l][r] = p /\ cmd'[p] = cmd[p]
                             /\ pc'[p] \in {"ack", "commit", "times"}
  <1>5. Unsettled => Settled'[l][r] = NoOne
    BY <1>1, Entries DEF SettledOn, InFlight
  <1>6. ASSUME UNCHANGED cache, Unsettled PROVE Registers!Send(l, r)
    BY <1>2, <1>4, <1>5, <1>6 DEF Registers!Send, Registers!OnlyAt
  <1>7. ASSUME UNCHANGED mcu, Unsettled PROVE Registers!Suppose(l, r)
    BY <1>2, <1>3, <1>5, <1>7 DEF Registers!Suppose, Registers!OnlyAt
  <1>8. ASSUME UNCHANGED mcu, owner[l][r] = p, owner'[l][r] = p, InFlight(p, l, r), pc'[p] = "idle"
        PROVE  Registers!Settle(l, r)
    <2>1. Settled[l][r] = NoOne
      BY <1>1, <1>8, Entries DEF SettledOn
    <2>2. Settled'[l][r] = p /\ Agree(mcu'[l], cache'[l], r)
      <3>1. ~InFlight(p, l, r)'
        BY <1>8 DEF InFlight
      <3>2. Standing(l, r, p)'
        BY <1>1, <1>8 DEF OwnedOK
      <3>3. Agree(mcu'[l], cache'[l], r)
        BY <3>1, <3>2 DEF Standing
      <3> QED
        BY <1>1, <1>8, <3>1, <3>3, Entries DEF SettledOn
    <2>3. Known'[l][r] = Shown[l][r]
      BY <1>1, <1>8, <2>2, AgreeReads, Entries
    <2>4. p = l => l \in Due
      BY <1>1, <1>8 DEF InFlight, Due
    <2> QED
      BY <1>2, <1>3, <1>8, <2>1, <2>2, <2>3, <2>4 DEF Registers!Settle, Registers!OnlyAt
  <1>9. /\ Return(p) => pc'[p] = "idle"
        /\ \A s : Goto(p, s) => pc'[p] = s
    BY DEF Return, Goto, TypeOK
  <1>10. ASSUME NEW a \in BOOLEAN, Send(p, cmd[p], a) PROVE owner'[l][r] = p
    BY <1>1, <1>10 DEF Send, TypeOK
  <1>11. ASSUME Return(p), UNCHANGED mcu, InFlight(p, l, r),
                owner'[l][r] = NoOne \/ (owner'[l][r] = p /\ owner[l][r] = p)
         PROVE  Registers!Suppose(l, r) \/ Registers!Settle(l, r)
    BY <1>7, <1>8, <1>9, <1>11
  <1>12. CASE Lock(p)
    <2>1. CASE Return(p) /\ UNCHANGED <<mcu, owner>>
      BY <1>3, <1>4, <1>9, <1>12, <2>1, ProtocolFrame, QuietSettled DEF Lock
    <2>2. CASE (\E a \in BOOLEAN : Send(p, cmd[p], a)) /\ Goto(p, "ack") /\ UNCHANGED cmd
      BY <1>6, <1>9, <1>10, <1>12, <2>2 DEF Lock
    <2> QED
      BY <1>12, <2>1, <2>2 DEF Lock
  <1>13. CASE Ack(p)
    <2>1. owner'[l][r] = NoOne \/ (owner'[l][r] = p /\ owner[l][r] = p)
      BY <1>1, <1>13 DEF Ack, Disown, TypeOK
    <2>2. InFlight(p, l, r)
      BY <1>13 DEF Ack, InFlight
    <2> QED
      BY <1>6, <1>9, <1>11, <1>13, <2>1, <2>2 DEF Ack
  <1>14. CASE Nak(p)
    <2>1. CASE (\E a \in BOOLEAN : Send(p, cmd[p], a)) /\ UNCHANGED <<pc, cmd>>
      BY <1>6, <1>10, <1>14, <2>1 DEF Nak
    <2>2. CASE owner' = [owner EXCEPT ![l][r] = NoOne]
      <3>1. owner'[l][r] = NoOne
        BY <1>1, <2>2 DEF TypeOK
      <3> QED
        BY <1>6, <1>14, <3>1 DEF Nak
    <2> QED
      BY <1>14, <2>1, <2>2 DEF Nak
  <1>15. CASE Commit(p)
    <2>1. owner'[l][r] = NoOne \/ (owner'[l][r] = p /\ owner[l][r] = p)
      BY <1>1, <1>15 DEF Commit, TypeOK
    <2>2. InFlight(p, l, r)
      BY <1>15 DEF Commit, InFlight
    <2> QED
      BY <1>7, <1>9, <1>11, <1>15, <2>1, <2>2 DEF Commit
  <1>16. CASE CommitTimes(p)
    <2>1. r = "run"
      BY <1>16 DEF CommitTimes, CmdOK, RegOf
    <2>2. owner'[l][r] = NoOne \/ (owner'[l][r] = p /\ owner[l][r] = p)
      BY <1>1, <1>16, <2>1 DEF CommitTimes, TypeOK
    <2>3. InFlight(p, l, r)
      BY <1>16 DEF CommitTimes, InFlight
    <2> QED
      BY <1>11, <1>16, <2>2, <2>3 DEF CommitTimes
  <1> QED
    BY <1>12, <1>13, <1>14, <1>15, <1>16 DEF Protocol

\* What an LED's work leaves in a register that it has settled, once the
\* cache holds the brightness that was asked for.
LEMMA CachedIsMet ==
  ASSUME TypeOK', OwnedOK', NEW l \in Leds, NEW b \in 0 .. 255, NEW r,
         value'[l] = b, r = Want(b).reg,
         owner'[l][r] = l => Cached(cache'[l], BrightnessCmd(l, b))
  PROVE  Registers!Met(l)'
  <1>1. cache'[l] \in LedState /\ r \in Regs
    BY DEF TypeOK, Want, Regs
  <1>2. Asked'[l] = Want(b)
    BY DEF Asked
  <1>3. SUFFICES ASSUME Settled'[l][r] = l PROVE Shown'[l][r] = Want(b).val
    BY <1>2 DEF Registers!Met
  <1>4. l # NoOne
    BY ConstantFacts, LedAssumption
  <1>5. owner'[l][r] = l /\ ~InFlight(l, l, r)'
    <2>1. SettledOn(l, r)' = l
      BY <1>1, <1>3, Entries
    <2>2. owner'[l][r] = l
      BY <1>4, <2>1 DEF SettledOn
    <2> QED
      BY <1>4, <2>1, <2>2 DEF SettledOn
  <1>6. Agree(mcu'[l], cache'[l], r)
    <2>1. Standing(l, r, l)'
      BY <1>1, <1>4, <1>5 DEF OwnedOK
    <2> QED
      BY <1>5, <2>1 DEF Standing
  <1>7. KnownIn(cache'[l])[r] = Want(b).val
    BY <1>1, <1>5, WantReads
  <1> QED
    BY <1>1, <1>6, <1>7, AgreeReads, Entries

\* The protocol ends the work of an LED, or changes nothing that is due; and
\* what it ends it has done.
LEMMA ProtocolFinish ==
  ASSUME TypeOK, CmdOK, WorkInv, TypeOK', OwnedOK', NEW p \in Procs, Protocol(p)
  PROVE  \/ UNCHANGED Due
         \/ p \in Leds /\ cmd[p].led = p /\ Registers!Finish(p)
  <1>1. /\ Moves(p, {"idle", "ack", "commit", "times"}) /\ pc[p] # "idle"
        /\ UNCHANGED <<value, pending>>
    BY ProtocolFrame
  <1>2. CASE p \notin Leds \/ pending[p] \/ pc'[p] # "idle"
    BY <1>1, <1>2, ConstantFacts DEF Due, Moves
  <1>3. CASE p \in Leds /\ ~pending[p] /\ pc'[p] = "idle"
    <2>1. PICK b \in 0 .. 255 : b = value[p]
      BY <1>3 DEF TypeOK
    <2>2. PICK c, r : c = cmd[p] /\ r = RegOf(c.op)
      OBVIOUS
    <2>3. c = BrightnessCmd(p, b) /\ cache[p] \in LedState /\ p # NoOne
      BY <1>1, <1>3, <2>1, <2>2, LedAssumption DEF WorkInv, TypeOK
    <2>4. /\ c.led = p /\ r = Want(b).reg /\ r \in Regs
          /\ c.op \in {"OP_ONOFF", "OP_BRIGHTNESS"} /\ Cached(Remember(cache[p], c), c)
      <3>1. /\ c.led = p /\ c \in Command /\ RegOf(c.op) = Want(b).reg
            /\ c.op \in {"OP_ONOFF", "OP_BRIGHTNESS"}
        BY <1>3, <2>3, WantCommand
      <3>2. RegOf(c.op) \in Regs
        BY <3>1, RegOfType DEF Command
      <3> QED
        BY <2>2, <2>3, <3>1, <3>2, RememberCached
    <2>5. p \in Due /\ Due' = Due \ {p}
      BY <1>1, <1>3, ConstantFacts DEF Due, Moves
    <2>6. ASSUME owner'[p][r] = p PROVE Cached(cache'[p], c)
      <3>1. \A s : Goto(p, s) => s = "idle"
        BY <1>3 DEF Goto, TypeOK
      <3>2. CASE Lock(p)
        BY <2>2, <2>4, <3>1, <3>2 DEF Lock
      <3>3. CASE Ack(p)
        <4>1. cache' = [cache EXCEPT ![p] = Remember(@, c)]
          BY <2>2, <2>4, <3>1, <3>3 DEF Ack
        <4>2. cache'[p] = Remember(cache[p], c)
          BY <1>3, <4>1 DEF TypeOK
        <4> QED
          BY <2>4, <4>2
      <3>4. CASE Nak(p)
        <4>1. owner' = [owner EXCEPT ![p][r] = NoOne]
          BY <1>1, <1>3, <2>2, <2>4, <3>4 DEF Nak
        <4> QED
          BY <1>3, <2>3, <2>4, <2>6, <4>1 DEF TypeOK
      <3>5. CASE Commit(p)
        <4>1. cache'[p] = Remember(cache[p], c)
          BY <1>3, <2>2, <2>4, <3>5 DEF Commit, TypeOK
        <4> QED
          BY <2>4, <4>1
      <3>6. CASE CommitTimes(p)
        BY <2>2, <2>4, <3>6 DEF CommitTimes, CmdOK
      <3> QED
        BY <3>2, <3>3, <3>4, <3>5, <3>6 DEF Protocol
    <2>7. Registers!Met(p)'
      BY <1>1, <1>3, <2>1, <2>3, <2>4, <2>6, CachedIsMet
    <2> QED
      BY <1>3, <2>2, <2>4, <2>5, <2>7 DEF Registers!Finish
  <1> QED
    BY <1>2, <1>3

LEMMA ProtocolServes ==
  ASSUME TypeOK, CmdOK, WorkInv, TypeOK', OwnedOK', NEW p \in Procs, Protocol(p)
  PROVE  Registers!RegNext \/ UNCHANGED Registers!regVars
  <1>1. PICK l \in Leds, r \in Regs : l = cmd[p].led /\ r = RegOf(cmd[p].op)
    BY RegOfType DEF TypeOK, Command
  <1>2. UNCHANGED <<Asked, Serving>>
    BY ProtocolFrame DEF Asked, Serving
  <1>3. Registers!Command(l) \/ UNCHANGED <<Shown, Known, Settled>>
    BY <1>1, ProtocolCommand DEF Registers!Command
  <1>4. UNCHANGED Due \/ Registers!Finish(l)
    <2>1. CASE UNCHANGED Due
      BY <2>1
    <2>2. CASE p \in Leds /\ cmd[p].led = p /\ Registers!Finish(p)
      BY <1>1, <2>2
    <2> QED
      BY <2>1, <2>2, ProtocolFinish
  <1>5. Registers!Serve(l)
    BY <1>2, <1>3, <1>4 DEF Registers!Serve
  <1> QED
    BY <1>1, <1>5 DEF Registers!RegNext

\* A work item that starts finds nothing to do, or a driver that goes, or it
\* goes on.
LEMMA WorkServes ==
  ASSUME TypeOK, Stopped, TypeOK', OwnedOK', NEW l \in Leds, McuWork(l)
  PROVE  Registers!RegNext \/ UNCHANGED Registers!regVars
  <1>1. /\ l \in Procs /\ pc[l] = "idle" /\ Moves(l, {"idle", "lock"})
        /\ UNCHANGED <<drv, mcu, cache, owner, value>>
    BY WorkFrame, ConstantFacts DEF McuWork
  <1>2. UNCHANGED <<Shown, Known, Settled, Asked, Serving>>
    <2>1. UNCHANGED Settled
      BY <1>1, QuietSettled DEF Moves
    <2> QED
      BY <1>1, <2>1 DEF Shown, Known, Asked, Serving
  <1>3. CASE pc'[l] # "idle"
    <2>1. UNCHANGED Due
      BY <1>1, <1>3, ConstantFacts DEF Due, Moves, McuWork, TypeOK
    <2> QED
      BY <1>2, <2>1 DEF Registers!regVars
  <1>4. CASE pc'[l] = "idle"
    <2>1. l \in Due /\ Due' = Due \ {l}
      BY <1>1, <1>4, ConstantFacts DEF Due, Moves, McuWork, TypeOK
    <2>2. CASE stopping
      <3>1. ~Serving
        BY <2>2 DEF Stopped, Serving
      <3>2. Registers!Finish(l)
        BY <1>2, <2>1, <3>1 DEF Registers!Finish
      <3> QED
        BY <1>2, <3>2 DEF Registers!RegNext, Registers!Serve
    <2>3. CASE ~stopping
      <3>1. PICK b \in 0 .. 255 : b = value[l]
        BY DEF TypeOK
      <3>2. PICK r : r = Want(b).reg
        OBVIOUS
      <3>3. BrightnessCmd(l, b).led = l
        BY WantCommand
      <3>4. Cached(cache[l], BrightnessCmd(l, b))
        BY <1>1, <1>4, <2>3, <3>1, <3>3 DEF McuWork, Request, Goto, TypeOK
      <3>5. Registers!Met(l)'
        BY <1>1, <3>1, <3>2, <3>4, CachedIsMet
      <3>6. Registers!Finish(l)
        BY <2>1, <3>5 DEF Registers!Finish
      <3> QED
        BY <1>2, <3>6 DEF Registers!RegNext, Registers!Serve
    <2> QED
      BY <2>2, <2>3
  <1> QED
    BY <1>3, <1>4

\* A system call asks for a brightness or changes nothing of it.
LEMMA SystemCallServes ==
  ASSUME TypeOK, StoredOK, NEW p \in Callers, SystemCall(p)
  PROVE  Registers!RegNext \/ UNCHANGED Registers!regVars
  <1>1. /\ p \in Procs /\ p \notin Leds /\ pc[p] \in Outside /\ Moves(p, Outside \cup {"lock"})
        /\ UNCHANGED <<drv, mcu, cache, owner>>
    BY SystemCallFrame, ConstantFacts, LedAssumption
  <1>2. UNCHANGED <<Shown, Known, Settled, Serving>>
    <2>1. UNCHANGED Settled
      BY <1>1, QuietSettled DEF Moves, Outside
    <2> QED
      BY <1>1, <2>1 DEF Shown, Known, Serving
  <1>3. \A l \in Leds : pc'[l] = pc[l]
    BY <1>1, ConstantFacts DEF Moves
  <1>4. CASE UNCHANGED <<value, pending>>
    BY <1>2, <1>3, <1>4 DEF Registers!regVars, Asked, Due
  <1>5. ASSUME NEW l \in Leds, NEW b \in 0 .. 255,
               value' = [value EXCEPT ![l] = b], pending' = [pending EXCEPT ![l] = TRUE]
        PROVE  Registers!Ask(l)
    <2>1. Due' = Due \cup {l}
      BY <1>3, <1>5 DEF Due, TypeOK
    <2>2. Asked'[l] = Want(b) /\ Asked' = [Asked EXCEPT ![l] = Asked'[l]]
      BY <1>5 DEF Asked, TypeOK
    <2> QED
      BY <1>2, <2>1, <2>2 DEF Registers!Ask
  <1> QED
    BY <1>4, <1>5, SystemCallAsks DEF Registers!RegNext

\* The unlocked writes of probe are commands of nobody.
LEMMA ProbeWriteSends ==
  ASSUME TypeOK, NEW c \in Command, ProbeWrite(c), NEW l, NEW r, l = c.led, r = RegOf(c.op)
  PROVE  l \in Leds /\ r \in Regs /\ Registers!Send(l, r)
  <1>1. l \in Leds /\ r \in Regs
    BY RegOfType DEF Command
  <1>2. UNCHANGED <<pc, cmd, cache>>
    BY DEF ProbeWrite, procVars
  <1>3. owner' = [owner EXCEPT ![l][r] = NoOne]
    BY DEF ProbeWrite
  <1>4. ASSUME NEW k \in Leds, NEW q \in Regs, k # l \/ q # r
        PROVE  Shown'[k][q] = Shown[k][q] /\ Settled'[k][q] = Settled[k][q]
    <2>1. owner'[k][q] = owner[k][q]
      BY <1>1, <1>3, <1>4 DEF TypeOK
    <2>2. SettledOn(k, q)' = SettledOn(k, q)
      BY <1>2, <2>1 DEF SettledOn, InFlight
    <2>3. mcu[k] \in McuState /\ cache[k] \in LedState
      BY DEF TypeOK
    <2>4. mcu'[k] = mcu[k] \/ (k = l /\ mcu'[k] = Execute(mcu[k], c))
      BY <1>1 DEF ProbeWrite, TypeOK
    <2>5. SameReg(mcu[k], mcu'[k], cache[k], cache[k], q)
      BY <1>4, <2>3, <2>4, ExecuteReg, SameRegRefl
    <2> QED
      BY <2>2, <2>5, Entries, SameRegReads
  <1>5. DifferAt(Shown, Shown', l, r) /\ DifferAt(Settled, Settled', l, r)
    <2>1. DifferAt(Shown, Shown', l, r)
      BY <1>1, <1>4, Tables, TablesNext, OneEntry
    <2>2. DifferAt(Settled, Settled', l, r)
      BY <1>1, <1>4, Tables, TablesNext, OneEntry
    <2> QED
      BY <2>1, <2>2
  <1>6. Settled'[l][r] = NoOne
    <2>1. owner'[l][r] = NoOne
      BY <1>1, <1>3 DEF TypeOK
    <2> QED
      BY <1>1, <2>1, Entries DEF SettledOn
  <1>7. UNCHANGED Known
    BY <1>2 DEF Known
  <1> QED
    BY <1>1, <1>5, <1>6, <1>7 DEF Registers!Send, Registers!OnlyAt, DifferAt, PutAt

LEMMA ProbeServes ==
  ASSUME TypeOK, ProbeRemove
  PROVE  Registers!RegNext \/ UNCHANGED Registers!regVars
  <1> USE DEF procVars, userVars
  <1>1. UNCHANGED <<pc, cmd>> /\ at \in Leds
    BY ProbeFrame DEF TypeOK
  <1>2. UNCHANGED owner => UNCHANGED Settled
    BY <1>1 DEF Settled, SettledOn, InFlight
  <1>3. /\ UNCHANGED mcu => UNCHANGED Shown
        /\ UNCHANGED cache => UNCHANGED Known
        /\ UNCHANGED value => UNCHANGED Asked
        /\ UNCHANGED pending => UNCHANGED Due
    BY <1>1 DEF Shown, Known, Asked, Due
  <1>4. CASE ProbeStart
    <2>1. UNCHANGED Serving
      BY <1>4 DEF ProbeStart, Serving
    <2> QED
      BY <1>2, <1>3, <1>4, <2>1 DEF ProbeStart, Registers!regVars
  <1>5. CASE InitLedsStats
    <2>1. ~Serving /\ Serving' = TRUE
      BY <1>5 DEF InitLedsStats, Serving
    <2>2. Settled' = [l \in Leds |-> [r \in Regs |-> NoOne]]
      BY <1>5 DEF InitLedsStats, Settled, SettledOn
    <2>3. Registers!Open
      BY <1>3, <1>5, <2>1, <2>2 DEF InitLedsStats, Registers!Open
    <2> QED
      BY <2>3 DEF Registers!RegNext
  <1>6. ASSUME NEW failed \in BOOLEAN, InitLeds(failed)
        PROVE  Registers!RegNext \/ UNCHANGED Registers!regVars
    <2>1. UNCHANGED Serving
      BY <1>6 DEF InitLeds, NextLed, Serving
    <2>2. UNCHANGED <<Shown, Asked, Due>>
      BY <1>3, <1>6 DEF InitLeds
    <2>3. CASE UNCHANGED <<cache, owner>>
      BY <1>2, <1>3, <2>1, <2>2, <2>3 DEF Registers!regVars
    <2>4. CASE ~UNCHANGED <<cache, owner>>
      <3>1. PICK l \in Leds : l = at
        BY <1>1
      <3>2. /\ cache' = [cache EXCEPT ![l].run = mcu[l].run,
                            ![l].brightness = mcu[l].brightness,
                            ![l].color = ColorRead(mcu[l].color)]
            /\ owner' = [owner EXCEPT ![l] = [r \in Regs |-> NoOne]]
        BY <1>6, <2>4, <3>1 DEF InitLeds, ReadOk
      <3>3. \A k \in Leds \ {l} : cache'[k] = cache[k] /\ owner'[k] = owner[k]
        BY <3>2 DEF TypeOK
      <3>4. Known' = [Known EXCEPT ![l] = Known'[l]]
        BY <3>3 DEF Known
      <3>5. Settled' = [Settled EXCEPT ![l] = [r \in Regs |-> NoOne]]
        <4>1. \A k \in Leds \ {l}, r \in Regs : SettledOn(k, r)' = SettledOn(k, r)
          BY <1>1, <3>3 DEF SettledOn, InFlight
        <4>2. \A r \in Regs : SettledOn(l, r)' = NoOne
          BY <3>2 DEF SettledOn, TypeOK
        <4> QED
          BY <4>1, <4>2 DEF Settled
      <3>6. Registers!Learn(l)
        BY <2>2, <3>4, <3>5 DEF Registers!Learn
      <3> QED
        BY <2>1, <2>2, <3>6 DEF Registers!RegNext, Registers!Serve, Registers!Command
    <2> QED
      BY <2>3, <2>4
  <1>7. ASSUME NEW c \in Command, ProbeWrite(c), UNCHANGED Serving
        PROVE  Registers!RegNext
    <2>1. PICK l, r : l = c.led /\ r = RegOf(c.op)
      OBVIOUS
    <2>2. l \in Leds /\ r \in Regs /\ Registers!Send(l, r)
      BY <1>7, <2>1, ProbeWriteSends
    <2>3. UNCHANGED <<Asked, Due>>
      BY <1>3, <1>7 DEF ProbeWrite
    <2> QED
      BY <1>7, <2>2, <2>3 DEF Registers!RegNext, Registers!Serve, Registers!Command
  <1>8. cache[at].brightness \in Nat /\ cache[at].run \in Nat
    BY <1>1 DEF TypeOK, LedState
  <1>9. CASE InitBrightness
    <2>1. Cmd(at, "OP_BRIGHTNESS", cache[at].brightness) \in Command
      BY <1>1, <1>8, CmdType DEF Ops
    <2>2. UNCHANGED Serving
      BY <1>9 DEF InitBrightness, Serving
    <2> QED
      BY <1>7, <1>9, <2>1, <2>2 DEF InitBrightness
  <1>10. CASE InitOnOff
    <2>1. Cmd(at, "OP_ONOFF", cache[at].run) \in Command
      BY <1>1, <1>8, CmdType DEF Ops
    <2>2. UNCHANGED Serving
      BY <1>10 DEF InitOnOff, NextLed, Serving
    <2> QED
      BY <1>7, <1>10, <2>1, <2>2 DEF InitOnOff
  <1>11. CASE RemoveStart
    <2>1. Serving' = FALSE
      BY <1>11 DEF RemoveStart, Serving
    <2>2. Registers!Close
      BY <1>2, <1>3, <1>11, <2>1 DEF RemoveStart, Registers!Close
    <2> QED
      BY <2>2 DEF Registers!RegNext
  <1>12. CASE CancelWork
    <2>1. ~Serving /\ UNCHANGED Serving
      BY <1>12 DEF CancelWork, Serving
    <2>2. UNCHANGED <<Shown, Known, Settled, Asked>>
      BY <1>2, <1>3, <1>12 DEF CancelWork
    <2>3. PICK l \in Leds : l = at
      BY <1>1
    <2>4. Due' = Due \ {l}
      BY <1>1, <1>12, <2>3 DEF CancelWork, Due, TypeOK
    <2>5. CASE l \in Due
      <3>1. Registers!Finish(l)
        BY <2>1, <2>4, <2>5 DEF Registers!Finish
      <3> QED
        BY <2>1, <2>2, <3>1 DEF Registers!RegNext, Registers!Serve
    <2>6. CASE l \notin Due
      BY <2>1, <2>2, <2>4, <2>6 DEF Registers!regVars
    <2> QED
      BY <2>5, <2>6
  <1>13. CASE Unregister
    <2>1. UNCHANGED Serving
      BY <1>13 DEF Unregister, Serving
    <2> QED
      BY <1>2, <1>3, <1>13, <2>1 DEF Unregister, Registers!regVars
  <1> QED
    BY <1>4, <1>5, <1>6, <1>9, <1>10, <1>11, <1>12, <1>13 DEF ProbeRemove

LEMMA RegistersInit == Init => Registers!RegInit
  <1> SUFFICES ASSUME Init PROVE Registers!RegInit
    OBVIOUS
  <1>1. Settled = [l \in Leds |-> [r \in Regs |-> NoOne]]
    BY DEF Init, Settled, SettledOn
  <1>2. Due = {}
    BY ConstantFacts DEF Init, Due
  <1>3. Serving = FALSE
    BY DEF Init, Serving
  <1> QED
    BY <1>1, <1>2, <1>3 DEF Registers!RegInit

\* What the refinement rests on.
RefineInv == TypeOK /\ StoredOK /\ CmdOK /\ OwnedOK /\ WorkInv /\ Stopped

LEMMA AlwaysRefine == Spec => []RefineInv
  <1>1. Init => WorkInv /\ Stopped
    BY ConstantFacts DEF Init, WorkInv, Stopped
  <1>2. TypeOK /\ StoredOK /\ WorkInv /\ Stopped /\ [Next]_vars => (WorkInv /\ Stopped)'
    BY WorkStep, StoppedStep
  <1> QED
    BY <1>1, <1>2, TypeCorrect, AlwaysOwned, PTL DEF Spec, RefineInv

LEMMA RegistersStep ==
  RefineInv /\ RefineInv' /\ [Next]_vars => [Registers!RegNext]_(Registers!regVars)
  <1> SUFFICES ASSUME RefineInv, RefineInv', [Next]_vars
               PROVE  Registers!RegNext \/ UNCHANGED Registers!regVars
    OBVIOUS
  <1> USE DEF RefineInv
  <1>1. ASSUME NEW p \in Procs, Protocol(p)
        PROVE  Registers!RegNext \/ UNCHANGED Registers!regVars
    BY <1>1, ProtocolServes
  <1>2. ASSUME NEW l \in Leds, McuWork(l)
        PROVE  Registers!RegNext \/ UNCHANGED Registers!regVars
    BY <1>2, WorkServes
  <1>3. ASSUME NEW p \in Callers, SystemCall(p)
        PROVE  Registers!RegNext \/ UNCHANGED Registers!regVars
    BY <1>3, SystemCallServes
  <1>4. CASE ProbeRemove
    BY <1>4, ProbeServes
  <1>5. CASE UNCHANGED vars
    BY <1>5 DEF vars, Registers!regVars, Shown, Known, Settled, SettledOn, InFlight, Asked,
                Due, Serving
  <1> QED
    BY <1>1, <1>2, <1>3, <1>4, <1>5 DEF Next

\* The driver implements LedRegisters, with any number of LEDs and of writers,
\* triggers, colours and delays included: a settled register changes only by
\* a command, settling makes the cache exact, and no work item ends, or finds
\* nothing to do, with the LED showing another brightness than was asked for
\* last, but where somebody else's command or a failed one intervened.
THEOREM ImplementsLedRegisters == Spec => Implements
  BY AlwaysRefine, RegistersInit, RegistersStep, PTL DEF Spec, Implements, Registers!RegSpec

----------------------------------------------------------------------------
(* LedRegisters keeps its promise.                                         *)

LEMMA PutEntry ==
  ASSUME NEW f, NEW g, NEW v, Table(f), NEW l \in Leds, NEW r \in Regs,
         PutAt(f, g, l, r, v)
  PROVE  \A k \in Leds, q \in Regs : g[k][q] = IF k = l /\ q = r THEN v ELSE f[k][q]
  <1>1. f = [k \in Leds |-> [q \in Regs |-> f[k][q]]]
    BY DEF Table
  <1> QED
    BY <1>1 DEF PutAt

\* A command keeps what is known of the registers that stay settled, and
\* settles a register for the LED's own work only while that is due.
LEMMA CommandEntries ==
  ASSUME NEW l \in Leds, Registers!Command(l), NEW k \in Leds, NEW q \in Regs
  PROVE  /\ \/ Settled'[k][q] = NoOne
            \/ Known'[k][q] = Shown'[k][q]
            \/ /\ Settled'[k][q] = Settled[k][q] /\ Known'[k][q] = Known[k][q]
               /\ Shown'[k][q] = Shown[k][q]
         /\ Settled'[k][q] = k =>
              \/ Settled[k][q] = k /\ Shown'[k][q] = Shown[k][q]
              \/ k = l /\ l \in Due
  <1>1. k # NoOne
    BY ConstantFacts, LedAssumption
  <1>2. Table(Shown) /\ Table(Known) /\ Table(Settled)
    BY Tables
  <1>3. ASSUME NEW r \in Regs, Registers!Send(l, r)
        PROVE  /\ Known'[k][q] = Known[k][q]
               /\ Settled'[k][q] = IF k = l /\ q = r THEN NoOne ELSE Settled[k][q]
               /\ Shown'[k][q] = IF k = l /\ q = r THEN Shown'[l][r] ELSE Shown[k][q]
    <2>1. PutAt(Shown, Shown', l, r, Shown'[l][r]) /\ PutAt(Settled, Settled', l, r, NoOne)
      BY <1>3 DEF Registers!Send, Registers!OnlyAt, PutAt
    <2>2. Shown'[k][q] = IF k = l /\ q = r THEN Shown'[l][r] ELSE Shown[k][q]
      BY <1>2, <2>1, PutEntry
    <2>3. Settled'[k][q] = IF k = l /\ q = r THEN NoOne ELSE Settled[k][q]
      BY <1>2, <2>1, PutEntry
    <2> QED
      BY <1>3, <2>2, <2>3 DEF Registers!Send
  <1>4. ASSUME NEW r \in Regs, Registers!Suppose(l, r)
        PROVE  /\ Shown'[k][q] = Shown[k][q]
               /\ Settled'[k][q] = IF k = l /\ q = r THEN NoOne ELSE Settled[k][q]
               /\ Known'[k][q] = IF k = l /\ q = r THEN Known'[l][r] ELSE Known[k][q]
    <2>1. PutAt(Known, Known', l, r, Known'[l][r]) /\ PutAt(Settled, Settled', l, r, NoOne)
      BY <1>4 DEF Registers!Suppose, Registers!OnlyAt, PutAt
    <2>2. Known'[k][q] = IF k = l /\ q = r THEN Known'[l][r] ELSE Known[k][q]
      BY <1>2, <2>1, PutEntry
    <2>3. Settled'[k][q] = IF k = l /\ q = r THEN NoOne ELSE Settled[k][q]
      BY <1>2, <2>1, PutEntry
    <2> QED
      BY <1>4, <2>2, <2>3 DEF Registers!Suppose
  <1>5. ASSUME NEW r \in Regs, Registers!Settle(l, r)
        PROVE  /\ Shown'[k][q] = Shown[k][q]
               /\ Settled'[k][q] = IF k = l /\ q = r THEN Settled'[l][r] ELSE Settled[k][q]
               /\ Known'[k][q] = IF k = l /\ q = r THEN Shown[l][r] ELSE Known[k][q]
               /\ Settled'[l][r] = l => l \in Due
    <2>1. PutAt(Settled, Settled', l, r, Settled'[l][r]) /\ PutAt(Known, Known', l, r, Shown[l][r])
      BY <1>5 DEF Registers!Settle, Registers!OnlyAt, PutAt
    <2>2. Settled'[k][q] = IF k = l /\ q = r THEN Settled'[l][r] ELSE Settled[k][q]
      BY <1>2, <2>1, PutEntry
    <2>3. Known'[k][q] = IF k = l /\ q = r THEN Shown[l][r] ELSE Known[k][q]
      BY <1>2, <2>1, PutEntry
    <2> QED
      BY <1>5, <2>2, <2>3 DEF Registers!Settle
  <1>6. ASSUME Registers!Learn(l)
        PROVE  /\ Shown'[k][q] = Shown[k][q]
               /\ k = l => Settled'[k][q] = NoOne
               /\ k # l => Settled'[k][q] = Settled[k][q] /\ Known'[k][q] = Known[k][q]
    BY <1>2, <1>6 DEF Registers!Learn, Table
  <1>7. CASE \E r \in Regs : Registers!Send(l, r)
    BY <1>1, <1>3, <1>7
  <1>8. CASE \E r \in Regs : Registers!Suppose(l, r)
    BY <1>1, <1>4, <1>8
  <1>9. CASE \E r \in Regs : Registers!Settle(l, r)
    BY <1>1, <1>5, <1>9
  <1>10. CASE Registers!Learn(l)
    BY <1>1, <1>6, <1>10
  <1> QED
    BY <1>7, <1>8, <1>9, <1>10 DEF Registers!Command

LEMMA PromiseStep ==
  TypeOK /\ Registers!Promise /\ [Registers!RegNext]_(Registers!regVars) => Registers!Promise'
  <1> SUFFICES ASSUME TypeOK, Registers!Promise, Registers!RegNext \/ UNCHANGED Registers!regVars
               PROVE  Registers!Promise'
    OBVIOUS
  <1>1. /\ \A k \in Leds, q \in Regs : Settled[k][q] # NoOne => Known[k][q] = Shown[k][q]
        /\ Serving => \A k \in Leds \ Due : Registers!Met(k)
    BY DEF Registers!Promise
  <1>2. \A k \in Leds : k # NoOne /\ Asked[k].reg \in Regs
    BY ConstantFacts, LedAssumption DEF Asked, Want, Regs
  <1>3. ASSUME UNCHANGED <<Shown, Known, Settled>>
        PROVE  \A k \in Leds, q \in Regs : Settled'[k][q] # NoOne => Known'[k][q] = Shown'[k][q]
    BY <1>1, <1>3
  <1>4. ASSUME NEW k \in Leds, Registers!Met(k), Asked'[k] = Asked[k],
               \A q \in Regs : Settled'[k][q] = k =>
                                 Settled[k][q] = k /\ Shown'[k][q] = Shown[k][q]
        PROVE  Registers!Met(k)'
    BY <1>2, <1>4 DEF Registers!Met
  <1>5. ASSUME NEW l \in Leds, Registers!Serve(l) PROVE Registers!Promise'
    <2>1. UNCHANGED <<Asked, Serving>>
      BY <1>5 DEF Registers!Serve
    <2>2. ASSUME NEW k \in Leds, NEW q \in Regs
          PROVE  /\ Settled'[k][q] # NoOne => Known'[k][q] = Shown'[k][q]
                 /\ Settled'[k][q] = k /\ k \notin Due =>
                      Settled[k][q] = k /\ Shown'[k][q] = Shown[k][q]
      <3>1. CASE UNCHANGED <<Shown, Known, Settled>>
        BY <1>1, <3>1
      <3>2. CASE Registers!Command(l)
        BY <1>1, <3>2, CommandEntries
      <3> QED
        BY <1>5, <3>1, <3>2 DEF Registers!Serve
    <2>3. ASSUME Serving', NEW k \in Leds \ Due' PROVE Registers!Met(k)'
      <3>1. CASE k \notin Due
        BY <1>1, <1>4, <2>1, <2>2, <2>3, <3>1
      <3>2. CASE k \in Due
        <4>1. k = l /\ Registers!Finish(k)
          BY <1>5, <2>3, <3>2 DEF Registers!Serve, Registers!Finish
        <4> QED
          BY <2>1, <2>3, <4>1 DEF Registers!Finish
      <3> QED
        BY <3>1, <3>2
    <2> QED
      BY <2>2, <2>3 DEF Registers!Promise
  <1>6. ASSUME NEW l \in Leds, Registers!Ask(l) PROVE Registers!Promise'
    <2>1. ASSUME Serving', NEW k \in Leds \ Due' PROVE Registers!Met(k)'
      <3>1. k # l /\ k \notin Due /\ Serving /\ Asked'[k] = Asked[k]
        BY <1>6, <2>1 DEF Registers!Ask, Asked
      <3>2. UNCHANGED <<Shown, Settled>>
        BY <1>6 DEF Registers!Ask
      <3> QED
        BY <1>1, <1>4, <3>1, <3>2
    <2>2. UNCHANGED <<Shown, Known, Settled>>
      BY <1>6 DEF Registers!Ask
    <2> QED
      BY <1>3, <2>1, <2>2 DEF Registers!Promise
  <1>7. CASE Registers!Open
    <2>1. \A k \in Leds, q \in Regs : Settled'[k][q] = NoOne
      BY <1>7 DEF Registers!Open
    <2>2. UNCHANGED Asked
      BY <1>7 DEF Registers!Open
    <2>3. \A k \in Leds : Registers!Met(k)'
      BY <1>2, <2>1, <2>2 DEF Registers!Met
    <2> QED
      BY <2>1, <2>3 DEF Registers!Promise
  <1>8. CASE Registers!Close
    BY <1>3, <1>8 DEF Registers!Close, Registers!Promise
  <1>9. CASE UNCHANGED Registers!regVars
    BY <1>9 DEF Registers!regVars, Registers!Promise, Registers!Met
  <1> QED
    BY <1>5, <1>6, <1>7, <1>8, <1>9 DEF Registers!RegNext

\* What LedRegisters promises holds of the driver: the cache shows what the
\* controller shows wherever a command is settled, and an LED whose work item
\* is neither queued nor running shows the brightness asked for last if the
\* command settled on that register is still the work item's own.
THEOREM PromiseKept == Spec => []Registers!Promise
  <1>1. Init => Registers!Promise
    <2> SUFFICES ASSUME Registers!RegInit PROVE Registers!Promise
      BY RegistersInit
    <2> QED
      BY DEF Registers!RegInit, Registers!Promise
  <1> QED
    BY <1>1, TypeCorrect, ImplementsLedRegisters, PromiseStep, PTL
       DEF Spec, Implements, Registers!RegSpec

----------------------------------------------------------------------------
(* Nobody waits for good.                                                  *)

\* A bad acknowledge is noticed while there is a try left; led_access is held
\* by a call that is under way on that LED.
AckGoes == \A p \in Procs : pc[p] = "ack" => tries[p] > 0 /\ (bus.ok \/ MayFail(tries[p]))
AccessHeld ==
  \A l \in Leds : access[l] # NoOne => pc[access[l]] # "idle" /\ cmd[access[l]].led = l

LEMMA AckGoesStep ==
  ASSUME TypeOK, AckIsOwn, LockHeld, AckGoes, [Next]_vars
  PROVE  AckGoes'
  <1> SUFFICES ASSUME NEW q \in Procs, pc'[q] = "ack"
               PROVE  tries'[q] > 0 /\ (bus'.ok \/ MayFail(tries'[q]))
    BY DEF AckGoes, MayFail, RETRIES
  <1>1. ASSUME pc[q] = "ack", tries'[q] = tries[q], UNCHANGED bus
        PROVE  tries'[q] > 0 /\ (bus'.ok \/ MayFail(tries'[q]))
    BY <1>1 DEF AckGoes
  <1>2. ASSUME NEW p \in Procs, Protocol(p)
        PROVE  tries'[q] > 0 /\ (bus'.ok \/ MayFail(tries'[q]))
    <2>1. Moves(p, {"idle", "ack", "commit", "times"})
      BY <1>2, ProtocolFrame
    <2>2. CASE q = p
      <3>1. CASE Lock(p)
        <4>1. ~Return(p)
          BY <2>2 DEF Return, Goto, TypeOK
        <4>2. /\ \E a \in BOOLEAN : (a \/ MayFail(RETRIES)) /\ bus' = [by |-> p, ok |-> a]
              /\ tries' = [tries EXCEPT ![p] = RETRIES]
          BY <3>1, <4>1 DEF Lock, Send
        <4> QED
          BY <2>2, <4>2 DEF TypeOK, RETRIES
      <3>2. CASE Nak(p)
        <4>1. ~Return(p)
          BY <2>2 DEF Return, Goto, TypeOK
        <4>2. /\ \E a \in BOOLEAN : (a \/ MayFail(tries[p] - 1)) /\ bus' = [by |-> p, ok |-> a]
              /\ tries[p] > 1 /\ tries' = [tries EXCEPT ![p] = @ - 1]
          BY <3>2, <4>1 DEF Nak, Send
        <4>3. tries'[p] = tries[p] - 1 /\ tries[p] \in 0 .. RETRIES
          BY <4>2 DEF TypeOK
        <4> QED
          BY <2>2, <4>2, <4>3 DEF RETRIES
      <3>3. CASE Ack(p) \/ Commit(p) \/ CommitTimes(p)
        <4>1. Return(p) \/ Goto(p, "commit") \/ Goto(p, "times")
          BY <3>3 DEF Ack, Commit, CommitTimes
        <4> QED
          BY <2>2, <4>1 DEF Return, Goto, TypeOK
      <3> QED
        BY <1>2, <3>1, <3>2, <3>3 DEF Protocol
    <2>3. CASE q # p
      <3>1. pc[q] = "ack" /\ mutex = q
        BY <2>1, <2>3 DEF Moves, AckIsOwn
      <3>2. ~Lock(p) /\ ~Ack(p) /\ ~Nak(p)
        BY <2>3, <3>1, LedAssumption DEF Lock, Ack, Nak, AckIsOwn
      <3>3. UNCHANGED bus /\ tries'[q] = tries[q]
        BY <1>2, <2>3, <3>2 DEF Protocol, Commit, CommitTimes, Return, TypeOK
      <3> QED
        BY <1>1, <3>1, <3>3
    <2> QED
      BY <2>2, <2>3
  <1>3. ASSUME NEW p \in Procs, NEW c, Request(p, c)
        PROVE  pc'[p] # "ack" /\ \A r \in Procs \ {p} : tries'[r] = tries[r]
    BY <1>3 DEF Request, Return, Goto, TypeOK
  <1>4. ASSUME NEW l \in Leds, McuWork(l)
        PROVE  tries'[q] > 0 /\ (bus'.ok \/ MayFail(tries'[q]))
    <2>1. l \in Procs /\ Moves(l, {"idle", "lock"}) /\ UNCHANGED bus
      BY <1>4, WorkFrame, ConstantFacts
    <2>2. q # l /\ pc[q] = "ack"
      BY <2>1 DEF Moves
    <2>3. tries'[q] = tries[q]
      BY <1>3, <1>4, <2>1, <2>2 DEF McuWork, procVars
    <2> QED
      BY <1>1, <2>1, <2>2, <2>3
  <1>5. ASSUME NEW p \in Callers, SystemCall(p)
        PROVE  tries'[q] > 0 /\ (bus'.ok \/ MayFail(tries'[q]))
    <2>1. p \in Procs /\ Moves(p, Outside \cup {"lock"}) /\ UNCHANGED bus
      BY <1>5, SystemCallFrame, ConstantFacts
    <2>2. q # p /\ pc[q] = "ack"
      BY <2>1 DEF Moves, Outside
    <2>3. Return(p) => tries'[q] = tries[q]
      BY <2>2 DEF Return, TypeOK
    <2>4. \A c : Request(p, c) => tries'[q] = tries[q]
      BY <1>3, <2>1, <2>2
    <2>5. \A l, t, d : BlinkSet(p, l, t, d) => tries'[q] = tries[q]
      <3> TAKE l, t, d
      <3>1. CASE t \in {"normal", "timer2", "breath"}
        BY <2>3, <2>4, <3>1 DEF BlinkSet
      <3>2. CASE t \notin {"normal", "timer2", "breath"}
        BY <2>3, <3>2 DEF BlinkSet
      <3> QED
        BY <3>1, <3>2
    <2>6. tries'[q] = tries[q]
      BY <1>5, <2>3, <2>4, <2>5 DEF SystemCall, BrightnessStore, ColorSet, DelayStore,
           TriggerStore, LedsBrightnessSet, Activate, procVars
    <2> QED
      BY <1>1, <2>1, <2>2, <2>6
  <1>6. CASE ProbeRemove
    <2>1. pc[q] = "ack" /\ UNCHANGED tries
      BY <1>6, ProbeFrame
    <2>2. CASE UNCHANGED bus
      BY <1>1, <2>1, <2>2
    <2>3. CASE \E c : ProbeWrite(c)
      <3>1. tries[q] \in 0 .. RETRIES /\ tries[q] > 0
        BY <2>1 DEF TypeOK, AckGoes
      <3>2. bus'.ok \/ MaxNaks = RETRIES
        BY <2>3 DEF ProbeWrite
      <3> QED
        BY <2>1, <3>1, <3>2 DEF MayFail, RETRIES
    <2>4. UNCHANGED bus \/ \E c : ProbeWrite(c)
      BY <1>6 DEF ProbeRemove, ProbeStart, InitLedsStats, InitLeds, InitBrightness, InitOnOff,
                  RemoveStart, CancelWork, Unregister
    <2> QED
      BY <2>2, <2>3, <2>4
  <1>7. CASE UNCHANGED vars
    BY <1>1, <1>7 DEF vars
  <1> QED
    BY <1>2, <1>4, <1>5, <1>6, <1>7 DEF Next

\* A call that returns gives its led_access back; one that goes on keeps it.
LEMMA AccessReturn ==
  ASSUME TypeOK, AccessHeld, NEW p \in Procs, Return(p)
  PROVE  AccessHeld'
  <1>1. Moves(p, {"idle"})
    BY ReturnMoves
  <1>2. p # NoOne
    BY LedAssumption
  <1>3. \A l \in Leds : access'[l] # NoOne => access'[l] = access[l] /\ access[l] # p
    BY <1>2 DEF Return
  <1>4. \A l \in Leds : access[l] \in Procs \cup {NoOne}
    BY ConstantFacts DEF TypeOK
  <1> QED
    BY <1>1, <1>3, <1>4 DEF AccessHeld, Moves

LEMMA AccessGoesOn ==
  ASSUME TypeOK, AccessHeld, NEW p \in Procs, NEW s, Moves(p, s), UNCHANGED access,
         pc[p] = "idle" \/ (pc'[p] # "idle" /\ cmd'[p].led = cmd[p].led)
  PROVE  AccessHeld'
  <1>1. \A l \in Leds : access[l] \in Procs \cup {NoOne}
    BY ConstantFacts DEF TypeOK
  <1> QED
    BY <1>1 DEF AccessHeld, Moves

LEMMA AccessRequest ==
  ASSUME TypeOK, AccessHeld, NEW p \in Procs, NEW c, Request(p, c),
         pc[p] = "idle" \/ c.led = cmd[p].led
  PROVE  AccessHeld'
  <1>1. CASE Return(p)
    BY <1>1, AccessReturn
  <1>2. CASE Goto(p, "lock") /\ cmd' = [cmd EXCEPT ![p] = c] /\ UNCHANGED access
    <2>1. pc'[p] = "lock" /\ cmd'[p] = c
      BY <1>2 DEF Goto, TypeOK
    <2>2. Moves(p, {"idle", "lock"})
      BY RequestMoves
    <2> QED
      BY <1>2, <2>1, <2>2, AccessGoesOn
  <1> QED
    BY <1>1, <1>2 DEF Request

LEMMA AccessBlinkSet ==
  ASSUME TypeOK, AccessHeld, NEW p \in Procs, NEW l, NEW t, NEW d, BlinkSet(p, l, t, d),
         pc[p] = "idle" \/ l = cmd[p].led
  PROVE  AccessHeld'
  <1>1. \A o, v : Request(p, Cmd(l, o, v)) => AccessHeld'
    <2> TAKE o, v
    <2>1. Cmd(l, o, v).led = l
      BY DEF Cmd
    <2> QED
      BY <2>1, AccessRequest
  <1>2. Return(p) => AccessHeld'
    BY AccessReturn
  <1>3. CASE t = "normal"
    BY <1>1, <1>2, <1>3 DEF BlinkSet
  <1>4. CASE t = "timer2"
    BY <1>1, <1>2, <1>4 DEF BlinkSet
  <1>5. CASE t = "breath"
    BY <1>1, <1>2, <1>5 DEF BlinkSet
  <1>6. CASE t \notin {"normal", "timer2", "breath"}
    BY <1>2, <1>6 DEF BlinkSet
  <1> QED
    BY <1>3, <1>4, <1>5, <1>6

LEMMA AccessStep ==
  ASSUME TypeOK, AccessHeld, [Next]_vars
  PROVE  AccessHeld'
  <1>1. ASSUME NEW p \in Procs, Protocol(p) PROVE AccessHeld'
    <2>1. Moves(p, {"idle", "ack", "commit", "times"})
      BY <1>1, ProtocolFrame
    <2>2. Return(p) \/ (UNCHANGED <<cmd, access>> /\ pc'[p] # "idle")
      BY <1>1 DEF Protocol, Lock, Ack, Nak, Commit, CommitTimes, Goto, TypeOK
    <2> QED
      BY <2>1, <2>2, AccessReturn, AccessGoesOn
  <1>2. ASSUME NEW l \in Leds, McuWork(l) PROVE AccessHeld'
    <2>1. l \in Procs /\ pc[l] = "idle"
      BY <1>2, ConstantFacts DEF McuWork
    <2>2. CASE UNCHANGED <<procVars, access>>
      BY <2>2 DEF procVars, AccessHeld
    <2> QED
      BY <1>2, <2>1, <2>2, AccessRequest DEF McuWork
  <1>3. ASSUME NEW p \in Callers, SystemCall(p) PROVE AccessHeld'
    <2>1. p \in Procs
      BY ConstantFacts
    <2>2. ASSUME NEW l \in Leds, pc[p] = "idle", access' = [access EXCEPT ![l] = p],
                 cmd'[p].led = l, pc'[p] # "idle", Moves(p, Outside \cup {"lock"})
          PROVE  AccessHeld'
      <3> SUFFICES ASSUME NEW k \in Leds, access'[k] # NoOne
                   PROVE  pc'[access'[k]] # "idle" /\ cmd'[access'[k]].led = k
        BY DEF AccessHeld
      <3>1. CASE k = l
        BY <2>1, <2>2, <3>1 DEF TypeOK
      <3>2. CASE k # l
        <4>1. access'[k] = access[k] /\ access[k] \in Procs
          BY <2>2, <3>2, ConstantFacts DEF TypeOK
        <4>2. access[k] # p /\ pc[access[k]] # "idle" /\ cmd[access[k]].led = k
          BY <2>2, <4>1 DEF AccessHeld
        <4> QED
          BY <2>2, <4>1, <4>2 DEF Moves
      <3> QED
        BY <3>1, <3>2
    <2>3. Moves(p, Outside \cup {"lock"})
      BY <1>3, SystemCallFrame
    <2>4. \A l, o, v : Cmd(l, o, v).led = l
      BY DEF Cmd
    <2>5. \A s : Goto(p, s) => pc'[p] = s
      BY <2>1 DEF Goto, TypeOK
    <2>6. ASSUME NEW l \in Leds, NEW b \in Brightness, BrightnessStore(p, l, b) PROVE AccessHeld'
      <3>1. cmd'[p] = Cmd(l, "OP_BRIGHTNESS", b) /\ pc'[p] = "store"
        BY <2>1, <2>5, <2>6 DEF BrightnessStore, TypeOK
      <3>2. cmd'[p].led = l
        BY <2>4, <3>1
      <3> QED
        BY <2>2, <2>3, <2>6, <3>1, <3>2 DEF BrightnessStore
    <2>7. ASSUME NEW l \in Leds, NEW s \in ColorRequests, ColorSet(p, l, s) PROVE AccessHeld'
      BY <2>1, <2>7, AccessRequest DEF ColorSet
    <2>8. ASSUME NEW l \in Leds, NEW d \in Delays, DelayStore(p, l, d) PROVE AccessHeld'
      BY <2>1, <2>8, AccessBlinkSet DEF DelayStore
    <2>9. ASSUME NEW l \in Leds, NEW t \in Triggers \cup {"none"}, TriggerStore(p, l, t)
          PROVE  AccessHeld'
      <3>1. CASE UNCHANGED <<procVars, access>>
        BY <3>1 DEF procVars, AccessHeld
      <3>2. CASE /\ access' = [access EXCEPT ![l] = p] /\ Goto(p, "activate")
                 /\ cmd' = [cmd EXCEPT ![p] = Cmd(l, "OP_BLINK", 0)]
        <4>1. cmd'[p] = Cmd(l, "OP_BLINK", 0) /\ pc'[p] = "activate"
          BY <2>1, <2>5, <3>2 DEF TypeOK
        <4>2. cmd'[p].led = l
          BY <2>4, <4>1
        <4> QED
          BY <2>2, <2>3, <2>9, <3>2, <4>1, <4>2 DEF TriggerStore
      <3> QED
        BY <2>9, <3>1, <3>2 DEF TriggerStore
    <2>10. CASE LedsBrightnessSet(p)
      BY <2>1, <2>10, AccessReturn DEF LedsBrightnessSet
    <2>11. CASE Activate(p)
      BY <2>1, <2>11, AccessReturn, AccessBlinkSet DEF Activate
    <2> QED
      BY <1>3, <2>6, <2>7, <2>8, <2>9, <2>10, <2>11 DEF SystemCall
  <1>4. CASE UNCHANGED <<pc, cmd, access>>
    BY <1>4 DEF AccessHeld
  <1> QED
    BY <1>1, <1>2, <1>3, <1>4, ProbeFrame DEF Next, vars

\* The guards of a thread's next step, and of the next step of probe or remove.
ThreadGoes(p) ==
  \/ pc[p] \in {"store", "activate", "commit", "times"}
  \/ pc[p] = "lock" /\ mutex = NoOne
  \/ pc[p] = "ack" /\ (bus.ok \/ MayFail(tries[p]))
ProbeGoes ==
  \/ drv \in {"stats", "bright", "onoff"}
  \/ drv \in {"read", "reread"} /\ mutex = NoOne
  \/ drv = "cancel" /\ pc[at] = "idle"
  \/ drv = "unregister" /\ \A p \in Callers : ~(pc[p] # "idle" /\ cmd[p].led = at)

\* Who has begun goes on, or waits for i2cmutex, whose holder goes on; so does
\* whoever else holds a led_access; and probe and remove wait for these only.
NobodyStuck ==
  /\ \A p \in Procs : pc[p] # "idle" =>
       ThreadGoes(p) \/ (pc[p] = "lock" /\ mutex \in Procs /\ ThreadGoes(mutex))
  /\ \A l \in Leds : access[l] # NoOne => pc[access[l]] # "idle" /\ cmd[access[l]].led = l
  /\ drv \notin {"unbound", "bound"} => ProbeGoes \/ \E p \in Procs : pc[p] # "idle"

\* Nobody waits for good in the driver, with any number of LEDs and of writers,
\* whatever the acknowledges: i2cmutex and led_access are given back on every
\* path, and remove_or_shutdown, cancel_work_sync and led_classdev_unregister
\* wait for nobody who waits for them.  It is the part of CallsReturn and
\* RemoveCompletes that needs no fairness.
THEOREM NobodyWaitsForGood == Spec => []NobodyStuck
  <1>1. Init => AckIsOwn /\ LockHeld /\ AckGoes /\ AccessHeld
    BY LedAssumption, ConstantFacts DEF Init, AckIsOwn, LockHeld, AckGoes, AccessHeld
  <1>2. TypeOK /\ AckIsOwn /\ LockHeld /\ AckGoes /\ AccessHeld /\ [Next]_vars =>
          (AckIsOwn /\ LockHeld /\ AckGoes /\ AccessHeld)'
    BY AckStep, AckGoesStep, AccessStep
  <1>3. TypeOK /\ AckIsOwn /\ LockHeld /\ AckGoes /\ AccessHeld => NobodyStuck
    <2> SUFFICES ASSUME TypeOK, AckIsOwn, LockHeld, AckGoes, AccessHeld PROVE NobodyStuck
      OBVIOUS
    <2>1. mutex # NoOne => mutex \in Procs /\ pc[mutex] = "ack" /\ ThreadGoes(mutex)
      BY DEF TypeOK, LockHeld, AckGoes, ThreadGoes
    <2>2. ASSUME NEW p \in Procs, pc[p] # "idle"
          PROVE  ThreadGoes(p) \/ (pc[p] = "lock" /\ mutex \in Procs /\ ThreadGoes(mutex))
      BY <2>1, <2>2 DEF TypeOK, Steps, AckGoes, ThreadGoes
    <2>3. ASSUME drv \notin {"unbound", "bound"} PROVE ProbeGoes \/ \E p \in Procs : pc[p] # "idle"
      BY <2>1, <2>3, ConstantFacts DEF TypeOK, Phases, ProbeGoes
    <2> QED
      BY <2>2, <2>3 DEF NobodyStuck, AccessHeld
  <1> QED
    BY <1>1, <1>2, <1>3, TypeCorrect, PTL DEF Spec
=============================================================================
