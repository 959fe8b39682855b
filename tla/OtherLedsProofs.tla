-------------------------- MODULE OtherLedsProofs --------------------------
(***************************************************************************)
(* Theorems about IdxLed, for any callers, LEDs, brightnesses and attempts:*)
(* no store waits for another store's acknowledge, and the last brightness *)
(* stored is the last one offered.  Then about N76Led: sequences of        *)
(* registers that do not overlap leave the pins as the colour asks.        *)
(***************************************************************************)
EXTENDS OtherLeds, TLAPS

----------------------------------------------------------------------------
(* IdxLed.                                                                 *)

Steps == {"idle", "schedule", "lock", "write", "ack", "done", "failed"}
Inside == {"write", "ack", "done", "failed"}

\* As much of the types as the invariants need.
Types ==
  /\ pc \in [Agents -> Steps] /\ DOMAIN cmds = Agents
  /\ queued \in [Leds -> BOOLEAN] /\ DOMAIN offered = Leds /\ DOMAIN light = Leds
  /\ led \in [Callers -> Leds]

\* The caller that is inside a transfer has the mutex, and if it waits for an
\* acknowledge no other caller has sent anything since.
MutexHeld ==
  \A c \in Callers : pc[c] \in Inside => mutex = c /\ (pc[c] = "ack" => last \in {c} \cup Leds)

\* Nothing has been stored for l that its work has not taken over.
Settled(l) ==
  /\ phase = "bound" /\ ~queued[l]
  /\ \A c \in Callers : pc[c] = "schedule" => led[c] # l

\* The work sends one command, with the brightness that was stored last.
WorkOf(l) ==
  /\ pc[l] \in {"write", "ack"} => \E v : cmds[l] = <<Cmd("light", v)>>
  /\ pc[l] = "write" /\ Settled(l) => Head(cmds[l]).val = light[l]
  /\ pc[l] # "write" /\ Settled(l) => offered[l] = light[l]

IInv == Types /\ MutexHeld /\ \A l \in Leds : WorkOf(l)

----------------------------------------------------------------------------
LEMMA InvInit == Init => IInv
  <1> SUFFICES ASSUME Init PROVE IInv
    OBVIOUS
  <1>1. Types
    BY DEF Init, InitAt, Types, Steps
  <1>2. MutexHeld
    BY DEF Init, InitAt, MutexHeld, Inside, Agents
  <1>3. \A l \in Leds : WorkOf(l)
    BY DEF Init, InitAt, WorkOf, Agents
  <1> QED
    BY <1>1, <1>2, <1>3 DEF IInv

LEMMA TypesStep == Types /\ [Next]_vars => Types'
  <1> SUFFICES ASSUME Types, [Next]_vars PROVE Types'
    OBVIOUS
  <1> USE DEF Types, Steps, Goto, ForgetCall, Queue, agentVars, Agents
  <1>1. ASSUME NEW c \in Callers, NEW l \in Leds, NEW v, NEW s,
               LedsBrightnessSet(c, l, v) \/ Call(c, l, s)
        PROVE Types'
    BY <1>1 DEF LedsBrightnessSet, Call
  <1>2. ASSUME NEW c \in Callers, Schedule(c) \/ Lock(c) \/ Unlock(c) PROVE Types'
    BY <1>2 DEF Schedule, Lock, Unlock
  <1>3. ASSUME NEW l \in Leds, WorkStart(l) \/ WorkEnd(l) \/ CancelWork(l) \/ TurnOff(l)
        PROVE Types'
    BY <1>3 DEF WorkStart, WorkEnd, CancelWork, TurnOff
  <1>4. ASSUME NEW a \in Agents, Transfer(a) PROVE Types'
    BY <1>4 DEF Transfer, WriteFails, WriteBlock, AckMissing, AckRead, Failed, Offer
  <1>5. CASE RemoveBegin \/ Unregister \/ Free \/ UNCHANGED vars
    BY <1>5 DEF RemoveBegin, Unregister, Free, vars
  <1> QED
    BY <1>1, <1>2, <1>3, <1>4, <1>5 DEF Next, Running

LEMMA MutexStep == Types /\ MutexHeld /\ [Next]_vars => MutexHeld'
  <1> SUFFICES ASSUME Types, MutexHeld, [Next]_vars PROVE MutexHeld'
    OBVIOUS
  <1> USE IdxAssumption DEF Types, MutexHeld, Inside, Goto, ForgetCall, agentVars, Agents
  <1>1. ASSUME NEW c \in Callers, NEW l \in Leds, NEW v, NEW s,
               LedsBrightnessSet(c, l, v) \/ Call(c, l, s)
        PROVE MutexHeld'
    BY <1>1 DEF LedsBrightnessSet, Call
  <1>2. ASSUME NEW c \in Callers, Schedule(c) \/ Lock(c) \/ Unlock(c) PROVE MutexHeld'
    BY <1>2 DEF Schedule, Lock, Unlock
  <1>3. ASSUME NEW l \in Leds, WorkStart(l) \/ WorkEnd(l) \/ CancelWork(l) \/ TurnOff(l)
        PROVE MutexHeld'
    BY <1>3 DEF WorkStart, WorkEnd, CancelWork, TurnOff
  <1>4. ASSUME NEW a \in Agents, Transfer(a) PROVE MutexHeld'
    BY <1>4 DEF Transfer, WriteFails, WriteBlock, AckMissing, AckRead, Failed
  <1>5. CASE RemoveBegin \/ Unregister \/ Free \/ UNCHANGED vars
    BY <1>5 DEF RemoveBegin, Unregister, Free, vars
  <1> QED
    BY <1>1, <1>2, <1>3, <1>4, <1>5 DEF Next, Running

\* A step that is not of the work of l and stores nothing for it.
LEMMA WorkAlone ==
  ASSUME NEW l \in Leds, WorkOf(l),
         pc'[l] = pc[l], cmds'[l] = cmds[l], offered'[l] = offered[l],
         Settled(l)' => Settled(l) /\ light'[l] = light[l]
  PROVE  WorkOf(l)'
BY DEF WorkOf

\* The steps of a transfer by the work of l itself.
LEMMA WorkTransfer ==
  ASSUME Types, NEW l \in Leds, WorkOf(l), Transfer(l)
  PROVE  WorkOf(l)'
  <1> USE DEF Types, Goto, Agents
  <1>1. UNCHANGED light /\ (Settled(l)' <=> Settled(l))
    <2>1. UNCHANGED <<phase, queued, led, light>> /\ \A a \in Agents \ {l} : pc'[a] = pc[a]
      BY DEF Transfer, WriteFails, WriteBlock, AckMissing, AckRead, Failed
    <2>2. pc'[l] # "schedule" /\ pc[l] # "schedule"
      BY DEF Transfer, WriteFails, WriteBlock, AckMissing, AckRead, Failed
    <2> QED
      BY <2>1, <2>2 DEF Settled
  <1>2. PICK v : cmds[l] = <<Cmd("light", v)>>
    BY DEF WorkOf, Transfer, WriteFails, WriteBlock, AckMissing, AckRead
  <1>3. Head(cmds[l]).val = v /\ Len(cmds[l]) = 1
    BY <1>2 DEF Cmd
  <1>4. CASE WriteFails(l) \/ WriteBlock(l)
    <2>1. offered'[l] = v /\ cmds' = cmds /\ pc[l] = "write"
      BY <1>3, <1>4 DEF WriteFails, WriteBlock, Offer
    <2>2. Settled(l) => v = light[l]
      BY <1>3, <2>1 DEF WorkOf
    <2> QED
      BY <1>1, <1>2, <1>3, <2>1, <2>2 DEF WorkOf
  <1>5. CASE AckMissing(l)
    BY <1>1, <1>5 DEF WorkOf, AckMissing, Failed
  <1>6. CASE AckRead(l)
    <2>1. pc'[l] = "done" /\ pc[l] = "ack" /\ offered' = offered
      BY <1>3, <1>6 DEF AckRead
    <2> QED
      BY <1>1, <2>1 DEF WorkOf
  <1> QED
    BY <1>4, <1>5, <1>6 DEF Transfer

LEMMA WorkStep ==
  Types /\ [Next]_vars => \A l \in Leds : WorkOf(l) => WorkOf(l)'
  <1> SUFFICES ASSUME Types, [Next]_vars, NEW l \in Leds, WorkOf(l) PROVE WorkOf(l)'
    OBVIOUS
  <1> USE IdxAssumption DEF Types, Goto, ForgetCall, Queue, agentVars, Agents
  <1>1. ASSUME NEW c \in Callers, NEW k \in Leds, NEW v, LedsBrightnessSet(c, k, v)
        PROVE WorkOf(l)'
    <2>1. pc'[l] = pc[l] /\ UNCHANGED <<cmds, offered>>
      BY <1>1 DEF LedsBrightnessSet
    <2>2. Settled(l)' => Settled(l) /\ light'[l] = light[l]
      BY <1>1 DEF LedsBrightnessSet, Settled
    <2> QED
      BY <2>1, <2>2, WorkAlone
  <1>2. ASSUME NEW c \in Callers, NEW k \in Leds, NEW s, Call(c, k, s) PROVE WorkOf(l)'
    <2>1. pc'[l] = pc[l] /\ cmds'[l] = cmds[l] /\ UNCHANGED offered
      BY <1>2 DEF Call
    <2>2. Settled(l)' => Settled(l) /\ light'[l] = light[l]
      BY <1>2 DEF Call, Settled
    <2> QED
      BY <2>1, <2>2, WorkAlone
  <1>3. ASSUME NEW c \in Callers, Schedule(c) \/ Lock(c) \/ Unlock(c) PROVE WorkOf(l)'
    <2>1. pc'[l] = pc[l] /\ cmds'[l] = cmds[l] /\ UNCHANGED offered
      BY <1>3 DEF Schedule, Lock, Unlock
    <2>2. Settled(l)' => Settled(l) /\ light'[l] = light[l]
      BY <1>3 DEF Schedule, Lock, Unlock, Settled
    <2> QED
      BY <2>1, <2>2, WorkAlone
  <1>4. ASSUME NEW a \in Agents, a # l, Transfer(a) PROVE WorkOf(l)'
    <2>1. pc'[l] = pc[l] /\ cmds'[l] = cmds[l] /\ offered'[l] = offered[l]
      BY <1>4 DEF Transfer, WriteFails, WriteBlock, AckMissing, AckRead, Failed, Offer
    <2>2. Settled(l)' => Settled(l) /\ light'[l] = light[l]
      BY <1>4 DEF Transfer, WriteFails, WriteBlock, AckMissing, AckRead, Failed, Settled
    <2> QED
      BY <2>1, <2>2, WorkAlone
  <1>5. ASSUME NEW k \in Leds, WorkStart(k) PROVE WorkOf(l)'
    <2>1. CASE k = l
      <3>1. cmds'[l] = <<Cmd("light", light[l])>> /\ pc'[l] = "write" /\ UNCHANGED light
        BY <1>5, <2>1 DEF WorkStart
      <3>2. Head(cmds'[l]).val = light'[l]
        BY <3>1 DEF Cmd
      <3> QED
        BY <3>1, <3>2 DEF WorkOf
    <2>2. CASE k # l
      <3>1. pc'[l] = pc[l] /\ cmds'[l] = cmds[l] /\ UNCHANGED offered
        BY <1>5, <2>2 DEF WorkStart
      <3>2. Settled(l)' => Settled(l) /\ light'[l] = light[l]
        BY <1>5, <2>2 DEF WorkStart, Settled
      <3> QED
        BY <3>1, <3>2, WorkAlone
    <2> QED
      BY <2>1, <2>2
  <1>6. ASSUME NEW k \in Leds, WorkEnd(k) PROVE WorkOf(l)'
    <2>1. UNCHANGED <<light, offered>> /\ (Settled(l)' <=> Settled(l))
      BY <1>6 DEF WorkEnd, Settled
    <2>2. pc[l] # "write" \/ (pc'[l] = pc[l] /\ cmds'[l] = cmds[l])
      BY <1>6 DEF WorkEnd
    <2>3. (pc'[l] = pc[l] /\ cmds'[l] = cmds[l]) \/ (pc[l] # "write" /\ pc'[l] = "idle")
      BY <1>6 DEF WorkEnd
    <2> QED
      BY <2>1, <2>2, <2>3 DEF WorkOf
  <1>7. CASE \/ \E k \in Leds : CancelWork(k) \/ TurnOff(k)
             \/ RemoveBegin \/ Unregister \/ Free
    <2>1. UNCHANGED <<pc, cmds, offered>>
      BY <1>7 DEF CancelWork, TurnOff, RemoveBegin, Unregister, Free
    <2>2. phase' # "bound"
      BY <1>7 DEF CancelWork, TurnOff, RemoveBegin, Unregister, Free
    <2> QED
      BY <2>1, <2>2, WorkAlone DEF Settled
  <1>8. CASE UNCHANGED vars
    BY <1>8, WorkAlone DEF vars, Settled
  <1> QED
    BY <1>1, <1>2, <1>3, <1>4, <1>5, <1>6, <1>7, <1>8, WorkTransfer DEF Next, Running

LEMMA Invariant == Spec => []IInv
  <1>1. IInv /\ [Next]_vars => IInv'
    BY TypesStep, MutexStep, WorkStep DEF IInv
  <1> QED
    BY InvInit, <1>1, PTL DEF Spec

----------------------------------------------------------------------------
(* Type correctness: an agent inside a transfer has a command left to send *)
(* and an attempt left to send it.                                         *)

Command == [mode : {"mode", "switch", "light"}, val : 0 .. UNSET]
Some == {<<c>> : c \in Command} \cup {<<c, d>> : c, d \in Command}
Lists == {<<>>} \cup Some

AgentOK(a) ==
  /\ cmds[a] \in Lists /\ tries[a] \in 0 .. Attempts
  /\ pc[a] \in {"write", "ack"} => cmds[a] \in Some /\ tries[a] < Attempts
  /\ pc[a] \in {"idle", "schedule", "lock"} => tries[a] = 0

\* What is of no agent.
Plain ==
  /\ phase \in {"absent", "bound", "cancel", "drain", "freed"}
  /\ mutex \in Callers \cup {Nobody} /\ last \in Agents \cup {Nobody}
  /\ light \in [Leds -> 0 .. UNSET] /\ offered \in [Leds -> 0 .. UNSET]
  /\ cancelled \subseteq Leds /\ removed \subseteq cancelled

TInv ==
  /\ Types /\ Plain /\ tries \in [Agents -> Nat]
  /\ \A a \in Agents : AgentOK(a)

\* A list of one or two commands, its first command and the rest.
LEMMA ListRest ==
  ASSUME NEW s \in Some
  PROVE  /\ Head(s) \in Command /\ Tail(s) \in Lists
         /\ Len(s) > 1 => Tail(s) \in Some
  <1>1. CASE s \in {<<c>> : c \in Command}
    <2>1. PICK c \in Command : s = <<c>>
      BY <1>1
    <2> QED
      BY <2>1 DEF Lists
  <1>2. CASE s \in {<<c, d>> : c, d \in Command}
    <2>1. PICK c \in Command, d \in Command : s = <<c, d>>
      BY <1>2
    <2>2. Head(s) = c /\ Tail(s) = <<d>>
      BY <2>1
    <2>3. <<d>> \in Some
      BY DEF Some
    <2> QED
      BY <2>2, <2>3 DEF Lists
  <1> QED
    BY <1>1, <1>2 DEF Some

LEMMA ListLen == \A s \in Lists : Len(s) \leq 2
  <1>1. \A s \in {<<c>> : c \in Command} : Len(s) \leq 2
    OBVIOUS
  <1>2. ASSUME NEW s \in {<<c, d>> : c, d \in Command} PROVE Len(s) \leq 2
    <2>1. PICK c \in Command, d \in Command : s = <<c, d>>
      OBVIOUS
    <2> QED
      BY <2>1
  <1> QED
    BY <1>1, <1>2 DEF Lists, Some

LEMMA CallsListed == Calls \subseteq Lists /\ \A v \in 0 .. UNSET : <<Cmd("light", v)>> \in Some
  <1>1. \A v \in 0 .. UNSET :
          Cmd("mode", v) \in Command /\ Cmd("switch", v) \in Command /\ Cmd("light", v) \in Command
    BY DEF Cmd, Command
  <1>2. 0 \in 0 .. UNSET
    BY DEF UNSET
  <1> QED
    BY <1>1, <1>2 DEF Calls, Lists, Some

LEMMA TypeInit == Init => TInv
  <1> SUFFICES ASSUME Init PROVE TInv
    OBVIOUS
  <1>1. Plain
    BY DEF Init, InitAt, Plain, UNSET
  <1>2. \A a \in Agents : AgentOK(a)
    BY IdxAssumption DEF Init, InitAt, AgentOK, Lists
  <1>3. Types /\ tries \in [Agents -> Nat]
    BY DEF Init, InitAt, Types, Steps
  <1> QED
    BY <1>1, <1>2, <1>3 DEF TInv

LEMMA PlainStep == TInv /\ [Next]_vars => Plain'
  <1> SUFFICES ASSUME TInv, [Next]_vars PROVE Plain'
    OBVIOUS
  <1> USE IdxAssumption DEF Plain, TInv, Queue, agentVars
  <1>1. ASSUME NEW c \in Callers, NEW l \in Leds, NEW v \in Lights, LedsBrightnessSet(c, l, v)
        PROVE Plain'
    <2>1. v \in 0 .. UNSET /\ 255 \in 0 .. UNSET
      BY DEF UNSET
    <2> QED
      BY <1>1, <2>1 DEF LedsBrightnessSet
  <1>2. ASSUME NEW c \in Callers, NEW l \in Leds, NEW s, Call(c, l, s) PROVE Plain'
    BY <1>2 DEF Call
  <1>3. ASSUME NEW c \in Callers, Schedule(c) \/ Lock(c) \/ Unlock(c) PROVE Plain'
    BY <1>3 DEF Schedule, Lock, Unlock
  <1>4. ASSUME NEW l \in Leds, WorkStart(l) \/ WorkEnd(l) \/ CancelWork(l) PROVE Plain'
    BY <1>4 DEF WorkStart, WorkEnd, CancelWork
  <1>5. ASSUME NEW l \in Leds, TurnOff(l) PROVE Plain'
    <2>1. 0 \in 0 .. UNSET
      BY DEF UNSET
    <2> QED
      BY <1>5, <2>1 DEF TurnOff
  <1>6. ASSUME NEW a \in Agents, WriteFails(a) \/ WriteBlock(a) PROVE Plain'
    <2>1. Head(cmds[a]) \in Command
      BY <1>6, ListRest DEF AgentOK, WriteFails, WriteBlock
    <2>2. Head(cmds[a]).val \in 0 .. UNSET
      BY <2>1 DEF Command
    <2> QED
      BY <1>6, <2>2 DEF WriteFails, WriteBlock, Offer
  <1>7. ASSUME NEW a \in Agents, AckMissing(a) \/ AckRead(a) PROVE Plain'
    BY <1>7 DEF AckMissing, AckRead
  <1>8. CASE RemoveBegin \/ Unregister \/ Free \/ UNCHANGED vars
    BY <1>8 DEF RemoveBegin, Unregister, Free, vars
  <1> QED
    BY <1>1, <1>2, <1>3, <1>4, <1>5, <1>6, <1>7, <1>8 DEF Next, Running, Transfer

\* A step that only reads what AgentOK is about.
LEMMA AgentAlone ==
  ASSUME NEW a \in Agents, AgentOK(a),
         pc'[a] = pc[a] \/ (pc[a] \in {"idle", "schedule"} /\ pc'[a] \in {"idle", "schedule"}),
         cmds'[a] = cmds[a], tries'[a] = tries[a]
  PROVE  AgentOK(a)'
BY DEF AgentOK

LEMMA AgentsStep ==
  TInv /\ [Next]_vars => \A a \in Agents : AgentOK(a)'
  <1> SUFFICES ASSUME TInv, [Next]_vars, NEW a \in Agents PROVE AgentOK(a)'
    OBVIOUS
  <1>0. AgentOK(a) /\ pc \in [Agents -> Steps] /\ DOMAIN tries = Agents /\ DOMAIN cmds = Agents
        /\ Callers \cup Leds = Agents /\ Attempts \in Nat \ {0}
    BY IdxAssumption DEF TInv, Types, Agents
  <1> USE <1>0 DEF Goto, ForgetCall, agentVars
  <1>1. ASSUME NEW c \in Callers, NEW l \in Leds, NEW v, LedsBrightnessSet(c, l, v)
        PROVE AgentOK(a)'
    BY <1>1, AgentAlone DEF LedsBrightnessSet
  <1>2. ASSUME NEW c \in Callers, NEW l \in Leds, NEW s \in Calls, Call(c, l, s)
        PROVE AgentOK(a)'
    <2>1. CASE a = c
      BY <1>2, <2>1, CallsListed DEF Call, AgentOK, Lists
    <2>2. CASE a # c
      BY <1>2, <2>2, AgentAlone DEF Call
    <2> QED
      BY <2>1, <2>2
  <1>3. ASSUME NEW c \in Callers, Schedule(c) PROVE AgentOK(a)'
    BY <1>3, AgentAlone DEF Schedule
  <1>4. ASSUME NEW c \in Callers, Lock(c) PROVE AgentOK(a)'
    BY <1>4 DEF Lock, AgentOK, Lists
  <1>5. ASSUME NEW b \in Agents, Unlock(b) \/ WorkEnd(b) PROVE AgentOK(a)'
    <2>1. CASE a = b
      BY <1>5, <2>1 DEF Unlock, WorkEnd, AgentOK, Lists
    <2>2. CASE a # b
      BY <1>5, <2>2, AgentAlone DEF Unlock, WorkEnd
    <2> QED
      BY <2>1, <2>2
  <1>6. ASSUME NEW l \in Leds, WorkStart(l) PROVE AgentOK(a)'
    <2>1. <<Cmd("light", light[l])>> \in Some
      BY CallsListed DEF TInv, Plain
    <2>2. CASE a = l
      BY <1>6, <2>1, <2>2 DEF WorkStart, AgentOK, Lists
    <2>3. CASE a # l
      BY <1>6, <2>3, AgentAlone DEF WorkStart
    <2> QED
      BY <2>2, <2>3
  <1>7. ASSUME NEW b \in Agents, WriteFails(b) \/ AckMissing(b)
        PROVE AgentOK(a)'
    <2>1. Failed(b) /\ pc[b] \in {"write", "ack"} /\ UNCHANGED cmds
      BY <1>7 DEF WriteFails, AckMissing
    <2>2. CASE a = b
      BY <2>1, <2>2 DEF Failed, AgentOK
    <2>3. CASE a # b
      BY <2>1, <2>3, AgentAlone DEF Failed
    <2> QED
      BY <2>1, <2>2, <2>3 DEF Failed
  <1>8. ASSUME NEW b \in Agents, WriteBlock(b) PROVE AgentOK(a)'
    BY <1>8 DEF WriteBlock, AgentOK
  <1>9. ASSUME NEW b \in Agents, AckRead(b) PROVE AgentOK(a)'
    <2>1. CASE a = b
      BY <1>9, <2>1, ListRest DEF AckRead, AgentOK
    <2>2. CASE a # b
      BY <1>9, <2>2, AgentAlone DEF AckRead
    <2> QED
      BY <2>1, <2>2
  <1>10. CASE \/ RemoveBegin \/ Unregister \/ Free \/ UNCHANGED vars
              \/ \E l \in Leds : CancelWork(l) \/ TurnOff(l)
    BY <1>10, AgentAlone DEF RemoveBegin, Unregister, Free, vars, CancelWork, TurnOff
  <1> QED
    BY <1>1, <1>2, <1>3, <1>4, <1>5, <1>6, <1>7, <1>8, <1>9, <1>10 DEF Next, Running, Transfer

LEMMA TriesStep == TInv /\ [Next]_vars => (tries \in [Agents -> Nat])'
  <1> SUFFICES ASSUME TInv, [Next]_vars PROVE tries' \in [Agents -> Nat]
    OBVIOUS
  <1>1. ASSUME NEW a \in Agents, Transfer(a) PROVE tries' \in [Agents -> Nat]
    BY <1>1 DEF TInv, Transfer, WriteFails, WriteBlock, AckMissing, AckRead, Failed
  <1>2. ASSUME NEW a \in Agents, Unlock(a) \/ WorkEnd(a) PROVE tries' \in [Agents -> Nat]
    BY <1>2 DEF TInv, Unlock, WorkEnd, ForgetCall
  <1>3. CASE UNCHANGED tries
    BY <1>3 DEF TInv
  <1>4. ASSUME NEW c, NEW l, NEW v, NEW s, LedsBrightnessSet(c, l, v) \/ Call(c, l, s)
        PROVE UNCHANGED tries
    BY <1>4 DEF LedsBrightnessSet, Call
  <1>5. RemoveBegin \/ Unregister \/ Free \/ UNCHANGED vars => UNCHANGED tries
    BY DEF RemoveBegin, Unregister, Free, vars, agentVars
  <1>6. Callers \subseteq Agents /\ Leds \subseteq Agents
    BY DEF Agents
  <1>7. \/ UNCHANGED tries \/ \E a \in Agents : Transfer(a) \/ Unlock(a) \/ WorkEnd(a)
    <2>1. CASE \E c \in Callers, l \in Leds :
                 \/ \E v \in Lights : LedsBrightnessSet(c, l, v)
                 \/ \E s \in Calls : Call(c, l, s)
      BY <1>4, <2>1
    <2>2. CASE \E c \in Callers : Schedule(c) \/ Lock(c) \/ Unlock(c)
      <3>1. PICK c \in Callers : Schedule(c) \/ Lock(c) \/ Unlock(c)
        BY <2>2
      <3>2. Schedule(c) \/ Lock(c) => UNCHANGED tries
        BY DEF Schedule, Lock, agentVars
      <3> QED
        BY <1>6, <3>1, <3>2
    <2>3. CASE \E l \in Leds : WorkStart(l) \/ WorkEnd(l) \/ CancelWork(l) \/ TurnOff(l)
      <3>1. PICK l \in Leds : WorkStart(l) \/ WorkEnd(l) \/ CancelWork(l) \/ TurnOff(l)
        BY <2>3
      <3>2. WorkStart(l) \/ CancelWork(l) \/ TurnOff(l) => UNCHANGED tries
        BY DEF WorkStart, CancelWork, TurnOff, agentVars
      <3> QED
        BY <1>6, <3>1, <3>2
    <2> QED
      BY <1>5, <2>1, <2>2, <2>3 DEF Next, Running
  <1> QED
    BY <1>1, <1>2, <1>3, <1>7

LEMMA TypeStep == TInv /\ [Next]_vars => TInv'
BY TypesStep, PlainStep, AgentsStep, TriesStep DEF TInv

----------------------------------------------------------------------------
\* The variables keep their types; no write is tried more often than the code
\* says, and no list of commands is longer than two.
THEOREM TypeCorrect == Spec => []TypeOK
  <1>1. TInv => TypeOK
    <2> SUFFICES ASSUME TInv PROVE TypeOK
      OBVIOUS
    <2>1. \A a \in Agents : Len(cmds[a]) \leq 2
      BY ListLen DEF TInv, AgentOK
    <2>2. tries \in [Agents -> 0 .. Attempts]
      BY DEF TInv, AgentOK
    <2> QED
      BY <2>1, <2>2 DEF TInv, Types, Plain, Steps, TypeOK
  <1> QED
    BY TypeInit, TypeStep, <1>1, PTL DEF Spec

\* For any number of stores and LEDs the acknowledge that a store waits for is
\* not that of another store (i2c_iDX601x_write_led under ug_dev->mutex).
THEOREM AcksApart == Spec => []AckNotOfCaller
  <1>1. IInv => AckNotOfCaller
    BY DEF IInv, MutexHeld, Inside, AckNotOfCaller
  <1> QED
    BY Invariant, <1>1, PTL

\* For any number of stores and failed attempts the work of an LED offers the
\* brightness that was stored last (leds_brightness_set, brightness_work).
THEOREM LastLightSent == Spec => []LightSent
  <1>1. IInv => LightSent
    BY DEF IInv, WorkOf, Settled, LightSent
  <1> QED
    BY Invariant, <1>1, PTL

----------------------------------------------------------------------------
(* What can go on.  ENABLED is beyond the prover, so the guards of Running *)
(* are written out.                                                        *)

\* The mutex is held by a caller that is inside a call; only callers wait for it.
HolderInside ==
  /\ mutex \in Callers \cup {Nobody} /\ (mutex \in Callers => pc[mutex] \in Inside)
  /\ \A l \in Leds : pc[l] \notin {"schedule", "lock"}
  /\ phase \in {"absent", "bound", "cancel", "drain", "freed"}
  /\ cancelled \subseteq Leds /\ removed \subseteq Leds

LEMMA HolderStep == Types /\ MutexHeld /\ HolderInside /\ [Next]_vars => HolderInside'
  <1> SUFFICES ASSUME Types, MutexHeld, HolderInside, [Next]_vars PROVE HolderInside'
    OBVIOUS
  <1> USE IdxAssumption DEF Types, HolderInside, Inside, Goto, ForgetCall, agentVars, Agents
  <1>1. ASSUME NEW c \in Callers, NEW l \in Leds, NEW v, NEW s,
               LedsBrightnessSet(c, l, v) \/ Call(c, l, s)
        PROVE HolderInside'
    BY <1>1 DEF LedsBrightnessSet, Call
  <1>2. ASSUME NEW c \in Callers, Schedule(c) \/ Lock(c) PROVE HolderInside'
    BY <1>2 DEF Schedule, Lock
  <1>3. ASSUME NEW c \in Callers, Unlock(c) PROVE HolderInside'
    BY <1>3 DEF Unlock, MutexHeld
  <1>4. ASSUME NEW l \in Leds, WorkStart(l) \/ WorkEnd(l) PROVE HolderInside'
    BY <1>4 DEF WorkStart, WorkEnd
  <1>5. ASSUME NEW l \in Leds, CancelWork(l) \/ TurnOff(l) PROVE HolderInside'
    BY <1>5 DEF CancelWork, TurnOff
  <1>6. ASSUME NEW a \in Agents, Transfer(a) PROVE HolderInside'
    BY <1>6 DEF Transfer, WriteFails, WriteBlock, AckMissing, AckRead, Failed
  <1>7. CASE RemoveBegin \/ Unregister \/ Free \/ UNCHANGED vars
    BY <1>7 DEF RemoveBegin, Unregister, Free, vars
  <1> QED
    BY <1>1, <1>2, <1>3, <1>4, <1>5, <1>6, <1>7 DEF Next, Running

\* A caller has the next step of its call, or the mutex that it waits for is
\* free; a work item or a transfer has its next step; remove has.
CallerGoes(c) == pc[c] \in {"schedule", "done", "failed"} \/ (pc[c] = "lock" /\ mutex = Nobody)
AgentGoes(a) == pc[a] \in {"write", "ack"} \/ (a \in Leds /\ pc[a] \in {"done", "failed"})
RemoveGoes ==
  \/ phase = "cancel" /\ \E l \in Leds : l \notin cancelled /\ pc[l] = "idle"
  \/ phase = "cancel" /\ cancelled = Leds /\ \E l \in Leds : l \notin removed
  \/ phase = "cancel" /\ removed = Leds
  \/ phase = "drain" /\ \A c \in Callers : led[c] \in removed => pc[c] = "idle"

CodeGoesOn ==
  (phase \in {"cancel", "drain"} \/ \E a \in Agents : pc[a] # "idle") =>
    (\E c \in Callers : CallerGoes(c)) \/ (\E a \in Agents : AgentGoes(a)) \/ RemoveGoes

\* Neither a store nor the removal ever waits for good, for any number of stores,
\* LEDs and failed attempts: who has the mutex is at a step that waits for
\* nothing, and remove waits only for such steps (color_set, leds_blink_set,
\* leds_ugreen_remove).  This is NeverHangs with the guards written out.
THEOREM NothingHangs == Spec => []CodeGoesOn
  <1>1. Init => HolderInside
    BY IdxAssumption DEF Init, InitAt, HolderInside, Agents
  <1>2. IInv /\ HolderInside => CodeGoesOn
    <2> SUFFICES ASSUME IInv, HolderInside,
                        ~(\E c \in Callers : CallerGoes(c)), ~(\E a \in Agents : AgentGoes(a)),
                        phase \in {"cancel", "drain"} \/ \E a \in Agents : pc[a] # "idle"
                 PROVE  RemoveGoes
      BY DEF CodeGoesOn
    <2>1. \A c \in Callers : pc[c] \notin Inside
      BY DEF CallerGoes, AgentGoes, Inside, Agents
    <2>2. mutex = Nobody
      BY <2>1 DEF HolderInside
    <2>3. \A a \in Agents : pc[a] = "idle"
      BY <2>2 DEF CallerGoes, AgentGoes, Agents, IInv, Types, Steps, HolderInside
    <2>4. phase \in {"cancel", "drain"}
      BY <2>3
    <2> QED
      BY <2>3, <2>4 DEF RemoveGoes, HolderInside, Agents
  <1>3. IInv /\ HolderInside /\ [Next]_vars => HolderInside'
    BY HolderStep DEF IInv
  <1> QED
    BY Invariant, <1>1, <1>2, <1>3, PTL DEF Spec

----------------------------------------------------------------------------
(* N76Led: what the registers show.                                        *)

\* A user is at one of the steps s.
At(u, s) == at[u] \in s

\* As much of the types as the invariant needs.
N76Types ==
  /\ variant \in {"n76", "dh", "disk"} /\ lit \in BOOLEAN /\ mixed \in BOOLEAN
  /\ color \in 0 .. 3 /\ pins \subseteq N76!Pins /\ mode \subseteq N76!Pins
  /\ DOMAIN at = Callers /\ DOMAIN arg = Callers
  /\ wpc \in {"idle", "clear", "set"}

\* A blink that works on one pin knows which.
OnePin == \A u \in Callers : At(u, {"other", "off", "self"}) => arg[u] \in N76!Pins

\* n76e003 has its LED on from the start; as long as that of dh2600 is not,
\* nobody stores colours into registers, and orange is off.
Unlit ==
  /\ variant = "n76" => lit
  /\ ~lit => /\ pins \subseteq {N76!White}
             /\ \A u \in Callers : ~At(u, {"mode", "clear", "set"})

\* Without overlaps: a sequence is alone with the registers and works for the
\* colour that is stored, ...
Alone ==
  ~mixed => \A u \in Callers : At(u, N76!InSequence) =>
    /\ arg[u] = color /\ wpc = "idle"
    /\ \A v \in Callers : At(v, N76!InSequence) => v = u

\* ... what it has written so far is in the registers, ...
Written ==
  ~mixed => \A u \in Callers :
    /\ At(u, {"set", "self"}) => pins \subseteq N76!Bits(color)
    /\ At(u, {"other", "off", "self"}) => color \in N76!Pins
    /\ At(u, {"off", "self"}) => N76!Other(color) \notin mode
    /\ At(u, {"dark"}) => color = 0

\* ... the work applies the colour that is stored, ...
WorkApplies ==
  ~mixed /\ wpc # "idle" =>
    wcolor = color /\ (wpc = "set" => pins \subseteq N76!Bits(color))

\* ... the pins are those of the colour unless a sequence is about to write
\* them, and on n76e003 one mode is taken away before the other is set.
Shown ==
  ~mixed =>
    /\ lit /\ wpc # "set"
         /\ (\A u \in Callers : ~At(u, {"mode", "clear", "set", "dark", "other", "off"}))
       => pins \in {{}, N76!Bits(color)}
    /\ variant = "n76" /\ (\A u \in Callers : ~At(u, {"mode"})) => mode # N76!Pins

ColorInv == N76Types /\ OnePin /\ Unlit /\ Alone /\ Written /\ WorkApplies /\ Shown

----------------------------------------------------------------------------
LEMMA BitsOf ==
  /\ N76!Pins = {1, 2} /\ N76!White = 1 /\ N76!Orange = 2
  /\ N76!Bits(0) = {} /\ N76!Bits(1) = {1} /\ N76!Bits(2) = {2} /\ N76!Bits(3) = {1, 2}
  /\ N76!Other(1) = 2 /\ N76!Other(2) = 1
  BY DEF N76!Pins, N76!White, N76!Orange, N76!Bits, N76!Other

LEMMA ColorInit == ASSUME NEW p, N76!InitAt(p) PROVE ColorInv
  <1> USE DEF N76!InitAt
  <1>1. N76Types
    <2>1. variant \in {"n76", "dh", "disk"}
      BY N76Assumption
    <2>2. lit \in BOOLEAN /\ mixed \in BOOLEAN
      OBVIOUS
    <2> QED
      BY <2>1, <2>2, BitsOf DEF N76Types
  <1>2. Unlit
    BY BitsOf DEF Unlit, At
  <1>3. OnePin /\ Alone /\ Written /\ WorkApplies
    BY DEF OnePin, Alone, Written, WorkApplies, At, N76!InSequence
  <1>4. Shown
    BY BitsOf DEF Shown
  <1> QED
    BY <1>1, <1>2, <1>3, <1>4 DEF ColorInv

\* What a step of user u to step s changes of the users.
LEMMA UserMoves ==
  ASSUME N76Types, NEW u \in Callers, NEW s, N76!Goto(u, s)
  PROVE  /\ at'[u] = s /\ \A v \in Callers \ {u} : at'[v] = at[v]
         /\ DOMAIN at' = Callers
  BY DEF N76Types, N76!Goto

LEMMA UserReturns ==
  ASSUME N76Types, NEW u \in Callers, N76!Return(u)
  PROVE  /\ at'[u] = "idle" /\ \A v \in Callers \ {u} : at'[v] = at[v] /\ arg'[v] = arg[v]
         /\ DOMAIN at' = Callers /\ DOMAIN arg' = Callers
  BY DEF N76Types, N76!Goto, N76!Return

\* A user that writes registers without an overlap is alone with them.
LEMMA NotedAlone ==
  ASSUME ColorInv, NEW u \in Callers, N76!Note(u), ~mixed'
  PROVE  /\ ~mixed /\ wpc = "idle"
         /\ \A v \in Callers \ {u} : ~At(v, N76!InSequence)
  BY DEF N76!Note, N76!Overlaps, At

\* A step that leaves registers, colour and work alone, and puts no user into
\* or out of a sequence.
LEMMA OutsideStep ==
  ASSUME ColorInv, UNCHANGED <<variant, color, lit, wpc, wcolor, pins, mode, mixed>>,
         DOMAIN at' = Callers, DOMAIN arg' = Callers,
         \A u \in Callers : \/ at'[u] = at[u] /\ arg'[u] = arg[u]
                            \/ ~At(u, N76!InSequence) /\ ~At(u, N76!InSequence)'
  PROVE  ColorInv'
  <1>1. \A u \in Callers : At(u, N76!InSequence)' => At(u, N76!InSequence) /\ arg'[u] = arg[u]
    BY DEF At
  <1>2. \A u \in Callers : \A s \in {"mode", "clear", "set", "dark", "other", "off", "self"} :
          at'[u] = s <=> at[u] = s
    BY DEF At, N76!InSequence
  <1>3. N76Types' /\ Unlit'
    BY <1>2 DEF ColorInv, N76Types, Unlit, At
  <1>4. Alone' /\ OnePin'
    BY <1>1, <1>2 DEF ColorInv, Alone, OnePin, At, N76!InSequence
  <1>5. Written'
    BY <1>2 DEF ColorInv, Written, At
  <1>6. WorkApplies'
    BY DEF ColorInv, WorkApplies
  <1>7. Shown'
    BY <1>2 DEF ColorInv, Shown, At
  <1> QED
    BY <1>3, <1>4, <1>5, <1>6, <1>7 DEF ColorInv

LEMMA ColorStoreStep ==
  ASSUME ColorInv, NEW u \in Callers, NEW c \in Colors, N76!ColorStore(u, c)
  PROVE  ColorInv'
  <1>1. c \in 0 .. 3 /\ N76Types
    BY N76Assumption DEF ColorInv
  <1>2. CASE ~lit /\ N76!Note(u) /\ UNCHANGED <<access, N76!users>>
    <2>1. UNCHANGED <<variant, lit, wpc, wcolor, pins, mode, at, arg>> /\ color' = c
      BY <1>2 DEF N76!ColorStore, N76!users, N76!work, N76!regs
    <2>2. at[u] = "idle"
      BY DEF N76!ColorStore
    <2>3. N76Types'
      BY <1>1, <1>2, <2>1 DEF N76Types, N76!Note, N76!Overlaps
    <2>4. ASSUME ~mixed' PROVE \A v \in Callers : ~At(v, N76!InSequence)
      BY <1>2, <2>2, <2>4, NotedAlone DEF At, N76!InSequence
    <2>5. ASSUME ~mixed' PROVE wpc = "idle" /\ ~mixed
      BY <1>2, <2>5, NotedAlone
    <2>6. Unlit' /\ OnePin'
      BY <2>1 DEF ColorInv, Unlit, OnePin, At
    <2>7. Alone' /\ Written' /\ WorkApplies'
      BY <2>1, <2>4, <2>5 DEF Alone, Written, WorkApplies, At, N76!InSequence
    <2>8. Shown'
      BY <1>2, <2>1, <2>5 DEF ColorInv, Unlit, Shown, At
    <2> QED
      BY <2>3, <2>6, <2>7, <2>8 DEF ColorInv
  <1>3. CASE lit /\ mixed' = N76!Overlaps(u) /\ arg' = [arg EXCEPT ![u] = c]
             /\ N76!Goto(u, IF variant = "n76" THEN "mode" ELSE "clear")
    <2>1. UNCHANGED <<variant, lit, wpc, wcolor, pins, mode>> /\ color' = c
      BY DEF N76!ColorStore, N76!work, N76!regs
    <2>2. /\ at'[u] = IF variant = "n76" THEN "mode" ELSE "clear"
          /\ \A v \in Callers \ {u} : at'[v] = at[v]
          /\ DOMAIN at' = Callers
      BY <1>1, <1>3, UserMoves
    <2>3. arg'[u] = c /\ DOMAIN arg' = Callers
      BY <1>1, <1>3 DEF N76Types
    <2>4. N76Types'
      BY <1>1, <1>3, <2>1, <2>2, <2>3 DEF N76Types, N76!Overlaps
    <2>5. ASSUME ~mixed' PROVE wpc = "idle" /\ \A v \in Callers \ {u} : ~At(v, N76!InSequence)
      BY <1>3, <2>5 DEF N76!Overlaps, At
    <2>6. Unlit' /\ OnePin'
      BY <1>3, <2>1, <2>2 DEF ColorInv, Unlit, OnePin, At
    <2>7. Alone' /\ WorkApplies'
      BY <2>1, <2>2, <2>3, <2>5 DEF Alone, WorkApplies, At
    <2>8. Written'
      BY <2>1, <2>2, <2>5 DEF Written, At, N76!InSequence
    <2>9. Shown'
      BY <2>1, <2>2 DEF Shown, At
    <2> QED
      BY <2>4, <2>6, <2>7, <2>8, <2>9 DEF ColorInv
  <1> QED
    BY <1>2, <1>3 DEF N76!ColorStore

\* What user u owes the others at the end of a step of a sequence that did not
\* overlap.
Owed(u) ==
  /\ At(u, {"set", "self"}) => pins \subseteq N76!Bits(color)
  /\ At(u, {"other", "off", "self"}) => color \in N76!Pins
  /\ At(u, {"off", "self"}) => N76!Other(color) \notin mode
  /\ At(u, {"dark"}) => color = 0
  /\ At(u, N76!InSequence) => arg[u] = color
  /\ lit /\ ~At(u, {"mode", "clear", "set", "dark", "other", "off"})
       => pins \in {{}, N76!Bits(color)}
  /\ variant = "n76" /\ ~At(u, {"mode"}) => mode # N76!Pins

\* A step of user u in a sequence.
LEMMA SequenceStep ==
  ASSUME ColorInv, NEW u \in Callers, N76!Note(u),
         UNCHANGED <<variant, lit, wpc, wcolor>>,
         color' \in 0 .. 3, pins' \subseteq N76!Pins, mode' \subseteq N76!Pins,
         DOMAIN at' = Callers, DOMAIN arg' = Callers,
         \A v \in Callers \ {u} : at'[v] = at[v] /\ arg'[v] = arg[v],
         ~mixed' => Owed(u)', At(u, {"other", "off", "self"})' => arg'[u] \in N76!Pins,
         ~lit => pins' \subseteq pins /\ ~At(u, {"mode", "clear", "set"})'
  PROVE  ColorInv'
  <1>1. N76Types'
    BY DEF ColorInv, N76Types, N76!Note, N76!Overlaps
  <1>2. Unlit' /\ OnePin'
    BY DEF ColorInv, Unlit, OnePin, At
  <1>3. ASSUME ~mixed' PROVE /\ ~mixed /\ wpc = "idle" /\ Owed(u)'
                             /\ \A v \in Callers \ {u} : ~At(v, N76!InSequence)'
    BY <1>3, NotedAlone DEF At
  <1>4. Alone'
    BY <1>3 DEF Alone, Owed, At
  <1>5. Written'
    BY <1>3 DEF Written, Owed, At, N76!InSequence
  <1>6. WorkApplies'
    BY <1>3 DEF WorkApplies
  <1>7. Shown'
    BY <1>3 DEF Shown, Owed
  <1> QED
    BY <1>1, <1>2, <1>4, <1>5, <1>6, <1>7 DEF ColorInv

\* What Owed can be taken from.
LEMMA NotedOwed ==
  ASSUME ColorInv, NEW u \in Callers, N76!Note(u), ~mixed'
  PROVE  Owed(u)
  <1>1. ~mixed /\ wpc = "idle" /\ \A v \in Callers \ {u} : ~At(v, N76!InSequence)
    BY NotedAlone
  <1>2. \A v \in Callers : At(v, {"mode", "clear", "set", "dark", "other", "off"}) => v = u
    BY <1>1 DEF At, N76!InSequence
  <1>3. \A v \in Callers : At(v, {"mode"}) => v = u
    BY <1>2 DEF At
  <1> QED
    BY <1>1, <1>2, <1>3 DEF ColorInv, Alone, Written, Shown, Owed, At

LEMMA ColorSequence ==
  ASSUME ColorInv, NEW u \in Callers,
         N76!ColorMode(u) \/ N76!ColorClear(u) \/ N76!ColorSet(u)
  PROVE  ColorInv'
  <1> USE DEF N76!led, N76!work, N76!regs
  <1>1. N76Types /\ N76!Note(u) /\ UNCHANGED <<variant, lit, color, wpc, wcolor>>
    BY DEF ColorInv, N76!ColorMode, N76!ColorClear, N76!ColorSet
  <1>2. lit
    BY DEF ColorInv, Unlit, At, N76!ColorMode, N76!ColorClear, N76!ColorSet
  <1>3. color \in 0 .. 3 /\ pins \subseteq {1, 2} /\ mode \subseteq {1, 2}
    BY <1>1, BitsOf DEF N76Types
  <1>4. ~mixed' => Owed(u)
    BY <1>1, NotedOwed
  <1>5. CASE N76!ColorMode(u)
    <2>1. at'[u] = "clear" /\ (\A v \in Callers \ {u} : at'[v] = at[v]) /\ DOMAIN at' = Callers
      BY <1>1, <1>5, UserMoves DEF N76!ColorMode
    <2>2. arg' = arg /\ pins' = pins /\ mode' = mode \ {IF color = 1 THEN 2 ELSE 1}
      BY <1>5, BitsOf DEF N76!ColorMode
    <2>3. mode' # {1, 2} /\ mode' \subseteq {1, 2}
      BY <1>3, <2>2
    <2>4. ASSUME ~mixed' PROVE Owed(u)'
      <3>1. arg[u] = color
        BY <1>4, <1>5, <2>4 DEF Owed, At, N76!ColorMode, N76!InSequence
      <3> QED
        BY <1>1, <2>1, <2>2, <2>3, <3>1, BitsOf DEF Owed, At
    <2> QED
      BY <1>1, <1>2, <1>3, <2>1, <2>2, <2>3, <2>4, SequenceStep, BitsOf DEF N76Types, At
  <1>6. CASE N76!ColorClear(u)
    <2>1. at'[u] = "set" /\ (\A v \in Callers \ {u} : at'[v] = at[v]) /\ DOMAIN at' = Callers
      BY <1>1, <1>6, UserMoves DEF N76!ColorClear
    <2>2. arg' = arg /\ mode' = mode /\ pins' \subseteq pins /\ pins' \subseteq N76!Bits(arg[u])
      BY <1>6 DEF N76!ColorClear
    <2>3. ASSUME ~mixed' PROVE Owed(u)'
      <3>1. arg[u] = color /\ (variant = "n76" => mode # N76!Pins)
        BY <1>4, <1>6, <2>3 DEF Owed, At, N76!ColorClear, N76!InSequence
      <3> QED
        BY <1>1, <2>1, <2>2, <3>1 DEF Owed, At
    <2> QED
      BY <1>1, <1>2, <1>3, <2>1, <2>2, <2>3, SequenceStep, BitsOf DEF N76Types, At
  <1>7. CASE N76!ColorSet(u)
    <2>1. /\ at'[u] = "idle" /\ \A v \in Callers \ {u} : at'[v] = at[v] /\ arg'[v] = arg[v]
          /\ DOMAIN at' = Callers /\ DOMAIN arg' = Callers
      BY <1>1, <1>7, UserReturns DEF N76!ColorSet
    <2>2. mode' = mode /\ pins' = pins \cup N76!Bits(arg[u]) /\ N76!Bits(arg[u]) \subseteq N76!Pins
      BY <1>7 DEF N76!ColorSet, N76!Bits
    <2>3. ASSUME ~mixed' PROVE Owed(u)'
      <3>1. /\ arg[u] = color /\ pins \subseteq N76!Bits(color)
            /\ variant = "n76" => mode # N76!Pins
        BY <1>4, <1>7, <2>3 DEF Owed, At, N76!ColorSet, N76!InSequence
      <3>2. pins' = N76!Bits(color)
        BY <2>2, <3>1
      <3> QED
        BY <1>1, <2>1, <2>2, <3>1, <3>2 DEF Owed, At, N76!InSequence
    <2> QED
      BY <1>1, <1>2, <1>3, <2>1, <2>2, <2>3, SequenceStep, BitsOf DEF N76Types, At
  <1> QED
    BY <1>5, <1>6, <1>7

LEMMA BlinkSequence ==
  ASSUME ColorInv, NEW u \in Callers,
         N76!BlinkDark(u) \/ N76!BlinkOther(u) \/ N76!BlinkOff(u) \/ N76!BlinkMode(u)
  PROVE  ColorInv'
  <1> USE DEF N76!led, N76!work, N76!regs
  <1>1. N76Types /\ N76!Note(u) /\ UNCHANGED <<variant, lit, color, wpc, wcolor>>
    BY DEF ColorInv, N76!BlinkDark, N76!BlinkOther, N76!BlinkOff, N76!BlinkMode
  <1>2. color \in 0 .. 3 /\ pins \subseteq {1, 2} /\ mode \subseteq {1, 2}
    BY <1>1, BitsOf DEF N76Types
  <1>3. ~mixed' => Owed(u)
    BY <1>1, NotedOwed
  <1>4. CASE N76!BlinkDark(u)
    <2>1. /\ at'[u] = "idle" /\ \A v \in Callers \ {u} : at'[v] = at[v] /\ arg'[v] = arg[v]
          /\ DOMAIN at' = Callers /\ DOMAIN arg' = Callers
      BY <1>1, <1>4, UserReturns DEF N76!BlinkDark
    <2>2. mode' = mode /\ pins' = {}
      BY <1>4 DEF N76!BlinkDark
    <2>3. ASSUME ~mixed' PROVE Owed(u)'
      <3>1. variant = "n76" => mode # N76!Pins
        BY <1>3, <1>4, <2>3 DEF Owed, At, N76!BlinkDark
      <3> QED
        BY <1>1, <2>1, <2>2, <3>1 DEF Owed, At, N76!InSequence
    <2> QED
      BY <1>1, <1>2, <2>1, <2>2, <2>3, SequenceStep, BitsOf DEF N76Types, At
  <1>5. CASE N76!BlinkOther(u)
    <2>1. at'[u] = "off" /\ (\A v \in Callers \ {u} : at'[v] = at[v]) /\ DOMAIN at' = Callers
      BY <1>1, <1>5, UserMoves DEF N76!BlinkOther
    <2>2. arg' = arg /\ pins' = pins /\ mode' = mode \ {N76!Other(arg[u])}
      BY <1>5 DEF N76!BlinkOther
    <2>3. ASSUME ~mixed' PROVE Owed(u)'
      <3>1. arg[u] = color /\ color \in {1, 2}
        BY <1>3, <1>5, <2>3, BitsOf DEF Owed, At, N76!BlinkOther, N76!InSequence
      <3>2. N76!Other(color) \notin mode' /\ N76!Other(color) \in {1, 2}
        BY <2>2, <3>1, BitsOf
      <3> QED
        BY <1>1, <2>1, <2>2, <3>1, <3>2, BitsOf DEF Owed, At
    <2>4. arg[u] \in N76!Pins
      BY <1>5 DEF ColorInv, OnePin, At, N76!BlinkOther
    <2> QED
      BY <1>1, <1>2, <2>1, <2>2, <2>3, <2>4, SequenceStep, BitsOf DEF N76Types, At
  <1>6. CASE N76!BlinkOff(u)
    <2>1. at'[u] = "self" /\ (\A v \in Callers \ {u} : at'[v] = at[v]) /\ DOMAIN at' = Callers
      BY <1>1, <1>6, UserMoves DEF N76!BlinkOff
    <2>2. arg' = arg /\ mode' = mode /\ pins' = pins \ {N76!Other(arg[u])}
      BY <1>6 DEF N76!BlinkOff
    <2>3. ASSUME ~mixed' PROVE Owed(u)'
      <3>1. /\ arg[u] = color /\ color \in {1, 2} /\ N76!Other(color) \notin mode
            /\ variant = "n76" => mode # {1, 2}
        BY <1>3, <1>6, <2>3, BitsOf DEF Owed, At, N76!BlinkOff, N76!InSequence
      <3>2. pins' \subseteq {color} /\ N76!Bits(color) = {color}
        BY <1>2, <2>2, <3>1, BitsOf
      <3>3. pins' \in {{}, {color}}
        BY <3>2
      <3> QED
        BY <1>1, <2>1, <2>2, <3>1, <3>2, <3>3, BitsOf DEF Owed, At
    <2>4. arg[u] \in N76!Pins
      BY <1>6 DEF ColorInv, OnePin, At, N76!BlinkOff
    <2> QED
      BY <1>1, <1>2, <2>1, <2>2, <2>3, <2>4, SequenceStep, BitsOf DEF N76Types, At
  <1>7. CASE N76!BlinkMode(u)
    <2>1. at'[u] = "delays" /\ (\A v \in Callers \ {u} : at'[v] = at[v]) /\ DOMAIN at' = Callers
      BY <1>1, <1>7, UserMoves DEF N76!BlinkMode
    <2>2. arg' = arg /\ pins' = pins /\ mode' \in {mode \ {arg[u]}, mode \cup {arg[u]}}
      BY <1>7 DEF N76!BlinkMode
    <2>3. ASSUME ~mixed' PROVE Owed(u)' 
      <3>1. /\ arg[u] = color /\ color \in {1, 2} /\ N76!Other(color) \notin mode
            /\ pins \subseteq N76!Bits(color) /\ N76!Bits(color) = {color}
        BY <1>3, <1>7, <2>3, BitsOf DEF Owed, At, N76!BlinkMode, N76!InSequence
      <3>2. mode' # {1, 2}
        BY <1>2, <2>2, <3>1, BitsOf
      <3>3. pins' \in {{}, N76!Bits(color)}
        BY <2>2, <3>1
      <3> QED
        BY <1>1, <2>1, <2>2, <3>1, <3>2, <3>3, BitsOf DEF Owed, At, N76!InSequence
    <2>4. mode' \subseteq {1, 2}
      <3>1. arg[u] \in {1, 2}
        BY <1>7, BitsOf DEF ColorInv, OnePin, At, N76!BlinkMode
      <3> QED
        BY <1>2, <2>2, <3>1
    <2> QED
      BY <1>1, <1>2, <2>1, <2>2, <2>3, <2>4, SequenceStep, BitsOf DEF N76Types, At
  <1> QED
    BY <1>4, <1>5, <1>6, <1>7

LEMMA BlinkStep ==
  ASSUME ColorInv, NEW u \in Callers, N76!Blink(u)
  PROVE  ColorInv'
  <1> DEFINE s == CASE color' = 3 -> "delays" [] color' = 0 -> "dark" [] OTHER -> "other"
  <1>1. N76Types /\ N76!Note(u) /\ UNCHANGED <<variant, lit, wpc, wcolor, pins, mode>>
    BY DEF ColorInv, N76!Blink, N76!work, N76!regs
  <1>2. /\ color' = IF trigger = "breath" THEN 1 ELSE color
        /\ arg' = [arg EXCEPT ![u] = color'] /\ N76!Goto(u, s) /\ at[u] = "blink"
    BY BitsOf DEF N76!Blink
  <1>3. color' \in 0 .. 3 /\ (color' = 3 => color = 3)
    BY <1>1, <1>2 DEF N76Types
  <1>4. at'[u] = s /\ (\A v \in Callers \ {u} : at'[v] = at[v]) /\ DOMAIN at' = Callers
    BY <1>1, <1>2, UserMoves
  <1>5. /\ arg'[u] = color' /\ DOMAIN arg' = Callers
        /\ \A v \in Callers \ {u} : arg'[v] = arg[v]
    BY <1>1, <1>2 DEF N76Types
  <1>6. /\ color' = 3 => s = "delays"
        /\ color' = 0 => s = "dark"
        /\ color' \in {1, 2} => s = "other"
    OBVIOUS
  <1>7. color' \in {0, 1, 2, 3}
    BY <1>3
  <1> HIDE DEF s
  <1>8. ASSUME ~mixed' PROVE Owed(u)'
    <2>1. /\ lit => pins \in {{}, N76!Bits(color)}
          /\ variant = "n76" => mode # N76!Pins
      <3>1. Owed(u)
        BY <1>1, <1>8, NotedOwed
      <3> QED
        BY <1>2, <3>1 DEF Owed, At
    <2>2. CASE color' = 3
      <3>1. color' = color /\ at'[u] = "delays"
        BY <1>3, <1>4, <1>6, <2>2
      <3> QED
        BY <1>1, <1>5, <2>1, <3>1 DEF Owed, At
    <2>3. CASE color' = 0
      <3>1. at'[u] = "dark"
        BY <1>4, <1>6, <2>3
      <3> QED
        BY <1>1, <1>5, <2>1, <2>3, <3>1 DEF Owed, At
    <2>4. CASE color' \in {1, 2}
      <3>1. at'[u] = "other"
        BY <1>4, <1>6, <2>4
      <3> QED
        BY <1>1, <1>5, <2>1, <2>4, <3>1, BitsOf DEF Owed, At
    <2> QED
      BY <1>7, <2>2, <2>3, <2>4
  <1>9. at'[u] \in {"delays", "dark", "other"} /\ (at'[u] = "other" => arg'[u] \in N76!Pins)
    BY <1>4, <1>5, <1>6, <1>7, BitsOf
  <1> QED
    BY <1>1, <1>3, <1>4, <1>5, <1>8, <1>9, SequenceStep DEF N76Types, At

LEMMA WorkColorStep ==
  ASSUME ColorInv, N76!WorkStart \/ N76!WorkClear \/ N76!WorkSet
  PROVE  ColorInv'
  <1> USE DEF N76!users, N76!led, N76!regs, N76!WorkEnds
  <1>1. N76Types /\ OnePin /\ Unlit /\ UNCHANGED <<variant, at, arg, color, mode>>
    BY DEF ColorInv, N76!WorkStart, N76!WorkClear, N76!WorkSet
  <1>2. mixed' = (mixed \/ \E u \in Callers : at[u] \in N76!InSequence)
    BY DEF N76!WorkStart, N76!WorkClear, N76!WorkSet
  <1>3. ~mixed' => ~mixed /\ \A u \in Callers : ~At(u, N76!InSequence)
    BY <1>2 DEF At
  <1>4. ASSUME ~mixed'
        PROVE  /\ ~mixed /\ (variant = "n76" => mode # N76!Pins)
               /\ lit /\ wpc # "set" => pins \in {{}, N76!Bits(color)}
               /\ wpc # "idle" => wcolor = color
               /\ wpc = "set" => pins \subseteq N76!Bits(color)
    <2>1. \A u \in Callers : ~At(u, {"mode", "clear", "set", "dark", "other", "off"})
                             /\ ~At(u, {"mode"})
      BY <1>3, <1>4 DEF At, N76!InSequence
    <2> QED
      BY <1>3, <1>4, <2>1 DEF ColorInv, Shown, WorkApplies
  <1>5. mixed' \in BOOLEAN
    BY <1>2
  <1>6. color \in {0, 1, 2, 3} /\ pins \subseteq {1, 2}
    BY <1>1, BitsOf DEF N76Types
  <1>7. OnePin' /\ Alone' /\ Written'
    BY <1>1, <1>3 DEF OnePin, Alone, Written, At, N76!InSequence
  <1>8. CASE N76!WorkStart
    <2>1. wpc' = "clear" /\ wcolor' = color /\ UNCHANGED <<lit, pins>>
      BY <1>8 DEF N76!WorkStart
    <2>2. wpc = "idle"
      BY <1>8 DEF N76!WorkStart
    <2>3. N76Types' /\ Unlit'
      BY <1>1, <1>5, <2>1 DEF N76Types, Unlit, At
    <2>4. WorkApplies' /\ Shown'
      BY <1>1, <1>4, <2>1, <2>2 DEF WorkApplies, Shown
    <2> QED
      BY <1>7, <2>3, <2>4 DEF ColorInv
  <1>9. CASE N76!WorkClear
    <2>1. /\ wpc = "clear" /\ UNCHANGED lit /\ pins' \subseteq pins
          /\ \/ wvalue = 0 /\ pins' = {} /\ wpc' = "idle"
             \/ wvalue # 0 /\ wpc' = "set" /\ wcolor' = wcolor
                /\ pins' = pins \ {IF color = 1 THEN 2 ELSE 1}
      BY <1>9, BitsOf DEF N76!WorkClear
    <2>2. N76Types' /\ Unlit'
      BY <1>1, <1>5, <2>1 DEF N76Types, Unlit, At
    <2>3. ASSUME ~mixed', wvalue # 0 PROVE pins' \subseteq N76!Bits(color)
      <3>1. CASE lit
        BY <1>4, <2>1, <2>3, <3>1
      <3>2. CASE ~lit
        <4>1. pins \subseteq {1} /\ pins' = pins \ {IF color = 1 THEN 2 ELSE 1}
          BY <1>1, <2>1, <2>3, <3>2, BitsOf DEF Unlit
        <4>2. CASE color = 1
          BY <4>1, <4>2, BitsOf
        <4>3. CASE color # 1
          <5>1. pins' = {}
            BY <4>1, <4>3
          <5> QED
            BY <5>1
        <4> QED
          BY <4>2, <4>3
      <3> QED
        BY <3>1, <3>2
    <2>4. WorkApplies'
      BY <1>1, <1>4, <2>1, <2>3 DEF WorkApplies
    <2>5. Shown'
      BY <1>1, <1>4, <2>1 DEF Shown
    <2> QED
      BY <1>7, <2>2, <2>4, <2>5 DEF ColorInv
  <1>10. CASE N76!WorkSet
    <2>1. /\ wpc = "set" /\ wpc' = "idle" /\ pins' = pins \cup N76!Bits(wcolor)
          /\ lit' = (lit \/ variant # "n76" \/ wvalue # 1)
      BY <1>10 DEF N76!WorkSet
    <2>2. lit' = TRUE
      BY <1>1, <2>1 DEF N76Types, Unlit
    <2>3. N76!Bits(wcolor) \subseteq N76!Pins
      BY DEF N76!Bits
    <2>4. N76Types' /\ Unlit'
      BY <1>1, <1>5, <2>1, <2>2, <2>3 DEF N76Types, Unlit
    <2>5. ~mixed' => pins' = N76!Bits(color)
      BY <1>4, <2>1
    <2>6. WorkApplies' /\ Shown'
      BY <1>1, <1>4, <2>1, <2>5 DEF WorkApplies, Shown
    <2> QED
      BY <1>7, <2>4, <2>6 DEF ColorInv
  <1> QED
    BY <1>8, <1>9, <1>10

\* The other steps write no register.
LEMMA OtherColorStep ==
  ASSUME ColorInv, N76!Next
  PROVE  ColorInv'
  <1> USE DEF N76!led, N76!work, N76!regs, N76!users, N76!locks
  <1>1. N76Types
    BY DEF ColorInv
  <1>2. ASSUME NEW u \in Callers, NEW v \in Levels, N76!BrightnessStore(u, v) PROVE ColorInv'
    BY <1>1, <1>2, OutsideStep DEF N76Types, N76!BrightnessStore
  <1>3. ASSUME NEW u \in Callers, NEW t \in Triggers, N76!TriggerStore(u, t) PROVE ColorInv'
    <2>1. UNCHANGED <<variant, color, lit, wpc, wcolor, pins, mode, mixed, arg>> /\ at[u] = "idle"
      BY <1>3 DEF N76!TriggerStore
    <2>2. at' = at \/ N76!Goto(u, "blink")
      BY <1>3 DEF N76!TriggerStore
    <2>3. DOMAIN at' = Callers
          /\ \A w \in Callers : at'[w] = at[w] \/ (w = u /\ at'[w] = "blink")
      BY <1>1, <2>2, UserMoves DEF N76Types
    <2> QED
      BY <1>1, <2>1, <2>3, OutsideStep DEF N76Types, At, N76!InSequence
  <1>4. ASSUME NEW u \in Callers,
               \/ N76!DelayStore(u) \/ N76!BlinkIgnored(u) \/ N76!BlinkDelays(u)
               \/ N76!LockUpdate(u) \/ N76!UnlockUpdate(u)
        PROVE  ColorInv'
    <2>1. /\ UNCHANGED <<variant, color, lit, wpc, wcolor, pins, mode, mixed>>
          /\ at[u] \in {"idle", "blink", "delays", "lock", "unlock"}
      BY <1>4 DEF N76!DelayStore, N76!BlinkIgnored, N76!BlinkDelays, N76!LockUpdate, N76!UnlockUpdate
    <2>2. \/ N76!Return(u)
          \/ arg' = arg /\ (N76!Goto(u, "blink") \/ N76!Goto(u, "lock") \/ N76!Goto(u, "unlock"))
      BY <1>4 DEF N76!DelayStore, N76!BlinkIgnored, N76!BlinkDelays, N76!LockUpdate, N76!UnlockUpdate
    <2>3. /\ DOMAIN at' = Callers /\ DOMAIN arg' = Callers
          /\ \A w \in Callers \ {u} : at'[w] = at[w] /\ arg'[w] = arg[w]
          /\ at'[u] \in {"idle", "blink", "lock", "unlock"}
      <3>1. CASE N76!Return(u)
        BY <1>1, <3>1, UserReturns
      <3>2. CASE arg' = arg /\ N76!Goto(u, "blink")
        BY <1>1, <3>2, UserMoves DEF N76Types
      <3>3. CASE arg' = arg /\ N76!Goto(u, "lock")
        BY <1>1, <3>3, UserMoves DEF N76Types
      <3>4. CASE arg' = arg /\ N76!Goto(u, "unlock")
        BY <1>1, <3>4, UserMoves DEF N76Types
      <3> QED
        BY <2>2, <3>1, <3>2, <3>3, <3>4
    <2>4. ~At(u, N76!InSequence) /\ ~At(u, N76!InSequence)'
      BY <2>1, <2>3 DEF At, N76!InSequence
    <2> QED
      BY <2>1, <2>3, <2>4, OutsideStep
  <1>5. CASE N76!RemoveLock \/ N76!CancelWork \/ N76!TurnOff \/ N76!RemoveEnd
    <2>1. UNCHANGED <<variant, color, lit, wpc, wcolor, pins, mode, mixed, at, arg>>
      BY <1>5 DEF N76!RemoveLock, N76!CancelWork, N76!TurnOff, N76!RemoveEnd
    <2> QED
      BY <1>1, <2>1, OutsideStep DEF N76Types
  <1>6. ASSUME NEW u \in Callers, N76!UserStep(u) \/ N76!LockUpdate(u) PROVE ColorInv'
    BY <1>4, <1>6, ColorSequence, BlinkSequence, BlinkStep DEF N76!UserStep
  <1> QED
    BY <1>2, <1>3, <1>4, <1>5, <1>6, ColorStoreStep, WorkColorStep DEF N76!Next, N76!Running

LEMMA ColorStays == ColorInv /\ UNCHANGED n76Vars => ColorInv'
  <1> SUFFICES ASSUME ColorInv, UNCHANGED n76Vars PROVE ColorInv'
    OBVIOUS
  <1> QED
    BY OutsideStep DEF ColorInv, N76Types, n76Vars

LEMMA ColorInvShows == ColorInv => ColorShown
  <1> SUFFICES ASSUME ColorInv, ~mixed, wpc = "idle",
                      \A u \in Callers : at[u] \notin N76!InSequence
               PROVE  (lit => pins \in {{}, N76!Bits(color)})
                      /\ (variant = "n76" => mode # N76!Pins)
    BY DEF ColorShown, N76!ColorShown
  <1>1. \A u \in Callers : ~At(u, {"mode", "clear", "set", "dark", "other", "off"})
                           /\ ~At(u, {"mode"})
    BY DEF At, N76!InSequence
  <1> QED
    BY <1>1 DEF ColorInv, Shown

\* Whatever colours, brightnesses and triggers are stored, and in whatever
\* order, the pins of an n76e003 show led->color or nothing once sequences of
\* registers that did not overlap are over: for any number of writers.
THEOREM ColorsShown == MachineSpec => []ColorShown
  <1>1. MachineInit => ColorInv
    BY ColorInit DEF MachineInit
  <1>2. ColorInv /\ [MachineNext]_<<vars, n76Vars>> => ColorInv'
    <2>1. ColorInv /\ MachineNext => ColorInv'
      BY OtherColorStep, ColorStays DEF MachineNext
    <2>2. ColorInv /\ UNCHANGED <<vars, n76Vars>> => ColorInv'
      BY ColorStays
    <2> QED
      BY <2>1, <2>2
  <1> QED
    BY <1>1, <1>2, ColorInvShows, PTL DEF MachineSpec

----------------------------------------------------------------------------
(* N76Led: its types, update_lock, and what can go on.                     *)

UserSteps ==
  {"idle", "mode", "clear", "set", "blink", "dark", "other", "off", "self", "delays",
   "lock", "unlock"}

Binding ==
  /\ life \in {"absent", "bound", "cancel", "off", "drain", "gone"}
  /\ trigger \in Triggers \cup {"none"} /\ pending \in BOOLEAN
  /\ value \in Levels \cup {0, 1} /\ wvalue \in Levels \cup {0, 1} /\ wcolor \in 0 .. 3
  /\ access \in Callers \cup {Nobody}

\* update_lock belongs to the user that is about to unlock it, or to remove.
UpdateHeld ==
  /\ at \in [Callers -> UserSteps]
  /\ update \in Callers \cup {Nobody, Remover}
  /\ \A u \in Callers : at[u] = "unlock" <=> update = u
  /\ update = Remover => life \in {"cancel", "off", "drain"}

LEMMA BindingStep ==
  ASSUME ColorInv, Binding, N76!Next PROVE Binding' /\ variant' = variant
  <1> USE DEF Binding, N76!led, N76!work, N76!regs, N76!users, N76!locks, N76!McuLedSet, N76!Return
  <1>1. color \in 0 .. 3
    BY DEF ColorInv, N76Types
  <1>2. ASSUME NEW u \in Callers, NEW v \in Levels, N76!BrightnessStore(u, v)
        PROVE  Binding' /\ variant' = variant
    BY <1>2 DEF N76!BrightnessStore
  <1>3. ASSUME NEW u \in Callers, NEW c \in Colors, N76!ColorStore(u, c)
        PROVE  Binding' /\ variant' = variant
    BY <1>3 DEF N76!ColorStore
  <1>4. ASSUME NEW u \in Callers, NEW t \in Triggers, N76!TriggerStore(u, t)
        PROVE  Binding' /\ variant' = variant
    BY <1>4 DEF N76!TriggerStore
  <1>5. ASSUME NEW u \in Callers, N76!DelayStore(u) \/ N76!LockUpdate(u)
        PROVE  Binding' /\ variant' = variant
    BY <1>5 DEF N76!DelayStore, N76!LockUpdate
  <1>6. ASSUME NEW u \in Callers, N76!UserStep(u)
        PROVE  Binding' /\ variant' = variant
    BY <1>6 DEF N76!UserStep, N76!ColorMode, N76!ColorClear, N76!ColorSet, N76!Blink,
       N76!BlinkIgnored, N76!BlinkDark, N76!BlinkOther, N76!BlinkOff, N76!BlinkMode, N76!BlinkDelays,
       N76!UnlockUpdate
  <1>7. CASE N76!WorkStart \/ N76!WorkClear \/ N76!WorkSet
    <2>1. CASE N76!WorkStart
      BY <1>1, <2>1 DEF N76!WorkStart
    <2>2. CASE N76!WorkClear
      BY <2>2 DEF N76!WorkClear, N76!WorkEnds
    <2>3. CASE N76!WorkSet
      BY <2>3 DEF N76!WorkSet, N76!WorkEnds
    <2> QED
      BY <1>7, <2>1, <2>2, <2>3
  <1>8. CASE N76!RemoveLock \/ N76!CancelWork \/ N76!TurnOff \/ N76!RemoveEnd
    BY <1>8 DEF N76!RemoveLock, N76!CancelWork, N76!TurnOff, N76!RemoveEnd
  <1> QED
    BY <1>2, <1>3, <1>4, <1>5, <1>6, <1>7, <1>8 DEF N76!Next, N76!Running

LEMMA UpdateStep == ASSUME UpdateHeld, N76!Next PROVE UpdateHeld'
  <1> USE IdxAssumption, N76Assumption
      DEF UpdateHeld, UserSteps, Agents, N76!led, N76!work, N76!regs, N76!users, N76!locks,
          N76!Goto, N76!Return
  <1>1. ASSUME NEW u \in Callers, NEW v \in Levels, N76!BrightnessStore(u, v) PROVE UpdateHeld'
    BY <1>1 DEF N76!BrightnessStore
  <1>2. ASSUME NEW u \in Callers, NEW c \in Colors, N76!ColorStore(u, c) PROVE UpdateHeld'
    BY <1>2 DEF N76!ColorStore
  <1>3. ASSUME NEW u \in Callers, NEW t \in Triggers, N76!TriggerStore(u, t) PROVE UpdateHeld'
    BY <1>3 DEF N76!TriggerStore
  <1>4. ASSUME NEW u \in Callers, N76!DelayStore(u) \/ N76!LockUpdate(u) PROVE UpdateHeld'
    BY <1>4 DEF N76!DelayStore, N76!LockUpdate
  <1>5. ASSUME NEW u \in Callers, N76!ColorMode(u) \/ N76!ColorClear(u) \/ N76!ColorSet(u)
        PROVE UpdateHeld'
    BY <1>5 DEF N76!ColorMode, N76!ColorClear, N76!ColorSet
  <1>6. ASSUME NEW u \in Callers, N76!Blink(u) \/ N76!BlinkIgnored(u) PROVE UpdateHeld'
    BY <1>6 DEF N76!Blink, N76!BlinkIgnored
  <1>7. ASSUME NEW u \in Callers, \/ N76!BlinkDark(u) \/ N76!BlinkOther(u) \/ N76!BlinkOff(u)
                                  \/ N76!BlinkMode(u)
        PROVE UpdateHeld'
    BY <1>7 DEF N76!BlinkDark, N76!BlinkOther, N76!BlinkOff, N76!BlinkMode
  <1>8. ASSUME NEW u \in Callers, N76!BlinkDelays(u) PROVE UpdateHeld'
    BY <1>8 DEF N76!BlinkDelays
  <1>9. ASSUME NEW u \in Callers, N76!UnlockUpdate(u) PROVE UpdateHeld'
    BY <1>9 DEF N76!UnlockUpdate
  <1>10. CASE N76!WorkStart \/ N76!WorkClear \/ N76!WorkSet
    BY <1>10 DEF N76!WorkStart, N76!WorkClear, N76!WorkSet
  <1>11. CASE N76!RemoveLock \/ N76!CancelWork \/ N76!TurnOff
    BY <1>11 DEF N76!RemoveLock, N76!CancelWork, N76!TurnOff
  <1>12. CASE N76!RemoveEnd
    BY <1>12 DEF N76!RemoveEnd
  <1> QED
    BY <1>1, <1>2, <1>3, <1>4, <1>5, <1>6, <1>7, <1>8, <1>9, <1>10, <1>11, <1>12
       DEF N76!Next, N76!Running, N76!UserStep

\* The guards of N76!Running: a user waits for nothing but update_lock.
UserGoes(u) == at[u] \notin {"idle", "lock"} \/ (at[u] = "lock" /\ update = Nobody)
UnbindGoes ==
  \/ life = "cancel" /\ wpc = "idle"
  \/ life = "off" /\ \A u \in Callers : at[u] \notin N76!InBlink
  \/ life = "drain" /\ \A u \in Callers : at[u] = "idle"

OnlyRemoveHangs ==
  (wpc # "idle" \/ life \in {"cancel", "off", "drain"} \/ \E u \in Callers : at[u] # "idle") =>
    \/ \E u \in Callers : UserGoes(u)
    \/ wpc \in {"clear", "set"}
    \/ UnbindGoes
    \/ life \in {"off", "drain"} /\ update = Remover /\ \E u \in Callers : at[u] = "lock"

N76Inv == ColorInv /\ Binding /\ UpdateHeld /\ variant \in Variants

LEMMA N76Invariant == MachineSpec => []N76Inv
  <1>1. ASSUME NEW p \in {"absent", "bound"}, N76!InitAt(p) PROVE N76Inv
    <2>1. Binding
      <3>1. pending \in BOOLEAN
        BY <1>1 DEF N76!InitAt
      <3>2. life = p /\ trigger = "none" /\ access = Nobody /\ value = 0 /\ wvalue = 0 /\ wcolor = 0
        BY <1>1 DEF N76!InitAt
      <3> QED
        BY <1>1, <3>1, <3>2 DEF Binding
    <2>2. UpdateHeld
      BY <1>1, IdxAssumption, N76Assumption DEF UpdateHeld, UserSteps, Agents, N76!InitAt
    <2> QED
      BY <1>1, <2>1, <2>2, ColorInit DEF N76Inv, N76!InitAt
  <1>2. MachineInit => N76Inv
    BY <1>1 DEF MachineInit
  <1>3. N76Inv /\ N76!Next => N76Inv'
    BY OtherColorStep, BindingStep, UpdateStep DEF N76Inv
  <1>4. N76Inv /\ UNCHANGED n76Vars => N76Inv'
    BY ColorStays DEF N76Inv, Binding, UpdateHeld, n76Vars
  <1>5. N76Inv /\ [MachineNext]_<<vars, n76Vars>> => N76Inv'
    BY <1>3, <1>4 DEF MachineNext
  <1> QED
    BY <1>2, <1>5, PTL DEF MachineSpec

\* The variables of the n76e003 drivers keep their types, for any users, levels,
\* colours and triggers.
THEOREM N76TypeCorrect == MachineSpec => []N76!TypeOK
  <1>1. N76Inv => N76!TypeOK
    BY DEF N76Inv, ColorInv, N76Types, Binding, UpdateHeld, N76!TypeOK
  <1> QED
    BY N76Invariant, <1>1, PTL

\* The only wait for good is that of remove, which keeps update_lock, for a store
\* that waits for update_lock (mcu_remove, mcu_led_set_blink): with any number
\* of users, stores and triggers everything else that has begun can go on.
\* This is HangsOnlyInRemove with the guards written out.
THEOREM OnlyOneHang == MachineSpec => []OnlyRemoveHangs
  <1>1. N76Inv => OnlyRemoveHangs
    <2> SUFFICES ASSUME N76Inv, \A u \in Callers : ~UserGoes(u), wpc \notin {"clear", "set"},
                        ~UnbindGoes,
                        \/ wpc # "idle" \/ life \in {"cancel", "off", "drain"}
                        \/ \E u \in Callers : at[u] # "idle"
                 PROVE  /\ life \in {"off", "drain"} /\ update = Remover
                        /\ \E u \in Callers : at[u] = "lock"
      BY DEF OnlyRemoveHangs
    <2>1. wpc = "idle"
      BY DEF N76Inv, ColorInv, N76Types
    <2>2. \A u \in Callers : at[u] \in {"idle", "lock"} /\ (at[u] = "lock" => update # Nobody)
      BY DEF UserGoes
    <2>3. \A u \in Callers : update # u
      BY <2>2 DEF N76Inv, UpdateHeld
    <2>4. \A u \in Callers : at[u] = "lock" => life \in {"cancel", "off", "drain"} /\ update = Remover
      BY <2>2, <2>3 DEF N76Inv, UpdateHeld
    <2>5. life \in {"off", "drain"}
      BY <2>1, <2>2, <2>4 DEF UnbindGoes
    <2>6. \E u \in Callers : at[u] = "lock"
      BY <2>2, <2>5 DEF UnbindGoes, N76!InBlink
    <2> QED
      BY <2>4, <2>5, <2>6
  <1> QED
    BY N76Invariant, <1>1, PTL
=============================================================================
