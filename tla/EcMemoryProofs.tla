-------------------------- MODULE EcMemoryProofs --------------------------
(***************************************************************************)
(* Proofs about EcMemory: its types, that the handshake implements the     *)
(* registers of EcRegisters, for any calls and any number of callers, that *)
(* calls which set both fans together leave them together, and that each   *)
(* step of a call takes it further and nobody waits for good.              *)
(***************************************************************************)
EXTENDS EcMemory, TLAPS

----------------------------------------------------------------------------
(* Types.                                                                  *)

\* Where a thread is in its call.
Running(t) == pc[t] \in {"poll", "move"}

TypeInv ==
  /\ TypeOK
  /\ \A t \in Threads :
       /\ pc[t] \in {"idle", "request"} => at[t] = 1
       /\ pc[t] = "release" => at[t] = Len(call[t].ops) + 1
       /\ pc[t] # "idle" => call[t].ops \in Seq(OpType) /\ call[t].ops # <<>>
  /\ \A u \in Users : pc[u] # "idle" => call[u] \in Calls

\* What the controller and the buffers hold is of no concern to the threads.
EcTypes ==
  /\ mem \in [Regs -> Values]
  /\ fw \in {"idle", "raddr", "waddr", "wval", "answer"} /\ addr \in Values
  /\ input \in [port : {"none", "C", "D"}, val : Values]
  /\ obf \in BOOLEAN /\ out \in Values /\ got \in Values
  /\ holder \in Users \cup {Nobody} /\ open \in 1 .. Len(Files) + 1
  /\ gaveUp \in BOOLEAN /\ late \in BOOLEAN /\ broken \in BOOLEAN

ThreadTypes ==
  /\ pc \in [Threads -> {"idle", "request", "poll", "move", "release"}]
  /\ call \in [Threads -> Calls \cup {NoCall, CallOf(0, ExitOps)}]
  /\ byte \in [Threads -> {"cmd", "addr", "val"}] /\ left \in [Threads -> 1 .. Tries]
  /\ at \in [Threads -> Nat \ {0}]
  /\ \A t \in Threads :
       /\ Running(t) => at[t] \leq Len(call[t].ops)
       /\ pc[t] \in {"idle", "request"} => at[t] = 1
       /\ pc[t] = "release" => at[t] = Len(call[t].ops) + 1
       /\ pc[t] # "idle" => call[t].ops \in Seq(OpType) /\ call[t].ops # <<>>
  /\ \A u \in Users : pc[u] # "idle" => call[u] \in Calls

LEMMA TypeSplit == TypeInv <=> EcTypes /\ ThreadTypes
  BY DEF TypeInv, TypeOK, EcTypes, ThreadTypes, Running

LEMMA FilesLen == Len(Files) = 6
  BY DEF Files

LEMMA TypeInit == Init => TypeInv
  <1> SUFFICES ASSUME Init PROVE TypeInv
    OBVIOUS
  <1>1. Tries \in 1 .. Tries
    BY EcAssumption
  <1>2. NoCall \in Calls \cup {NoCall, CallOf(0, ExitOps)}
    OBVIOUS
  <1>3. 1 \in 1 .. Len(Files) + 1
    BY FilesLen
  <1>4. 0 \in Values /\ Empty \in [port : {"none", "C", "D"}, val : Values]
    BY DEF Values, Empty
  <1>6. Init => /\ mem \in [Regs -> Values] /\ addr \in Values
                /\ fw \in {"idle", "raddr", "waddr", "wval", "answer"}
                /\ input \in [port : {"none", "C", "D"}, val : Values]
                /\ obf \in BOOLEAN /\ out \in Values /\ got \in Values
                /\ holder \in Users \cup {Nobody} /\ open \in 1 .. Len(Files) + 1
    BY <1>3, <1>4 DEF Init
  <1>7. EcTypes
    BY <1>6 DEF Init, EcTypes
  <1>5. ThreadTypes
    BY <1>1, <1>2 DEF Init, ThreadTypes, Threads, Running
  <1> QED
    BY <1>5, <1>7, TypeSplit

\* The operation that a running call has reached.
LEMMA OpTyped ==
  ASSUME TypeInv, NEW t \in Threads, Running(t)
  PROVE  /\ Op(t) \in OpType
         /\ at[t] \in 1 .. Len(call[t].ops)
         /\ Len(call[t].ops) \in Nat
  <1>1. call[t].ops \in Seq(OpType) /\ at[t] \in Nat \ {0} /\ at[t] \leq Len(call[t].ops)
    BY DEF TypeInv, TypeOK, Running
  <1>2. Len(call[t].ops) \in Nat /\ at[t] \in 1 .. Len(call[t].ops)
    BY <1>1
  <1>3. call[t].ops[at[t]] \in OpType
    BY <1>1, <1>2
  <1> QED
    BY <1>2, <1>3 DEF Op

LEMMA SameThreads == ThreadTypes /\ UNCHANGED threadVars => ThreadTypes'
  BY DEF ThreadTypes, threadVars, Running

\* The end of a byte or of an operation.
LEMMA NextOpTypes ==
  ASSUME TypeInv, NEW t \in Threads, Running(t), NextOp(t)
  PROVE  ThreadTypes'
  <1>1. at[t] \in 1 .. Len(call[t].ops) /\ Len(call[t].ops) \in Nat
    BY OpTyped
  <1>2. ThreadTypes /\ Tries \in 1 .. Tries
    BY TypeSplit, EcAssumption
  <1>3. /\ pc' \in [Threads -> {"idle", "request", "poll", "move", "release"}]
        /\ call' \in [Threads -> Calls \cup {NoCall, CallOf(0, ExitOps)}]
        /\ byte' \in [Threads -> {"cmd", "addr", "val"}] /\ left' \in [Threads -> 1 .. Tries]
        /\ at' \in [Threads -> Nat \ {0}]
    BY <1>1, <1>2 DEF ThreadTypes, NextOp
  <1>4. ASSUME NEW s \in Threads
        PROVE  /\ Running(s)' => at'[s] \leq Len(call'[s].ops)
               /\ pc'[s] \in {"idle", "request"} => at'[s] = 1
               /\ pc'[s] = "release" => at'[s] = Len(call'[s].ops) + 1
               /\ pc'[s] # "idle" => call'[s].ops \in Seq(OpType) /\ call'[s].ops # <<>>
               /\ s \in Users /\ pc'[s] # "idle" => call'[s] \in Calls
    <2>1. CASE s # t
      BY <1>2, <2>1 DEF ThreadTypes, NextOp, Running
    <2>2. CASE s = t
      <3>1. call' = call /\ at'[t] = at[t] + 1 /\ pc[t] # "idle"
        BY <1>2 DEF ThreadTypes, NextOp, Running
      <3>2. pc'[t] = IF at[t] < Len(call[t].ops) THEN "poll" ELSE "release"
        BY <1>2 DEF ThreadTypes, NextOp
      <3> QED
        BY <1>1, <1>2, <2>2, <3>1, <3>2 DEF ThreadTypes, Running
    <2> QED
      BY <2>1, <2>2
  <1>5. Users \subseteq Threads
    BY DEF Threads
  <1> QED
    BY <1>3, <1>4, <1>5 DEF ThreadTypes

LEMMA NextByteTypes ==
  ASSUME TypeInv, NEW t \in Threads, Running(t), NextByte(t)
  PROVE  ThreadTypes'
  <1>1. ThreadTypes /\ Tries \in 1 .. Tries
    BY TypeSplit, EcAssumption
  <1>2. /\ pc' \in [Threads -> {"idle", "request", "poll", "move", "release"}]
        /\ byte' \in [Threads -> {"cmd", "addr", "val"}] /\ left' \in [Threads -> 1 .. Tries]
        /\ at' = at /\ call' = call
    BY <1>1 DEF ThreadTypes, NextByte
  <1>3. ASSUME NEW s \in Threads
        PROVE  pc'[s] = pc[s] \/ (s = t /\ pc'[s] = "poll")
    BY <1>1 DEF ThreadTypes, NextByte
  <1>4. Users \subseteq Threads
    BY DEF Threads
  <1> QED
    BY <1>1, <1>2, <1>3, <1>4 DEF ThreadTypes, Running

\* Nothing is changed but by the controller, or by a thread that holds nothing.
LEMMA TypeStep == TypeInv /\ [Next]_vars => TypeInv'
  <1> SUFFICES ASSUME TypeInv, [Next]_vars PROVE EcTypes' /\ ThreadTypes'
    BY DEF TypeInv, TypeOK, EcTypes, ThreadTypes, Running
  <1>1. EcTypes /\ ThreadTypes
    BY TypeSplit
  <1>2. 0 \in Values /\ READ_MEM \in Values /\ WRITE_MEM \in Values
    BY DEF Values, READ_MEM, WRITE_MEM
  <1>3. Users \subseteq Threads /\ Exit \in Threads
    BY DEF Threads
  <1>4. CASE EcTake
    <2>1. ThreadTypes'
      BY <1>1, <1>4, SameThreads DEF EcTake
    <2>2. input.val \in Values /\ input' = Empty
      BY <1>1, <1>4 DEF EcTypes, EcTake
    <2>3. mem' \in [Regs -> Values]
      BY <1>1, <1>4, <2>2 DEF EcTypes, EcTake
    <2>4. fw' \in {"idle", "raddr", "waddr", "wval", "answer"} /\ addr' \in Values
      BY <1>1, <1>2, <1>4, <2>2 DEF EcTypes, EcTake
    <2> QED
      BY <1>1, <1>2, <1>4, <2>1, <2>2, <2>3, <2>4 DEF EcTypes, EcTake, Empty
  <1>5. CASE EcAnswer
    <2>1. ThreadTypes'
      BY <1>1, <1>5, SameThreads DEF EcAnswer
    <2> QED
      BY <1>1, <1>2, <1>5, <2>1 DEF EcTypes, EcAnswer
  <1>6. ASSUME NEW t \in Threads, Exchange(t) PROVE EcTypes' /\ ThreadTypes'
    <2>1. Running(t)
      BY <1>6 DEF Exchange, PollReady, PollAgain, PollTimeout, Send, Receive, Running
    <2>2. Op(t) \in OpType
      BY <2>1, OpTyped
    <2>3. CASE PollReady(t)
      BY <1>1, <2>1, <2>3 DEF EcTypes, ThreadTypes, PollReady, ecVars, Running
    <2>4. CASE PollAgain(t)
      BY <1>1, <2>1, <2>4, EcAssumption DEF EcTypes, ThreadTypes, PollAgain, ecVars, Running
    <2>5. CASE PollTimeout(t)
      <3>1. ThreadTypes'
        BY <2>1, <2>5, NextOpTypes DEF PollTimeout
      <3>2. Receiving(t) \in BOOLEAN
        BY DEF Receiving
      <3> QED
        BY <1>1, <2>5, <3>1, <3>2 DEF EcTypes, PollTimeout, ecVars
    <2>6. CASE Send(t)
      <3>1. ThreadTypes'
        BY <2>1, <2>6, NextOpTypes, NextByteTypes DEF Send
      <3>2. Sent(t) \in [port : {"none", "C", "D"}, val : Values]
        BY <1>2, <2>2, EcAssumption DEF Sent, OpType
      <3> QED
        BY <1>1, <2>6, <3>1, <3>2 DEF EcTypes, Send
    <2>7. CASE Receive(t)
      <3>1. ThreadTypes'
        BY <2>1, <2>7, NextOpTypes DEF Receive
      <3> QED
        BY <1>1, <2>7, <3>1 DEF EcTypes, Receive
    <2> QED
      BY <1>6, <2>3, <2>4, <2>5, <2>6, <2>7 DEF Exchange
  <1>7. ASSUME NEW u \in Users, NEW c \in Calls, Begin(u, c) PROVE EcTypes' /\ ThreadTypes'
    <2>1. c.ops \in Seq(OpType) /\ c.ops # <<>>
      BY EcAssumption
    <2> QED
      BY <1>1, <1>3, <1>7, <2>1 DEF EcTypes, ThreadTypes, Begin, ecVars, Running
  <1>8. ASSUME NEW u \in Users, RequestPorts(u) \/ RequestRefused(u)
        PROVE  EcTypes' /\ ThreadTypes'
    <2>1. call[u].ops \in Seq(OpType) /\ call[u].ops # <<>> /\ at[u] = 1
      BY <1>1, <1>3, <1>8 DEF ThreadTypes, RequestPorts, RequestRefused
    <2>2. Len(call[u].ops) \in Nat /\ 1 \leq Len(call[u].ops)
      BY <2>1
    <2>3. ThreadTypes'
      BY <1>1, <1>3, <1>8, <2>1, <2>2 DEF ThreadTypes, RequestPorts, RequestRefused, Running
    <2> QED
      BY <1>1, <1>8, <2>3 DEF EcTypes, RequestPorts, RequestRefused, ecVars
  <1>9. ASSUME NEW u \in Users, ReleasePorts(u) PROVE EcTypes' /\ ThreadTypes'
    BY <1>1, <1>2, <1>3, <1>9 DEF EcTypes, ThreadTypes, ReleasePorts, ecVars, Running
  <1>10. CASE ExitBegin
    <2>1. ExitOps \in Seq(OpType) /\ ExitOps # <<>>
      BY <1>10, EcAssumption DEF ExitBegin
    <2>2. Len(ExitOps) \in Nat /\ 1 \leq Len(ExitOps)
      BY <2>1
    <2>3. CallOf(0, ExitOps).ops = ExitOps
      BY DEF CallOf
    <2>4. Exit \notin Users
      BY EcAssumption
    <2>5. ThreadTypes'
      BY <1>1, <1>3, <1>10, <2>1, <2>2, <2>3, <2>4 DEF ThreadTypes, ExitBegin, Running
    <2> QED
      BY <1>1, <1>10, <2>5 DEF EcTypes, ExitBegin, ecVars
  <1>11. CASE RemoveEntry \/ Load
    <2>1. ThreadTypes'
      BY <1>1, <1>11, SameThreads DEF RemoveEntry, Load
    <2>2. open' \in 1 .. Len(Files) + 1
      BY <1>1, <1>11, FilesLen DEF EcTypes, RemoveEntry, Load
    <2> QED
      BY <1>1, <1>11, <2>1, <2>2 DEF EcTypes, RemoveEntry, Load, ecVars
  <1>12. CASE ExitEnd
    <2>1. Exit \notin Users
      BY EcAssumption
    <2> QED
      BY <1>1, <1>3, <1>12, <2>1 DEF EcTypes, ThreadTypes, ExitEnd, ecVars, Running
  <1>13. CASE UNCHANGED vars
    BY <1>1, <1>13 DEF EcTypes, ThreadTypes, vars, Running
  <1> QED
    BY <1>4, <1>5, <1>6, <1>7, <1>8, <1>9, <1>10, <1>11, <1>12, <1>13 DEF Next

\* The variables keep their types: for any calls, any number of callers, any
\* delay of the controller, no call reads beyond its operations.
THEOREM TypeCorrect == Spec => []TypeOK
  <1>1. TypeInv => TypeOK
    BY DEF TypeInv
  <1> QED
    BY <1>1, TypeInit, TypeStep, PTL DEF Spec

----------------------------------------------------------------------------
(* The handshake, as long as nobody uses the ports without holding them.   *)

\* Whoever is inside a call holds the ports, and nobody else does.
HolderInv ==
  \A t \in Threads : pc[t] \in {"poll", "move", "release"} <=> holder = t

\* What the controller is to expect after the command.
Expects(o) == IF o = READ_MEM THEN "raddr" ELSE "waddr"

Commanded(t) ==
  \/ input = [port |-> "C", val |-> Op(t).op]
  \/ input = Empty /\ fw = Expects(Op(t).op)

Addressed(t) == input = [port |-> "D", val |-> Op(t).reg] /\ fw = Expects(Op(t).op)

Writing(t) == Addressed(t) \/ (input = Empty /\ fw = "wval" /\ addr = Op(t).reg)

\* While an answer is awaited; a late one may have come before it.
Reading(t) ==
  \/ Addressed(t) /\ (late \/ ~obf)
  \/ input = Empty /\ fw = "answer" /\ addr = Op(t).reg /\ (late \/ ~obf)
  \/ input = Empty /\ fw = "idle" /\ obf /\ (late \/ out = mem[Op(t).reg])

\* What the holder has sent is what the controller has taken or will take.
StepInv(t) ==
  /\ byte[t] = "addr" => Commanded(t)
  /\ byte[t] = "val" /\ Op(t).op = WRITE_MEM => Writing(t)
  /\ byte[t] = "val" /\ Op(t).op = READ_MEM => Reading(t)
  /\ pc[t] = "move" => IF Receiving(t) THEN obf ELSE input = Empty

\* Without a late answer, there is one only for who waits for it.
AnswerComes == obf \/ fw = "answer" \/ (fw = "raddr" /\ input.port = "D")

AnswerInv ==
  ~late /\ AnswerComes => \E t \in Threads : holder = t /\ Running(t) /\ Receiving(t)

Handshake ==
  ~broken =>
    /\ HolderInv /\ AnswerInv
    /\ \A t \in Threads : Running(t) => StepInv(t)
    /\ \A t \in Threads : ~Running(t) => byte[t] = "cmd"

LEMMA HandshakeInit == Init => Handshake
  <1>1. Nobody \notin Threads
    BY EcAssumption
  <1> QED
    BY <1>1 DEF Init, Handshake, HolderInv, AnswerInv, AnswerComes, Running, Empty

\* Only the holder is inside a call.
LEMMA OnlyHolder ==
  ASSUME TypeInv, HolderInv, NEW t \in Threads, Running(t)
  PROVE  /\ holder = t
         /\ \A s \in Threads : s # t => pc[s] \notin {"poll", "move", "release"}
  BY DEF HolderInv, Running

\* What the others' steps do not touch.
LEMMA SameStep ==
  ASSUME TypeInv, Handshake, ~broken, NEW t \in Threads, Running(t)',
         UNCHANGED <<threadVars, fw, addr, mem, input, obf, out, late>>
  PROVE  StepInv(t)'
  BY DEF Handshake, StepInv, Commanded, Writing, Reading, Addressed, Receiving, Op, Running,
         threadVars

\* The controller takes a byte.
LEMMA TakeStep ==
  ASSUME TypeInv, Handshake, ~broken, EcTake
  PROVE  AnswerInv' /\ \A t \in Threads : Running(t) => StepInv(t)'
  <1>1. UNCHANGED threadVars /\ UNCHANGED <<obf, out, late, holder>> /\ input' = Empty
    BY DEF EcTake
  <1>2. AnswerInv'
    <2>1. AnswerComes' => AnswerComes
      BY <1>1 DEF EcTake, AnswerComes, Empty
    <2> QED
      BY <1>1, <2>1 DEF Handshake, AnswerInv, Running, Receiving, Op, threadVars
  <1>3. ASSUME NEW t \in Threads, Running(t) PROVE StepInv(t)'
    <2>1. StepInv(t) /\ input # Empty
      BY <1>3 DEF Handshake, EcTake
    <2>2. Op(t)' = Op(t) /\ (Receiving(t)' <=> Receiving(t))
      BY <1>1 DEF Op, Receiving, threadVars
    <2>3. byte[t] = "addr" => Commanded(t)'
      <3>1. SUFFICES ASSUME byte[t] = "addr" PROVE input' = Empty /\ fw' = Expects(Op(t).op)
        BY <2>2 DEF Commanded
      <3>2. input = [port |-> "C", val |-> Op(t).op]
        BY <2>1, <3>1 DEF StepInv, Commanded
      <3>3. input.port = "C" /\ input.val = Op(t).op
        BY <3>2
      <3> QED
        BY <1>1, <3>3 DEF EcTake, Expects
    <2>4. byte[t] = "val" /\ Op(t).op = WRITE_MEM => Writing(t)'
      <3>1. SUFFICES ASSUME byte[t] = "val", Op(t).op = WRITE_MEM
                     PROVE  fw' = "wval" /\ addr' = Op(t).reg
        BY <1>1, <2>2 DEF Writing
      <3>2. input = [port |-> "D", val |-> Op(t).reg] /\ fw = "waddr"
        BY <2>1, <3>1 DEF StepInv, Writing, Addressed, Expects, READ_MEM, WRITE_MEM
      <3>3. input.port = "D" /\ input.val = Op(t).reg
        BY <3>2
      <3> QED
        BY <3>2, <3>3 DEF EcTake
    <2>5. byte[t] = "val" /\ Op(t).op = READ_MEM => Reading(t)'
      <3>1. SUFFICES ASSUME byte[t] = "val", Op(t).op = READ_MEM
                     PROVE  fw' = "answer" /\ addr' = Op(t).reg /\ (late \/ ~obf)
        BY <1>1, <2>2 DEF Reading
      <3>2. input = [port |-> "D", val |-> Op(t).reg] /\ fw = "raddr" /\ (late \/ ~obf)
        BY <2>1, <3>1 DEF StepInv, Reading, Addressed, Expects
      <3>3. input.port = "D" /\ input.val = Op(t).reg
        BY <3>2
      <3> QED
        BY <3>2, <3>3 DEF EcTake
    <2>6. pc[t] = "move" => Receiving(t) /\ obf
      BY <2>1 DEF StepInv
    <2> QED
      BY <1>1, <2>2, <2>3, <2>4, <2>5, <2>6 DEF StepInv, threadVars
  <1> QED
    BY <1>2, <1>3

\* The controller answers.
LEMMA AnswerStep ==
  ASSUME TypeInv, Handshake, ~broken, EcAnswer
  PROVE  AnswerInv' /\ \A t \in Threads : Running(t) => StepInv(t)'
  <1>1. UNCHANGED threadVars /\ UNCHANGED <<mem, input, late, holder>>
        /\ fw = "answer" /\ fw' = "idle" /\ obf'
    BY DEF EcAnswer
  <1>2. AnswerInv'
    BY <1>1 DEF Handshake, AnswerInv, AnswerComes, Running, Receiving, Op, threadVars
  <1>3. ASSUME NEW t \in Threads, Running(t) PROVE StepInv(t)'
    <2>1. StepInv(t) /\ Op(t)' = Op(t) /\ (Receiving(t)' <=> Receiving(t))
      BY <1>1, <1>3 DEF Handshake, Op, Receiving, threadVars
    <2>2. byte[t] = "addr" => Commanded(t)'
      BY <1>1, <2>1 DEF StepInv, Commanded, Expects
    <2>3. ~(byte[t] = "val" /\ Op(t).op = WRITE_MEM)
      BY <1>1, <2>1 DEF StepInv, Writing, Addressed, Expects
    <2>4. byte[t] = "val" /\ Op(t).op = READ_MEM => Reading(t)'
      <3>1. SUFFICES ASSUME byte[t] = "val", Op(t).op = READ_MEM
                     PROVE  input = Empty /\ out' = mem[Op(t).reg]
        BY <1>1, <2>1 DEF Reading
      <3>2. input = Empty /\ addr = Op(t).reg
        BY <1>1, <2>1, <3>1 DEF StepInv, Reading, Addressed, Expects
      <3>3. Op(t).reg \in Regs
        BY <1>3, OpTyped DEF OpType
      <3> QED
        BY <3>2, <3>3 DEF EcAnswer
    <2> QED
      BY <1>1, <2>1, <2>2, <2>3, <2>4 DEF StepInv, threadVars
  <1> QED
    BY <1>2, <1>3

\* The rest of the handshake, when one thread goes on in its call.
ThreadsInv ==
  /\ HolderInv
  /\ \A t \in Threads : ~Running(t) => byte[t] = "cmd"

LEMMA NextOpStep ==
  ASSUME TypeInv, Handshake, ~broken, NEW t \in Threads, Running(t),
         NextOp(t), UNCHANGED holder
  PROVE  /\ ThreadsInv'
         /\ \A s \in Threads : Running(s)' => StepInv(s)'
  <1>1. ThreadTypes /\ HolderInv /\ holder = t
    BY TypeSplit, OnlyHolder DEF Handshake
  <1>2. /\ pc'[t] \in {"poll", "release"} /\ byte'[t] = "cmd"
        /\ \A s \in Threads : s # t => pc'[s] = pc[s] /\ byte'[s] = byte[s]
    BY <1>1 DEF ThreadTypes, NextOp
  <1>3. \A s \in Threads : s # t => ~Running(s) /\ ~Running(s)'
    BY <1>1, <1>2, OnlyHolder DEF Running
  <1>4. ThreadsInv'
    BY <1>1, <1>2, <1>3 DEF ThreadsInv, HolderInv, Handshake, Running
  <1>5. StepInv(t)'
    BY <1>2 DEF StepInv
  <1> QED
    BY <1>3, <1>4, <1>5

\* A holder that does not wait for an answer has not let one come.
LEMMA NoAnswer ==
  ASSUME TypeInv, Handshake, ~broken, NEW t \in Threads, Running(t), ~Receiving(t), ~late
  PROVE  ~AnswerComes
  BY OnlyHolder DEF Handshake, AnswerInv

LEMMA PollStep ==
  ASSUME TypeInv, Handshake, ~broken, NEW t \in Threads, PollReady(t) \/ PollAgain(t)
  PROVE  /\ AnswerInv' /\ ThreadsInv'
         /\ \A s \in Threads : Running(s)' => StepInv(s)'
  <1>1. ThreadTypes /\ HolderInv /\ Running(t)
    BY TypeSplit DEF Handshake, PollReady, PollAgain, Running
  <1>2. holder = t /\ StepInv(t)
    BY <1>1, OnlyHolder DEF Handshake
  <1>3. UNCHANGED <<call, at, byte, holder, late, broken, ecVars>>
    BY DEF PollReady, PollAgain, ecVars
  <1>4. /\ pc'[t] \in {"poll", "move"} /\ (pc'[t] = "move" => Ready(t))
        /\ \A s \in Threads : s # t => pc'[s] = pc[s]
    BY <1>1 DEF ThreadTypes, PollReady, PollAgain
  <1>5. \A s \in Threads : Running(s)' <=> Running(s)
    BY <1>1, <1>4 DEF Running
  <1>6. \A s \in Threads : Op(s)' = Op(s) /\ (Receiving(s)' <=> Receiving(s))
    BY <1>3 DEF Op, Receiving
  <1>7. AnswerInv'
    BY <1>3, <1>5, <1>6 DEF Handshake, AnswerInv, AnswerComes, ecVars
  <1>8. ThreadsInv'
    BY <1>1, <1>2, <1>3, <1>4, <1>5 DEF Handshake, ThreadsInv, HolderInv, Running
  <1>9. StepInv(t)'
    BY <1>2, <1>3, <1>4, <1>6
       DEF StepInv, Commanded, Writing, Reading, Addressed, Ready, ecVars
  <1>10. \A s \in Threads : s # t => ~Running(s)'
    BY <1>1, <1>5, OnlyHolder DEF Running
  <1> QED
    BY <1>7, <1>8, <1>9, <1>10

LEMMA SendStep ==
  ASSUME TypeInv, Handshake, ~broken, NEW t \in Threads, Send(t)
  PROVE  /\ AnswerInv' /\ ThreadsInv'
         /\ \A s \in Threads : Running(s)' => StepInv(s)'
  <1>1. ThreadTypes /\ HolderInv /\ Running(t) /\ ~Receiving(t)
    BY TypeSplit DEF Handshake, Send, Running
  <1>2. holder = t /\ StepInv(t) /\ input = Empty
    BY <1>1, OnlyHolder DEF Handshake, Send, StepInv
  <1>3. UNCHANGED <<mem, fw, addr, obf, out, holder, late>> /\ input' = Sent(t)
    BY DEF Send
  <1>4. late \/ ~AnswerComes
    BY <1>1, NoAnswer
  <1>5. byte[t] \in {"cmd", "addr", "val"} /\ Op(t).op \in {READ_MEM, WRITE_MEM}
    BY <1>1, OpTyped DEF ThreadTypes, OpType
  <1>6. CASE byte[t] = "val"
    <2>1. NextOp(t) /\ Op(t).op = WRITE_MEM
      BY <1>1, <1>5, <1>6 DEF Send, Receiving
    <2>2. ThreadsInv' /\ \A s \in Threads : Running(s)' => StepInv(s)'
      BY <1>1, <1>3, <2>1, NextOpStep
    <2>3. fw = "wval"
      BY <1>2, <1>6, <2>1 DEF StepInv, Writing, Addressed, Empty
    <2>4. late \/ ~AnswerComes'
      BY <1>3, <1>4, <2>3 DEF AnswerComes
    <2> QED
      BY <1>3, <2>2, <2>4 DEF AnswerInv
  <1>7. CASE byte[t] # "val"
    <2>1. NextByte(t)
      BY <1>7 DEF Send
    <2>2. /\ pc'[t] = "poll" /\ call' = call /\ at' = at
          /\ byte'[t] = IF byte[t] = "cmd" THEN "addr" ELSE "val"
          /\ \A s \in Threads : s # t => pc'[s] = pc[s] /\ byte'[s] = byte[s]
      BY <1>1, <2>1 DEF ThreadTypes, NextByte
    <2>3. Op(t)' = Op(t)
      BY <2>2 DEF Op
    <2>4. \A s \in Threads : s # t => ~Running(s) /\ ~Running(s)'
      BY <1>1, <2>2, OnlyHolder DEF Running
    <2>5. ThreadsInv'
      BY <1>1, <1>2, <1>3, <2>2, <2>4 DEF ThreadsInv, HolderInv, Handshake, Running
    <2>6. CASE byte[t] = "cmd"
      <3>1. input' = [port |-> "C", val |-> Op(t).op]
        BY <1>3, <2>6 DEF Sent
      <3>2. StepInv(t)'
        BY <2>2, <2>3, <2>6, <3>1 DEF StepInv, Commanded
      <3>3. late \/ ~AnswerComes'
        BY <1>3, <1>4, <3>1 DEF AnswerComes
      <3> QED
        BY <1>3, <2>4, <2>5, <3>2, <3>3 DEF AnswerInv
    <2>7. CASE byte[t] = "addr"
      <3>1. input' = [port |-> "D", val |-> Op(t).reg]
        BY <1>3, <2>7 DEF Sent
      <3>2. fw = Expects(Op(t).op)
        BY <1>2, <2>7 DEF StepInv, Commanded, Empty
      <3>3. Addressed(t)' /\ (late' \/ ~obf')
        BY <1>3, <1>4, <2>3, <3>1, <3>2 DEF Addressed, AnswerComes
      <3>4. StepInv(t)'
        BY <2>2, <2>7, <3>3 DEF StepInv, Writing, Reading
      <3>5. AnswerInv'
        <4>1. CASE Op(t).op = READ_MEM
          <5>1. holder' = t /\ Running(t)' /\ Receiving(t)'
            BY <1>2, <1>3, <2>2, <2>3, <2>7, <4>1 DEF Running, Receiving
          <5> QED
            BY <5>1 DEF AnswerInv
        <4>2. CASE Op(t).op = WRITE_MEM
          <5>1. fw' = "waddr"
            BY <1>3, <3>2, <4>2 DEF Expects, READ_MEM, WRITE_MEM
          <5>2. late \/ ~AnswerComes'
            BY <1>3, <1>4, <5>1 DEF AnswerComes
          <5> QED
            BY <1>3, <5>2 DEF AnswerInv
        <4> QED
          BY <1>5, <4>1, <4>2
      <3> QED
        BY <2>4, <2>5, <3>4, <3>5
    <2> QED
      BY <1>5, <1>7, <2>6, <2>7
  <1> QED
    BY <1>6, <1>7

\* What the holder finds when it takes an answer.
LEMMA Answered ==
  ASSUME TypeInv, Handshake, ~broken, NEW t \in Threads, Receive(t), ~late
  PROVE  input = Empty /\ fw = "idle" /\ out = mem[Op(t).reg]
  <1>1. Running(t) /\ Receiving(t)
    BY DEF Receive, Running
  <1>2. StepInv(t) /\ pc[t] = "move"
    BY <1>1 DEF Handshake, Receive
  <1> QED
    BY <1>1, <1>2 DEF StepInv, Receiving, Reading

LEMMA ReceiveStep ==
  ASSUME TypeInv, Handshake, ~broken, NEW t \in Threads, Receive(t)
  PROVE  /\ AnswerInv' /\ ThreadsInv'
         /\ \A s \in Threads : Running(s)' => StepInv(s)'
  <1>1. Running(t) /\ NextOp(t) /\ UNCHANGED <<fw, input, late, holder>> /\ ~obf'
    BY DEF Receive, Running
  <1>2. ThreadsInv' /\ \A s \in Threads : Running(s)' => StepInv(s)'
    BY <1>1, NextOpStep
  <1>3. late \/ ~AnswerComes'
    BY <1>1, Answered DEF AnswerComes, Empty
  <1> QED
    BY <1>1, <1>2, <1>3 DEF AnswerInv

LEMMA TimeoutStep ==
  ASSUME TypeInv, Handshake, ~broken, NEW t \in Threads, PollTimeout(t)
  PROVE  /\ AnswerInv' /\ ThreadsInv'
         /\ \A s \in Threads : Running(s)' => StepInv(s)'
  <1>1. Running(t) /\ NextOp(t) /\ UNCHANGED holder /\ UNCHANGED ecVars
    BY DEF PollTimeout, Running
  <1>2. ThreadsInv' /\ \A s \in Threads : Running(s)' => StepInv(s)'
    BY <1>1, NextOpStep
  <1>3. late' \/ ~AnswerComes
    BY <1>1, NoAnswer DEF PollTimeout
  <1>4. AnswerComes' <=> AnswerComes
    BY <1>1 DEF AnswerComes, ecVars
  <1> QED
    BY <1>2, <1>3, <1>4 DEF AnswerInv

LEMMA HandshakeStep == TypeInv /\ Handshake /\ [Next]_vars => Handshake'
  <1> SUFFICES ASSUME TypeInv, Handshake, [Next]_vars, ~broken'
               PROVE  /\ AnswerInv' /\ ThreadsInv'
                      /\ \A t \in Threads : Running(t)' => StepInv(t)'
    BY DEF Handshake, ThreadsInv
  <1>1. ~broken
    BY DEF Next, EcTake, EcAnswer, Exchange, PollReady, PollAgain, PollTimeout, Send, Receive,
           Begin, RequestPorts, RequestRefused, ReleasePorts, ExitBegin, RemoveEntry, ExitEnd,
           Load, vars
  <1>2. ThreadsInv /\ AnswerInv /\ ThreadTypes /\ EcTypes
    BY <1>1, TypeSplit DEF Handshake, ThreadsInv
  <1>3. Users \subseteq Threads /\ Nobody \notin Threads /\ Exit \notin Users /\ Exit \in Threads
    BY EcAssumption DEF Threads
  <1>4. ASSUME UNCHANGED threadVars, UNCHANGED holder PROVE ThreadsInv'
    BY <1>2, <1>4 DEF ThreadsInv, HolderInv, Running, threadVars
  <1>5. CASE EcTake
    <2>1. UNCHANGED threadVars /\ UNCHANGED holder
      BY <1>5 DEF EcTake
    <2>2. \A t \in Threads : Running(t)' <=> Running(t)
      BY <2>1 DEF Running, threadVars
    <2> QED
      BY <1>1, <1>4, <1>5, <2>1, <2>2, TakeStep
  <1>6. CASE EcAnswer
    <2>1. UNCHANGED threadVars /\ UNCHANGED holder
      BY <1>6 DEF EcAnswer
    <2>2. \A t \in Threads : Running(t)' <=> Running(t)
      BY <2>1 DEF Running, threadVars
    <2> QED
      BY <1>1, <1>4, <1>6, <2>1, <2>2, AnswerStep
  <1>7. ASSUME NEW t \in Threads, Exchange(t)
        PROVE  AnswerInv' /\ ThreadsInv' /\ \A s \in Threads : Running(s)' => StepInv(s)'
    BY <1>1, <1>7, PollStep, SendStep, ReceiveStep, TimeoutStep DEF Exchange
  <1>8. ASSUME NEW u \in Users, NEW c \in Calls, Begin(u, c)
        PROVE  AnswerInv' /\ ThreadsInv' /\ \A s \in Threads : Running(s)' => StepInv(s)'
    <2>1. /\ pc[u] = "idle" /\ pc'[u] = "request" /\ UNCHANGED <<ecVars, holder, at, byte, late>>
          /\ \A s \in Threads : s # u => pc'[s] = pc[s] /\ call'[s] = call[s]
      BY <1>2, <1>3, <1>8 DEF ThreadTypes, Begin
    <2>2. \A s \in Threads : (Running(s)' <=> Running(s)) /\ (Running(s) => s # u)
      BY <2>1 DEF Running
    <2>3. \A s \in Threads : Running(s) => Op(s)' = Op(s) /\ (Receiving(s)' <=> Receiving(s))
      BY <2>1, <2>2 DEF Op, Receiving
    <2>4. ThreadsInv'
      BY <1>2, <2>1, <2>2 DEF ThreadsInv, HolderInv
    <2>5. AnswerInv'
      BY <1>2, <2>1, <2>2, <2>3 DEF AnswerInv, AnswerComes, ecVars
    <2>6. ASSUME NEW s \in Threads, Running(s)' PROVE StepInv(s)'
      <3>1. StepInv(s) /\ Op(s)' = Op(s) /\ (Receiving(s)' <=> Receiving(s)) /\ pc'[s] = pc[s]
        BY <1>1, <2>1, <2>2, <2>3, <2>6 DEF Handshake
      <3> QED
        BY <2>1, <3>1 DEF StepInv, Commanded, Writing, Reading, Addressed, ecVars
    <2> QED
      BY <2>4, <2>5, <2>6
  <1>9. ASSUME NEW u \in Users, RequestPorts(u)
        PROVE  AnswerInv' /\ ThreadsInv' /\ \A s \in Threads : Running(s)' => StepInv(s)'
    <2>1. /\ holder = Nobody /\ holder' = u /\ pc'[u] = "poll" /\ ~Running(u)
          /\ UNCHANGED <<ecVars, byte, late>>
          /\ \A s \in Threads : s # u => pc'[s] = pc[s]
      BY <1>2, <1>3, <1>9 DEF ThreadTypes, RequestPorts, Running
    <2>2. \A s \in Threads : pc[s] \notin {"poll", "move", "release"}
      BY <1>2, <1>3, <2>1 DEF ThreadsInv, HolderInv
    <2>3. ThreadsInv'
      BY <1>2, <1>3, <2>1, <2>2 DEF ThreadsInv, HolderInv, Running
    <2>4. late \/ ~AnswerComes
      BY <1>2, <1>3, <2>1 DEF AnswerInv
    <2>5. AnswerInv'
      BY <2>1, <2>4 DEF AnswerInv, AnswerComes, ecVars
    <2>6. byte[u] = "cmd"
      BY <1>2, <1>3, <2>1 DEF ThreadsInv
    <2>7. ASSUME NEW s \in Threads, Running(s)' PROVE StepInv(s)'
      BY <2>1, <2>2, <2>6, <2>7 DEF StepInv, Running
    <2> QED
      BY <2>3, <2>5, <2>7
  <1>10. ASSUME NEW u \in Users, RequestRefused(u) PROVE FALSE
    BY <1>10 DEF RequestRefused
  <1>11. ASSUME NEW u \in Users, ReleasePorts(u)
         PROVE  AnswerInv' /\ ThreadsInv' /\ \A s \in Threads : Running(s)' => StepInv(s)'
    <2>1. /\ pc[u] = "release" /\ pc'[u] = "idle" /\ holder' = Nobody
          /\ UNCHANGED <<ecVars, byte, late>>
          /\ \A s \in Threads : s # u => pc'[s] = pc[s]
      BY <1>2, <1>3, <1>11 DEF ThreadTypes, ReleasePorts
    <2>2. holder = u /\ \A s \in Threads : s # u => pc[s] \notin {"poll", "move", "release"}
      BY <1>2, <1>3, <2>1 DEF ThreadsInv, HolderInv
    <2>3. \A s \in Threads : ~Running(s) /\ ~Running(s)'
      BY <2>1, <2>2 DEF Running
    <2>4. ThreadsInv'
      BY <1>2, <1>3, <2>1, <2>2, <2>3 DEF ThreadsInv, HolderInv
    <2>5. late \/ ~AnswerComes
      BY <1>2, <2>3 DEF AnswerInv
    <2>6. AnswerInv'
      BY <2>1, <2>5 DEF AnswerInv, AnswerComes, ecVars
    <2> QED
      BY <2>3, <2>4, <2>6
  <1>12. CASE ExitBegin
    BY <1>12 DEF ExitBegin
  <1>13. CASE RemoveEntry \/ ExitEnd
    <2>1. holder = Exit
      BY <1>2, <1>3, <1>13 DEF ThreadsInv, HolderInv, RemoveEntry, ExitEnd
    <2> QED
      BY <1>2, <1>3, <2>1 DEF EcTypes
  <1>14. CASE Load \/ UNCHANGED vars
    <2>1. UNCHANGED <<threadVars, fw, addr, mem, input, obf, out, late, holder>>
      BY <1>14 DEF Load, vars, threadVars, ecVars
    <2>2. AnswerInv'
      BY <1>2, <2>1 DEF AnswerInv, AnswerComes, Running, Receiving, Op, threadVars
    <2> QED
      BY <1>1, <1>4, <2>1, <2>2, SameStep
  <1> QED
    BY <1>5, <1>6, <1>7, <1>8, <1>9, <1>10, <1>11, <1>12, <1>13, <1>14 DEF Next

----------------------------------------------------------------------------
(* The refinement.                                                         *)

\* The call that holds the ports, as EcRegisters sees it.
HeldOps == IF holder = Nobody THEN <<>> ELSE call[holder].ops
HeldAt == IF holder = Nobody THEN 1 ELSE at[holder]

LEMMA RegistersInit == Init => Registers!RegInit
  <1> SUFFICES ASSUME Init PROVE Registers!RegInit
    OBVIOUS
  <1>1. Stored = mem /\ holder = Nobody
    BY DEF Init, Stored, Empty
  <1> QED
    BY <1>1 DEF Init, Registers!RegInit

\* What the controller does with a byte it takes does not change the registers.
LEMMA TakeStored ==
  ASSUME TypeInv, Handshake, ~broken, EcTake
  PROVE  Stored' = Stored
  <1>1. input' = Empty
    BY DEF EcTake
  <1>2. Stored' = mem'
    BY <1>1 DEF Stored, Empty
  <1>3. CASE input.port = "D" /\ fw = "wval"
    BY <1>2, <1>3 DEF EcTake, Stored
  <1>4. CASE ~(input.port = "D" /\ fw = "wval")
    BY <1>2, <1>4 DEF EcTake, Stored
  <1> QED
    BY <1>3, <1>4

\* The operation that the holder is at is due.
LEMMA DueOp ==
  ASSUME TypeInv, HolderInv, NEW t \in Threads, Running(t)
  PROVE  /\ holder = t /\ HeldOps = call[t].ops /\ HeldAt = at[t]
         /\ HeldAt \in 1 .. Len(HeldOps) /\ HeldOps[HeldAt] = Op(t)
  <1>1. holder = t /\ Nobody \notin Threads
    BY OnlyHolder, EcAssumption
  <1> QED
    BY <1>1, OpTyped DEF HeldOps, HeldAt, Op

LEMMA NextOpHeld ==
  ASSUME TypeInv, HolderInv, NEW t \in Threads, Running(t), NextOp(t), UNCHANGED holder
  PROVE  HeldOps' = HeldOps /\ HeldAt' = HeldAt + 1
  <1>1. holder = t /\ t # Nobody /\ at'[t] = at[t] + 1 /\ call' = call
    BY OnlyHolder, EcAssumption, TypeSplit DEF NextOp, ThreadTypes
  <1> QED
    BY <1>1 DEF HeldOps, HeldAt

LEMMA RegistersStep ==
  TypeInv /\ Handshake /\ [Next]_vars => [Registers!RegNext]_(Registers!regVars)
  <1> SUFFICES ASSUME TypeInv, Handshake, [Next]_vars
               PROVE  Registers!RegNext \/ UNCHANGED Registers!regVars
    OBVIOUS
  <1>1. CASE broken'
    BY <1>1 DEF Registers!RegNext, Registers!Broken
  <1>2. CASE ~broken'
    <2>1. ~broken
      BY <1>2 DEF Next, EcTake, EcAnswer, Exchange, PollReady, PollAgain, PollTimeout, Send,
           Receive, Begin, RequestPorts, RequestRefused, ReleasePorts, ExitBegin, RemoveEntry,
           ExitEnd, Load, vars
    <2>2. EcTypes /\ ThreadTypes /\ HolderInv
      BY <2>1, TypeSplit DEF Handshake
    <2>3. Users \subseteq Threads /\ Nobody \notin Threads /\ Exit \notin Users
      BY EcAssumption DEF Threads
    <2>4. ASSUME Stored' = Stored, HeldOps' = HeldOps, HeldAt' = HeldAt,
                 UNCHANGED <<got, gaveUp, late, broken>>
          PROVE  UNCHANGED Registers!regVars
      BY <2>4 DEF Registers!regVars, HeldOps, HeldAt
    <2>5. ASSUME UNCHANGED <<holder, call, at>> PROVE HeldOps' = HeldOps /\ HeldAt' = HeldAt
      BY <2>5 DEF HeldOps, HeldAt
    <2>6. ASSUME UNCHANGED <<mem, fw, addr, input>> PROVE Stored' = Stored
      BY <2>6 DEF Stored
    <2>7. CASE EcTake
      <3>1. Stored' = Stored
        BY <2>1, <2>7, TakeStored
      <3> QED
        BY <2>4, <2>5, <2>7, <3>1 DEF EcTake, threadVars
    <2>8. CASE EcAnswer
      <3>1. Stored' = Stored
        BY <2>8 DEF EcAnswer, Stored
      <3> QED
        BY <2>4, <2>5, <2>8, <3>1 DEF EcAnswer, threadVars
    <2>9. ASSUME NEW t \in Threads, PollReady(t) \/ PollAgain(t)
          PROVE  UNCHANGED Registers!regVars
      <3>1. UNCHANGED <<mem, fw, addr, input>> /\ UNCHANGED <<holder, call, at>>
        BY <2>9 DEF PollReady, PollAgain, ecVars
      <3> QED
        BY <2>4, <2>5, <2>6, <2>9, <3>1 DEF PollReady, PollAgain
    <2>10. ASSUME NEW t \in Threads, PollTimeout(t) PROVE Registers!GiveUp
      <3>1. Running(t) /\ NextOp(t) /\ UNCHANGED <<holder, got, broken>> /\ UNCHANGED ecVars
            /\ gaveUp' = TRUE /\ late' = (late \/ Receiving(t))
        BY <2>10 DEF PollTimeout, Running
      <3>2. Stored' = Stored /\ HeldOps' = HeldOps /\ HeldAt' = HeldAt + 1
        BY <2>2, <2>6, <3>1, NextOpHeld DEF ecVars
      <3>3. HeldAt \in 1 .. Len(HeldOps) /\ HeldOps[HeldAt] = Op(t) /\ Op(t) \in OpType
        BY <2>2, <3>1, DueOp, OpTyped
      <3>4. \/ Op(t).op = WRITE_MEM /\ UNCHANGED late
            \/ Op(t).op = READ_MEM /\ late' \in {late, TRUE}
        BY <2>2, <3>1, <3>3 DEF OpType, Receiving, EcTypes, READ_MEM, WRITE_MEM
      <3> QED
        BY <3>1, <3>2, <3>3, <3>4 DEF Registers!GiveUp, Registers!Due, HeldOps, HeldAt
    <2>11. ASSUME NEW t \in Threads, Send(t), byte[t] = "val" PROVE Registers!Write
      <3>1. Running(t) /\ NextOp(t) /\ ~Receiving(t) /\ input' = Sent(t)
            /\ UNCHANGED <<mem, fw, addr, holder, got, gaveUp, late, broken>>
        BY <2>11 DEF Send, Running
      <3>2. HeldOps' = HeldOps /\ HeldAt' = HeldAt + 1
        BY <2>2, <3>1, NextOpHeld
      <3>3. HeldAt \in 1 .. Len(HeldOps) /\ HeldOps[HeldAt] = Op(t) /\ Op(t) \in OpType
        BY <2>2, <3>1, DueOp, OpTyped
      <3>4. Op(t).op = WRITE_MEM
        BY <2>11, <3>1, <3>3 DEF OpType, Receiving
      <3>5. StepInv(t) /\ input = Empty
        BY <2>1, <2>11, <3>1 DEF Handshake, StepInv, Send
      <3>6. fw = "wval" /\ addr = Op(t).reg
        BY <2>11, <3>4, <3>5 DEF StepInv, Writing, Addressed, Empty
      <3>7. Sent(t) = [port |-> "D", val |-> Op(t).val]
        BY <2>11 DEF Sent
      <3>8. Stored = mem /\ Stored' = [r \in Regs |-> IF r = Op(t).reg THEN Op(t).val ELSE mem[r]]
        BY <3>1, <3>5, <3>6, <3>7 DEF Stored, Empty
      <3>9. Stored' = [Stored EXCEPT ![Op(t).reg] = Op(t).val]
        BY <2>2, <3>8 DEF EcTypes
      <3> QED
        BY <3>1, <3>2, <3>3, <3>4, <3>9 DEF Registers!Write, Registers!Due, HeldOps, HeldAt
    <2>12. ASSUME NEW t \in Threads, Send(t), byte[t] # "val" PROVE UNCHANGED Registers!regVars
      <3>1. Running(t) /\ NextByte(t) /\ ~Receiving(t) /\ input' = Sent(t) /\ input = Empty
            /\ UNCHANGED <<mem, fw, addr, holder, got, gaveUp, late, broken>>
        BY <2>1, <2>12 DEF Send, Running, Handshake, StepInv
      <3>2. StepInv(t) /\ byte[t] \in {"cmd", "addr"} /\ UNCHANGED <<call, at>>
        BY <2>1, <2>2, <2>12, <3>1 DEF Handshake, ThreadTypes, NextByte
      <3>3. Stored = mem
        BY <3>1 DEF Stored, Empty
      <3>4. CASE byte[t] = "cmd"
        <4>1. input' = [port |-> "C", val |-> Op(t).op]
          BY <3>1, <3>4 DEF Sent
        <4>2. Stored' = mem'
          BY <4>1 DEF Stored
        <4> QED
          BY <2>4, <2>5, <3>1, <3>2, <3>3, <4>2
      <3>5. CASE byte[t] = "addr"
        <4>1. fw = Expects(Op(t).op)
          BY <3>1, <3>2, <3>5 DEF StepInv, Commanded, Empty
        <4>2. Stored' = mem'
          BY <3>1, <4>1 DEF Stored, Expects
        <4> QED
          BY <2>4, <2>5, <3>1, <3>2, <3>3, <4>2
      <3> QED
        BY <3>2, <3>4, <3>5
    <2>13. ASSUME NEW t \in Threads, Receive(t) PROVE Registers!Read
      <3>1. Running(t) /\ NextOp(t) /\ Receiving(t) /\ got' = out
            /\ UNCHANGED <<mem, fw, addr, input, holder, gaveUp, late, broken>>
        BY <2>13 DEF Receive, Running
      <3>2. HeldOps' = HeldOps /\ HeldAt' = HeldAt + 1 /\ Stored' = Stored
        BY <2>2, <2>6, <3>1, NextOpHeld
      <3>3. HeldAt \in 1 .. Len(HeldOps) /\ HeldOps[HeldAt] = Op(t) /\ Op(t).op = READ_MEM
        BY <2>2, <3>1, DueOp DEF Receiving
      <3>4. got' = Stored[Op(t).reg] \/ (late /\ got' \in Values)
        <4>1. CASE late
          BY <2>2, <3>1, <4>1 DEF EcTypes
        <4>2. CASE ~late
          <5>1. input = Empty /\ out = mem[Op(t).reg]
            BY <2>1, <2>13, <4>2, Answered
          <5> QED
            BY <3>1, <5>1 DEF Stored, Empty
        <4> QED
          BY <4>1, <4>2
      <3> QED
        BY <3>1, <3>2, <3>3, <3>4 DEF Registers!Read, Registers!Due, HeldOps, HeldAt
    <2>14. ASSUME NEW u \in Users, NEW c \in Calls, Begin(u, c)
           PROVE  UNCHANGED Registers!regVars
      <3>1. holder # u
        BY <2>2, <2>3, <2>14 DEF HolderInv, Begin
      <3>2. HeldOps' = HeldOps /\ HeldAt' = HeldAt
        BY <2>2, <2>3, <2>14, <3>1 DEF HeldOps, HeldAt, Begin, ThreadTypes, EcTypes
      <3> QED
        BY <2>4, <2>6, <2>14, <3>2 DEF Begin, ecVars
    <2>15. ASSUME NEW u \in Users, RequestPorts(u) PROVE Registers!Enter
      <3>1. call[u] \in Calls /\ at[u] = 1 /\ u # Nobody
        BY <2>2, <2>3, <2>15 DEF ThreadTypes, RequestPorts
      <3>2. Stored' = Stored
        BY <2>6, <2>15 DEF RequestPorts, ecVars
      <3> QED
        BY <2>15, <3>1, <3>2 DEF Registers!Enter, RequestPorts
    <2>16. ASSUME NEW u \in Users, ReleasePorts(u) PROVE Registers!Return
      <3>1. holder = u /\ u # Nobody
        BY <2>2, <2>3, <2>16 DEF HolderInv, ReleasePorts
      <3>2. call[u].ops # <<>> /\ at[u] = Len(call[u].ops) + 1
        BY <2>2, <2>3, <2>16 DEF ThreadTypes, ReleasePorts
      <3>3. Stored' = Stored
        BY <2>6, <2>16 DEF ReleasePorts, ecVars
      <3> QED
        BY <2>16, <3>1, <3>2, <3>3 DEF Registers!Return, ReleasePorts
    <2>17. ASSUME NEW u \in Users, RequestRefused(u) PROVE FALSE
      BY <1>2, <2>17 DEF RequestRefused
    <2>18. CASE ExitBegin
      BY <1>2, <2>18 DEF ExitBegin
    <2>19. CASE RemoveEntry \/ ExitEnd
      <3>1. holder = Exit
        BY <2>2, <2>19 DEF HolderInv, RemoveEntry, ExitEnd, Threads
      <3> QED
        BY <2>2, <2>3, <3>1 DEF EcTypes, Threads
    <2>20. CASE Load \/ UNCHANGED vars
      BY <2>4, <2>5, <2>6, <2>20 DEF Load, vars, threadVars, ecVars
    <2> QED
      BY <2>7, <2>8, <2>9, <2>10, <2>11, <2>12, <2>13, <2>14, <2>15, <2>16, <2>17, <2>18,
         <2>19, <2>20 DEF Next, Exchange, Registers!RegNext
  <1> QED
    BY <1>1, <1>2

\* it55_helper.c implements registers that are read and written one at a time.
THEOREM ImplementsRegisters == Spec => Implements
  <1>1. Init => TypeInv /\ Handshake
    BY TypeInit, HandshakeInit
  <1>2. TypeInv /\ Handshake /\ [Next]_vars => (TypeInv /\ Handshake)'
    BY TypeStep, HandshakeStep
  <1> QED
    BY <1>1, <1>2, RegistersInit, RegistersStep, PTL DEF Spec, Implements, Registers!RegSpec

----------------------------------------------------------------------------
(* The speeds of the fans, from the registers that are implemented.        *)

\* A sequence that writes one value to both PWM registers is as OneSpeed says.
LEMMA OneSpeedOf ==
  ASSUME NEW s, NEW v \in 0 .. 198,
         \E i \in DOMAIN s : Sets(s[i], FAN1_PWM),
         \E i \in DOMAIN s : Sets(s[i], FAN2_PWM),
         \A i \in DOMAIN s : SetsFan(s[i]) => s[i].val = v
  PROVE  OneSpeed(s)
  BY Zenon DEF OneSpeed

\* The calls of the code are as SpeedsTogether says, for all of their values.
LEMMA CodeSetsTogether ==
  /\ \A p \in Values : OneSpeed(SetSysFan(p).ops)
  /\ \A n : /\ OneSpeed(PwrWrite(n).ops) /\ OneSpeed(G3Write(n).ops)
            /\ OneSpeed(LanWrite(n).ops) /\ OneSpeed(UpdateStatus(n).ops)
  /\ OneSpeed(PwrRead.ops) /\ OneSpeed(G3Read.ops) /\ OneSpeed(LanRead.ops)
  <1> USE DEF Sets, SetsFan, WRITE_MEM, READ_MEM, FAN1_PWM, FAN2_PWM, CallOf, W, R
  <1>1. ASSUME NEW p \in Values PROVE OneSpeed(SetSysFan(p).ops)
    <2>1. Limited(p) \in 0 .. 198
      BY DEF Limited, Values
    <2> DEFINE s == SetSysFan(p).ops
    <2>2. /\ DOMAIN s = 1 .. 4 /\ s[1] = W(FAN1_MODE, 1) /\ s[2] = W(FAN1_PWM, Limited(p))
          /\ s[3] = W(FAN2_MODE, 1) /\ s[4] = W(FAN2_PWM, Limited(p))
      BY DEF SetSysFan
    <2>3. Sets(s[2], FAN1_PWM) /\ Sets(s[4], FAN2_PWM)
      BY <2>2
    <2>4. \A i \in DOMAIN s : SetsFan(s[i]) => s[i].val = Limited(p)
      BY <2>2 DEF FAN1_MODE, FAN2_MODE
    <2>5. /\ \E i \in DOMAIN s : Sets(s[i], FAN1_PWM)
          /\ \E i \in DOMAIN s : Sets(s[i], FAN2_PWM)
      <3>1. 2 \in DOMAIN s /\ 4 \in DOMAIN s
        BY <2>2
      <3> QED
        BY <2>3, <3>1
    <2> HIDE DEF s, Sets, SetsFan
    <2> QED
      BY <2>1, <2>4, <2>5, OneSpeedOf DEF s
  <1>2. ASSUME NEW s, \A i \in DOMAIN s : s[i].reg \notin {FAN1_PWM, FAN2_PWM}
        PROVE  OneSpeed(s)
    <2>1. \A i \in DOMAIN s : ~SetsFan(s[i])
      BY <1>2
    <2> QED
      BY <2>1, Zenon DEF OneSpeed
  <1>3. ASSUME NEW n PROVE /\ OneSpeed(PwrWrite(n).ops) /\ OneSpeed(G3Write(n).ops)
                           /\ OneSpeed(LanWrite(n).ops) /\ OneSpeed(UpdateStatus(n).ops)
    <2>1. /\ PwrWrite(n).ops = <<W(PWR_ENABLE, 1), W(PWR_VALUE, n)>>
          /\ G3Write(n).ops = <<W(G3_WAKEUP, n)>> /\ LanWrite(n).ops = <<W(LAN_WAKEUP, 1 - n)>>
          /\ UpdateStatus(n).ops = <<W(BKLT_PWM, n)>>
      BY DEF PwrWrite, G3Write, LanWrite, UpdateStatus
    <2> QED
      BY <1>2, <2>1 DEF PWR_ENABLE, PWR_VALUE, G3_WAKEUP, LAN_WAKEUP, BKLT_PWM
  <1>4. OneSpeed(PwrRead.ops) /\ OneSpeed(G3Read.ops) /\ OneSpeed(LanRead.ops)
    <2>1. /\ PwrRead.ops = <<R(PWR_VALUE)>>
          /\ G3Read.ops = <<R(G3_WAKEUP)>> /\ LanRead.ops = <<R(G3_WAKEUP)>>
      BY DEF PwrRead, G3Read, LanRead
    <2> QED
      BY <1>2, <2>1 DEF PWR_VALUE, G3_WAKEUP
  <1> QED
    BY <1>1, <1>3, <1>4

Level == Stored[FAN1_PWM] = Stored[FAN2_PWM] /\ Stored[FAN1_PWM] \leq 198

\* Between calls, and in a call that sets no speed, the speeds are the same; in
\* one that does, those it has set are the ones it was called with.
PwmInv ==
  broken \/ gaveUp \/
    /\ HeldOps \in {c.ops : c \in Calls} \cup {<<>>} /\ HeldAt \in Nat \ {0}
    /\ (\A i \in DOMAIN HeldOps : ~SetsFan(HeldOps[i])) => Level
    /\ \A i \in DOMAIN HeldOps, r \in {FAN1_PWM, FAN2_PWM} :
         i < HeldAt /\ Sets(HeldOps[i], r) => Stored[r] = HeldOps[i].val

LEMMA StoredType == TypeInv => Stored \in [Regs -> Values]
  BY DEF TypeInv, TypeOK, Stored

LEMMA PwmStep ==
  ASSUME {FAN1_PWM, FAN2_PWM} \subseteq Regs, SpeedsTogether, TypeInv, PwmInv,
         [Registers!RegNext]_(Registers!regVars)
  PROVE  PwmInv'
  <1> SUFFICES ASSUME ~broken', ~gaveUp' PROVE PwmInv'
    BY DEF PwmInv
  <1>1. ~broken /\ ~gaveUp
    <2>1. UNCHANGED <<gaveUp, broken>>
      <3>1. CASE Registers!Enter \/ Registers!Write \/ Registers!Read \/ Registers!Return
        BY <3>1 DEF Registers!Enter, Registers!Write, Registers!Read, Registers!Return
      <3>2. CASE Registers!GiveUp \/ Registers!Broken
        BY <3>2 DEF Registers!GiveUp, Registers!Broken
      <3>3. CASE UNCHANGED Registers!regVars
        BY <3>3 DEF Registers!regVars
      <3> QED
        BY <3>1, <3>2, <3>3 DEF Registers!RegNext
    <2> QED
      BY <2>1
  <1>2. /\ HeldOps \in {c.ops : c \in Calls} \cup {<<>>} /\ HeldAt \in Nat \ {0}
        /\ (\A i \in DOMAIN HeldOps : ~SetsFan(HeldOps[i])) => Level
        /\ \A i \in DOMAIN HeldOps, r \in {FAN1_PWM, FAN2_PWM} :
             i < HeldAt /\ Sets(HeldOps[i], r) => Stored[r] = HeldOps[i].val
    BY <1>1 DEF PwmInv
  <1>3. DOMAIN HeldOps = 1 .. Len(HeldOps) /\ Len(HeldOps) \in Nat /\ OneSpeed(HeldOps)
    <2>1. CASE HeldOps = <<>>
      BY <2>1 DEF OneSpeed
    <2>2. CASE HeldOps \in {c.ops : c \in Calls}
      BY <2>2, EcAssumption DEF SpeedsTogether
    <2> QED
      BY <1>2, <2>1, <2>2
  <1>4. CASE Registers!Enter
    <2>1. HeldOps = <<>> /\ HeldOps' \in {c.ops : c \in Calls} /\ HeldAt' = 1 /\ Stored' = Stored
      BY <1>4 DEF Registers!Enter, HeldOps, HeldAt
    <2>2. Level
      BY <1>2, <2>1
    <2>3. DOMAIN HeldOps' \subseteq Nat \ {0}
      BY <2>1, EcAssumption
    <2> QED
      BY <2>1, <2>2, <2>3 DEF PwmInv, Level
  <1>5. CASE Registers!Write
    <2>1. /\ HeldAt \in DOMAIN HeldOps /\ HeldOps[HeldAt].op = WRITE_MEM
          /\ Stored' = [Stored EXCEPT ![HeldOps[HeldAt].reg] = HeldOps[HeldAt].val]
          /\ HeldOps' = HeldOps /\ HeldAt' = HeldAt + 1
      BY <1>3, <1>5 DEF Registers!Write, Registers!Due, HeldOps, HeldAt
    <2>2. ASSUME NEW i \in DOMAIN HeldOps, NEW r \in {FAN1_PWM, FAN2_PWM}, i < HeldAt',
                 Sets(HeldOps[i], r)
          PROVE  Stored'[r] = HeldOps[i].val
      <3>1. CASE HeldOps[HeldAt].reg = r
        <4>1. Sets(HeldOps[HeldAt], r)
          BY <2>1, <3>1 DEF Sets
        <4>2. HeldOps[i].val = HeldOps[HeldAt].val
          BY <1>3, <2>1, <2>2, <4>1 DEF OneSpeed, SetsFan
        <4>3. Stored'[r] = HeldOps[HeldAt].val
          BY <2>1, <3>1, StoredType
        <4> QED
          BY <4>2, <4>3
      <3>2. CASE HeldOps[HeldAt].reg # r
        <4>1. i # HeldAt
          BY <2>2, <3>2 DEF Sets
        <4>2. i < HeldAt
          BY <1>2, <1>3, <2>1, <2>2, <4>1
        <4> QED
          BY <1>2, <2>1, <2>2, <3>2, <4>2, StoredType
      <3> QED
        BY <3>1, <3>2
    <2>3. (\A i \in DOMAIN HeldOps : ~SetsFan(HeldOps[i])) => Level'
      BY <1>2, <2>1, StoredType DEF Level, SetsFan, Sets
    <2> QED
      BY <1>2, <2>1, <2>2, <2>3 DEF PwmInv
  <1>6. CASE Registers!Read
    <2>1. /\ HeldAt \in DOMAIN HeldOps /\ HeldOps[HeldAt].op = READ_MEM
          /\ HeldOps' = HeldOps /\ HeldAt' = HeldAt + 1 /\ Stored' = Stored
      BY <1>3, <1>6 DEF Registers!Read, Registers!Due, HeldOps, HeldAt
    <2>2. \A r : ~Sets(HeldOps[HeldAt], r)
      BY <2>1 DEF Sets, READ_MEM, WRITE_MEM
    <2> QED
      BY <1>2, <1>3, <2>1, <2>2 DEF PwmInv, Level
  <1>7. CASE Registers!Return
    <2>1. /\ HeldAt = Len(HeldOps) + 1
          /\ HeldOps' = <<>> /\ HeldAt' = 1 /\ Stored' = Stored
      BY <1>7 DEF Registers!Return, HeldOps, HeldAt
    <2>2. Level
      <3>1. CASE \A i \in DOMAIN HeldOps : ~SetsFan(HeldOps[i])
        BY <1>2, <3>1
      <3>2. CASE ~\A i \in DOMAIN HeldOps : ~SetsFan(HeldOps[i])
        <4>1. PICK v \in 0 .. 198 :
                /\ \E i \in DOMAIN HeldOps : Sets(HeldOps[i], FAN1_PWM)
                /\ \E i \in DOMAIN HeldOps : Sets(HeldOps[i], FAN2_PWM)
                /\ \A i \in DOMAIN HeldOps : SetsFan(HeldOps[i]) => HeldOps[i].val = v
          BY <1>3, <3>2 DEF OneSpeed
        <4>2. Stored[FAN1_PWM] = v /\ Stored[FAN2_PWM] = v
          BY <1>2, <1>3, <2>1, <4>1 DEF SetsFan
        <4> QED
          BY <4>2 DEF Level
      <3> QED
        BY <3>1, <3>2
    <2> QED
      BY <2>1, <2>2 DEF PwmInv, Level
  <1>8. CASE Registers!GiveUp \/ Registers!Broken
    BY <1>8 DEF Registers!GiveUp, Registers!Broken
  <1>9. CASE UNCHANGED Registers!regVars
    <2>1. HeldOps' = HeldOps /\ HeldAt' = HeldAt /\ Stored' = Stored
      BY <1>9 DEF Registers!regVars, HeldOps, HeldAt
    <2> QED
      BY <1>2, <2>1 DEF PwmInv, Level
  <1> QED
    BY <1>4, <1>5, <1>6, <1>7, <1>8, <1>9 DEF Registers!RegNext

\* set_sys_fan: with any calls that set the speeds of both fans or none, both have
\* the same speed, below the limit, whenever no call holds the ports, unless the
\* controller did not answer in time.  It follows from what the registers promise
\* (EcRegisters), so that no byte of the handshake is part of the argument.
THEOREM FansAreTogether ==
  ASSUME {FAN1_PWM, FAN2_PWM} \subseteq Regs, SpeedsTogether
  PROVE  Spec => []FansTogether
  <1>1. Init => TypeInv /\ Handshake /\ PwmInv
    <2>1. Init => Stored = mem /\ holder = Nobody
      BY DEF Init, Stored, Empty
    <2>2. Init => PwmInv
      BY <2>1 DEF Init, PwmInv, HeldOps, HeldAt, Level
    <2> QED
      BY <2>2, TypeInit, HandshakeInit
  <1>2. TypeInv /\ Handshake /\ PwmInv /\ [Next]_vars => (TypeInv /\ Handshake /\ PwmInv)'
    BY TypeStep, HandshakeStep, RegistersStep, PwmStep
  <1>3. PwmInv => FansTogether
    BY DEF PwmInv, FansTogether, HeldOps, Level
  <1> QED
    BY <1>1, <1>2, <1>3, PTL DEF Spec

----------------------------------------------------------------------------
(* Nobody waits for good, and no call goes back.                           *)

\* Who holds the ports is inside a call; who is in none has none; the exit does
\* not ask for the ports.
HolderInside ==
  /\ holder # Nobody => pc[holder] \in {"poll", "move", "release"}
  /\ \A u \in Users : pc[u] = "idle" => call[u] = NoCall
  /\ pc[Exit] # "request"

LEMMA HolderInsideStep == TypeInv /\ HolderInside /\ [Next]_vars => HolderInside'
  <1> SUFFICES ASSUME TypeInv, HolderInside, [Next]_vars PROVE HolderInside'
    OBVIOUS
  <1>1. ThreadTypes /\ EcTypes /\ Users \subseteq Threads /\ Exit \in Threads
    BY TypeSplit DEF Threads
  <1>2. Exit \notin Users /\ Nobody \notin Users
    BY EcAssumption DEF Threads
  <1>3. ASSUME NEW t \in Threads, Exchange(t) PROVE HolderInside'
    <2>1. UNCHANGED <<holder, call>>
      BY <1>3 DEF Exchange, PollReady, PollAgain, PollTimeout, Send, Receive, NextOp, NextByte
    <2>2. \A s \in Threads \ {t} : pc'[s] = pc[s]
      BY <1>1, <1>3 DEF ThreadTypes, Exchange, PollReady, PollAgain, PollTimeout, Send, Receive,
         NextOp, NextByte
    <2>3. pc'[t] \in {"poll", "move", "release"}
      BY <1>1, <1>3 DEF ThreadTypes, Exchange, PollReady, PollAgain, PollTimeout, Send, Receive,
         NextOp, NextByte
    <2> QED
      BY <1>1, <2>1, <2>2, <2>3 DEF HolderInside, EcTypes
  <1>4. ASSUME NEW u \in Users,
               (\E c \in Calls : Begin(u, c)) \/ RequestPorts(u) \/ RequestRefused(u)
                 \/ ReleasePorts(u)
        PROVE  HolderInside'
    <2>1. /\ \A s \in Threads \ {u} : pc'[s] = pc[s] /\ call'[s] = call[s]
          /\ pc'[u] = "idle" => call'[u] = NoCall
      BY <1>1, <1>4 DEF ThreadTypes, Begin, RequestPorts, RequestRefused, ReleasePorts
    <2>2. \/ holder' = Nobody
          \/ holder' = u /\ pc'[u] = "poll"
          \/ holder' = holder /\ (holder = u => pc'[u] = "poll")
      BY <1>1, <1>4 DEF ThreadTypes, HolderInside, Begin, RequestPorts, RequestRefused,
         ReleasePorts
    <2> QED
      BY <1>1, <1>2, <2>1, <2>2 DEF HolderInside, EcTypes
  <1>5. CASE ExitBegin \/ RemoveEntry \/ ExitEnd \/ Load
    <2>1. /\ UNCHANGED holder /\ pc'[Exit] # "request"
          /\ \A u \in Users : pc'[u] = pc[u] /\ call'[u] = call[u]
      BY <1>1, <1>2, <1>5 DEF ThreadTypes, ExitBegin, RemoveEntry, ExitEnd, Load, threadVars
    <2> QED
      BY <1>1, <2>1 DEF HolderInside, EcTypes
  <1>6. CASE EcTake \/ EcAnswer \/ UNCHANGED vars
    BY <1>6 DEF HolderInside, EcTake, EcAnswer, vars, threadVars
  <1> QED
    BY <1>3, <1>4, <1>5, <1>6 DEF Next

\* The guards of a thread's next step.
Goes(t) ==
  \/ pc[t] = "poll" /\ (Ready(t) \/ left[t] > 1 \/ left[t] = 1)
  \/ pc[t] = "move"
  \/ pc[t] = "request" /\ holder = Nobody
  \/ pc[t] = "release" /\ (t = Exit => Drained)

\* Who has begun goes on; or waits for the ports, whose holder goes on; and the
\* exit waits for calls.
CallsGoOn ==
  \A t \in Threads : pc[t] # "idle" =>
    \/ Goes(t)
    \/ pc[t] = "request" /\ holder \in Users \ {t} /\ Goes(holder)
    \/ t = Exit /\ pc[t] = "release" /\ \E u \in Users : pc[u] # "idle"

\* Nobody waits for good, though the controller may hang and a request for the
\* ports be refused: ec_request_ports waits for calls that end, and the exit for
\* these.  It is the part of CallsReturn that needs no fairness.
THEOREM CallsAlwaysGoOn == Spec => []CallsGoOn
  <1>1. Init => HolderInside
    BY EcAssumption DEF Init, HolderInside, Threads
  <1>2. TypeInv /\ HolderInside => CallsGoOn
    <2> SUFFICES ASSUME TypeInv, HolderInside, NEW t \in Threads, pc[t] # "idle"
                 PROVE  \/ Goes(t)
                        \/ pc[t] = "request" /\ holder \in Users \ {t} /\ Goes(holder)
                        \/ t = Exit /\ pc[t] = "release" /\ \E u \in Users : pc[u] # "idle"
      BY DEF CallsGoOn
    <2>1. ThreadTypes /\ EcTypes /\ Tries \in Nat
      BY TypeSplit, EcAssumption
    <2>2. ASSUME NEW s \in Threads, pc[s] = "poll" PROVE Goes(s)
      <3>1. left[s] \in 1 .. Tries
        BY <2>1 DEF ThreadTypes
      <3> QED
        BY <2>1, <2>2, <3>1 DEF Goes
    <2>3. CASE pc[t] = "request" /\ holder # Nobody
      <3>1. holder \in Users /\ holder # t /\ holder \in Threads /\ holder # Exit
        BY <2>1, <2>3, EcAssumption DEF EcTypes, HolderInside, Threads
      <3>2. Goes(holder)
        BY <2>2, <2>3, <3>1 DEF HolderInside, Goes
      <3> QED
        BY <2>3, <3>1, <3>2
    <2>4. CASE pc[t] = "release" /\ t = Exit /\ ~Drained
      <3>1. PICK u \in Users : call[u].file \in 1 .. open - 1
        BY <2>4 DEF Drained
      <3>2. NoCall.file \notin 1 .. open - 1
        BY <2>1 DEF NoCall, CallOf, EcTypes
      <3>3. pc[u] # "idle"
        BY <3>1, <3>2 DEF HolderInside
      <3> QED
        BY <2>4, <3>3
    <2> QED
      BY <2>1, <2>2, <2>3, <2>4 DEF ThreadTypes, Goes
  <1> QED
    BY TypeInit, <1>1, TypeStep, HolderInsideStep, <1>2, PTL DEF Spec

\* The order of the bytes of an operation.
Sooner(b, c) ==
  \/ b = "cmd" /\ c \in {"addr", "val"}
  \/ b = "addr" /\ c = "val"

\* The call of t has got further: to a later operation, a later byte of it, from
\* the wait to the access, or to the next of finitely many polls.
Advances(t) ==
  \/ at'[t] > at[t] /\ at'[t] \leq Len(call[t].ops) + 1
  \/ /\ at'[t] = at[t]
     /\ \/ Sooner(byte[t], byte'[t])
        \/ /\ byte'[t] = byte[t] /\ pc[t] = "poll"
           /\ \/ pc'[t] = "move"
              \/ pc'[t] = "poll" /\ left'[t] < left[t] /\ left'[t] > 0
NoCallGoesBack == \A t \in Threads : Exchange(t) => Advances(t) /\ call'[t] = call[t]

\* Whatever the controller does, every step of a call takes it further towards
\* its end (ec_read_memory, ec_write_memory and their waits); with CallsAlwaysGoOn
\* this bounds each call by 3 * (Tries + 1) of its own steps for each operation.
THEOREM CallsAdvance == Spec => [][NoCallGoesBack]_vars
  <1>1. ASSUME TypeInv, NEW t \in Threads, Exchange(t)
        PROVE  Advances(t) /\ call'[t] = call[t]
    <2>1. /\ ThreadTypes /\ Running(t) /\ Tries \in Nat
          /\ at[t] \in 1 .. Len(call[t].ops) /\ Len(call[t].ops) \in Nat
      <3>1. Running(t)
        BY <1>1 DEF Exchange, PollReady, PollAgain, PollTimeout, Send, Receive, Running
      <3> QED
        BY <1>1, <3>1, OpTyped, TypeSplit, EcAssumption
    <2>2. left[t] \in 1 .. Tries /\ byte[t] \in {"cmd", "addr", "val"}
      BY <2>1 DEF ThreadTypes
    <2>3. CASE PollReady(t)
      BY <2>1, <2>3 DEF ThreadTypes, PollReady, Advances
    <2>4. CASE PollAgain(t)
      <3>1. left'[t] = left[t] - 1 /\ left[t] > 1 /\ UNCHANGED <<pc, at, byte, call>>
        BY <2>1, <2>4 DEF ThreadTypes, PollAgain
      <3> QED
        BY <2>2, <2>4, <3>1 DEF PollAgain, Advances
    <2>5. ASSUME NextOp(t) PROVE Advances(t) /\ call'[t] = call[t]
      <3>1. at'[t] = at[t] + 1 /\ UNCHANGED call
        BY <2>1, <2>5 DEF ThreadTypes, NextOp
      <3> QED
        BY <2>1, <3>1 DEF Advances
    <2>6. ASSUME NextByte(t), byte[t] # "val" PROVE Advances(t) /\ call'[t] = call[t]
      <3>1. /\ at'[t] = at[t] /\ UNCHANGED call
            /\ byte'[t] = IF byte[t] = "cmd" THEN "addr" ELSE "val"
        BY <2>1, <2>6 DEF ThreadTypes, NextByte
      <3> QED
        BY <2>2, <2>6, <3>1 DEF Advances, Sooner
    <2> QED
      BY <1>1, <2>3, <2>4, <2>5, <2>6 DEF Exchange, PollTimeout, Send, Receive
  <1>2. TypeInv /\ [Next]_vars => [NoCallGoesBack]_vars
    BY <1>1 DEF NoCallGoesBack
  <1> QED
    BY TypeInit, TypeStep, <1>2, PTL DEF Spec
===========================================================================
