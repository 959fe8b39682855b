----------------------------- MODULE EcMemory -----------------------------
(***************************************************************************)
(* Access to the embedded controller: it55_helper.c, and its users in      *)
(* ug_it55_functions.c and ug_it55pro_functions.c (/proc/it86 and the      *)
(* backlight).  Several callers, the exit of the module and the controller *)
(* run concurrently; the controller may be as slow as it likes.            *)
(***************************************************************************)
EXTENDS Integers, Sequences

CONSTANTS
  Users,      \* threads that use the files
  Exit,       \* the thread that unloads the module
  Nobody,     \* no holder of the ports
  Calls,      \* the calls that users make
  ExitOps,    \* what the exit writes; none if the module stays loaded
  Regs,       \* the controller's registers that these touch
  Tries,      \* EC_TIMEOUT_US, the polls of one wait
  Refusals    \* whether a request for the ports may fail

Threads == Users \cup {Exit}
Values == 0 .. 255   \* a byte

READ_MEM == 128      \* 0x80
WRITE_MEM == 129     \* 0x81

OpType == [op : {READ_MEM, WRITE_MEM}, reg : Regs, val : Values]

\* The entries of /proc/it86 and the backlight, in the order in which the exit
\* removes them.
Files == <<"fan", "startup", "pwr", "G3_wakeup", "Lan_wakeup", "backlight">>

ASSUME EcAssumption ==
  /\ Exit \notin Users /\ Nobody \notin Threads
  /\ Regs \subseteq Values /\ Regs # {}
  /\ \A c \in Calls : c.file \in 1 .. Len(Files) /\ c.ops \in Seq(OpType) \ {<<>>}
  /\ ExitOps \in Seq(OpType)
  /\ Tries \in Nat \ {0}
  /\ Refusals \in BOOLEAN

----------------------------------------------------------------------------
(* The calls, with the registers of ug_it55_functions.c; the backlight is  *)
(* that of ug_it55pro_functions.c, which has the same files otherwise.     *)

FAN1_MODE == 156
FAN1_PWM == 157
FAN2_MODE == 158
FAN2_PWM == 159
PWR_ENABLE == 170
PWR_VALUE == 169
G3_WAKEUP == 166
LAN_WAKEUP == 167
BKLT_PWM == 165

W(r, v) == [op |-> WRITE_MEM, reg |-> r, val |-> v]
R(r) == [op |-> READ_MEM, reg |-> r, val |-> 0]
CallOf(f, s) == [file |-> f, ops |-> s]

Limited(pwm) == IF pwm \geq 198 THEN 198 ELSE pwm

SetSysFan(pwm) ==
  CallOf(1, <<W(FAN1_MODE, 1), W(FAN1_PWM, Limited(pwm)),
              W(FAN2_MODE, 1), W(FAN2_PWM, Limited(pwm))>>)

PwrWrite(n) == CallOf(3, <<W(PWR_ENABLE, 1), W(PWR_VALUE, n)>>)
PwrRead == CallOf(3, <<R(PWR_VALUE)>>)
G3Write(n) == CallOf(4, <<W(G3_WAKEUP, n)>>)
G3Read == CallOf(4, <<R(G3_WAKEUP)>>)

\* The comparisons lack "== 0": "on" writes 0, all else writes 1.
LanWrite(n) == CallOf(5, <<W(LAN_WAKEUP, 1 - n)>>)
\* The register is that of G3_wakeup.
LanRead == CallOf(5, G3Read.ops)

UpdateStatus(n) == CallOf(6, <<W(BKLT_PWM, n)>>)

\* set_sys_fan alone sets the speeds of the fans, both and to the same value.
Sets(o, r) == o.op = WRITE_MEM /\ o.reg = r
SetsFan(o) == Sets(o, FAN1_PWM) \/ Sets(o, FAN2_PWM)
OneSpeed(s) ==
  \/ \A i \in DOMAIN s : ~SetsFan(s[i])
  \/ \E v \in 0 .. 198 : /\ \E i \in DOMAIN s : Sets(s[i], FAN1_PWM)
                         /\ \E i \in DOMAIN s : Sets(s[i], FAN2_PWM)
                         /\ \A i \in DOMAIN s : SetsFan(s[i]) => s[i].val = v
SpeedsTogether == \A c \in Calls : OneSpeed(c.ops)

\* functions_exit: the fans back to automatic.
FunctionsExit == <<W(FAN1_MODE, 0), W(FAN2_MODE, 0), W(PWR_ENABLE, 1)>>

----------------------------------------------------------------------------
VARIABLES
  mem, fw, addr,          \* controller: registers, state of the firmware
  input, obf, out,        \* input buffer; output buffer and its status bit
  holder,                 \* who holds the muxed region of the ports
  pc, call, at, byte, left, \* per thread: its step in its call
  got,                    \* what the call has read last
  open,                   \* the first file that is not removed yet
  gaveUp, late, broken    \* history: a wait ran out; one for an answer did;
                          \* the ports were used by who did not hold them

ecVars == <<mem, fw, addr, input, obf, out>>
threadVars == <<pc, call, at, byte, left>>
vars == <<mem, fw, addr, input, obf, out, holder, pc, call, at, byte, left,
          got, open, gaveUp, late, broken>>

NoCall == CallOf(0, <<>>)

----------------------------------------------------------------------------
(* The controller.                                                         *)

\* The input buffer is empty, the status bit EC_S_IBF is clear.
Empty == [port |-> "none", val |-> 0]

\* It takes what was sent: a command begins anew, whatever came before; an
\* address or a value goes where the command said; other bytes are dropped.
EcTake ==
  /\ input # Empty /\ fw # "answer" /\ input' = Empty
  /\ \/ /\ input.port = "C"
        /\ fw' = IF input.val = READ_MEM THEN "raddr" ELSE "waddr"
        /\ addr' = 0 /\ UNCHANGED mem
     \/ /\ input.port = "D" /\ fw = "raddr"
        /\ fw' = "answer" /\ addr' = input.val /\ UNCHANGED mem
     \/ /\ input.port = "D" /\ fw = "waddr"
        /\ fw' = "wval" /\ addr' = input.val /\ UNCHANGED mem
     \/ /\ input.port = "D" /\ fw = "wval"
        /\ mem' = [r \in Regs |-> IF r = addr THEN input.val ELSE mem[r]]
        /\ fw' = "idle" /\ addr' = 0
     \/ input.port = "D" /\ fw = "idle" /\ UNCHANGED <<fw, addr, mem>>
  /\ UNCHANGED <<obf, out, holder, threadVars, got, open, gaveUp, late, broken>>

EcAnswer ==
  /\ fw = "answer"
  /\ out' = (IF addr \in Regs THEN mem[addr] ELSE 0) /\ obf' = TRUE
  /\ fw' = "idle" /\ addr' = 0
  /\ UNCHANGED <<mem, input, holder, threadVars, got, open, gaveUp, late, broken>>

----------------------------------------------------------------------------
(* A call.                                                                 *)

Op(t) == call[t].ops[at[t]]
Receiving(t) == Op(t).op = READ_MEM /\ byte[t] = "val"

\* The first byte of the next operation, or the end of the call.
NextOp(t) ==
  /\ at' = [at EXCEPT ![t] = @ + 1]
  /\ byte' = [byte EXCEPT ![t] = "cmd"]
  /\ left' = [left EXCEPT ![t] = Tries]
  /\ pc' = [pc EXCEPT ![t] = IF at[t] < Len(call[t].ops) THEN "poll" ELSE "release"]
  /\ UNCHANGED call

NextByte(t) ==
  /\ byte' = [byte EXCEPT ![t] = IF @ = "cmd" THEN "addr" ELSE "val"]
  /\ left' = [left EXCEPT ![t] = Tries]
  /\ pc' = [pc EXCEPT ![t] = "poll"]
  /\ UNCHANGED <<call, at>>

Begin(u, c) ==
  /\ pc[u] = "idle" /\ c.file \geq open
  /\ pc' = [pc EXCEPT ![u] = "request"] /\ call' = [call EXCEPT ![u] = c]
  /\ UNCHANGED <<ecVars, holder, at, byte, left, got, open, gaveUp, late, broken>>

\* Defect: the region is not exclusive.
RequestPortsShared(u) ==
  /\ pc[u] = "request"
  /\ holder' = u
  /\ pc' = [pc EXCEPT ![u] = "poll"]
  /\ UNCHANGED <<ecVars, call, at, byte, left, got, open, gaveUp, late, broken>>

\* ec_request_ports: the muxed region waits for its holder.
RequestPorts(u) ==
  /\ pc[u] = "request" /\ holder = Nobody
  /\ holder' = u
  /\ pc' = [pc EXCEPT ![u] = "poll"]
  /\ UNCHANGED <<ecVars, call, at, byte, left, got, open, gaveUp, late, broken>>

\* It fails, and no caller looks at that.
RequestRefused(u) ==
  /\ pc[u] = "request" /\ Refusals
  /\ pc' = [pc EXCEPT ![u] = "poll"] /\ broken' = TRUE
  /\ UNCHANGED <<ecVars, holder, call, at, byte, left, got, open, gaveUp, late>>

\* Defect: an answer is not waited for.
ReadyTooSoon(t) == Receiving(t) \/ input = Empty

\* The status read: input buffer empty to send, output buffer full to receive.
Ready(t) == IF Receiving(t) THEN obf ELSE input = Empty

PollReady(t) ==
  /\ pc[t] = "poll" /\ Ready(t)
  /\ pc' = [pc EXCEPT ![t] = "move"]
  /\ UNCHANGED <<ecVars, holder, call, at, byte, left, got, open, gaveUp, late, broken>>

\* Defect: the polls are not counted.
PollAgainForever(t) ==
  /\ pc[t] = "poll" /\ ~Ready(t)
  /\ UNCHANGED vars

PollAgain(t) ==
  /\ pc[t] = "poll" /\ ~Ready(t) /\ left[t] > 1
  /\ left' = [left EXCEPT ![t] = @ - 1]
  /\ UNCHANGED <<ecVars, holder, pc, call, at, byte, got, open, gaveUp, late, broken>>

\* -ETIMEDOUT: the operation is given up, and the caller goes on to the next.
PollTimeout(t) ==
  /\ pc[t] = "poll" /\ ~Ready(t) /\ left[t] = 1
  /\ NextOp(t)
  /\ gaveUp' = TRUE /\ late' = (late \/ Receiving(t))
  /\ UNCHANGED <<ecVars, holder, got, open, broken>>

Sent(t) ==
  IF byte[t] = "cmd" THEN [port |-> "C", val |-> Op(t).op]
  ELSE [port |-> "D", val |-> IF byte[t] = "addr" THEN Op(t).reg ELSE Op(t).val]

\* outb of the command, the address or the value.
Send(t) ==
  /\ pc[t] = "move" /\ ~Receiving(t)
  /\ input' = Sent(t)
  /\ IF byte[t] = "val" THEN NextOp(t) ELSE NextByte(t)
  /\ UNCHANGED <<mem, fw, addr, obf, out, holder, got, open, gaveUp, late, broken>>

\* inb of the answer.
Receive(t) ==
  /\ pc[t] = "move" /\ Receiving(t)
  /\ got' = out /\ obf' = FALSE
  /\ NextOp(t)
  /\ UNCHANGED <<mem, fw, addr, input, out, holder, open, gaveUp, late, broken>>

\* ec_release_ports frees the region, whoever holds it.
ReleasePorts(u) ==
  /\ pc[u] = "release"
  /\ holder' = Nobody /\ got' = 0
  /\ pc' = [pc EXCEPT ![u] = "idle"] /\ call' = [call EXCEPT ![u] = NoCall]
  /\ at' = [at EXCEPT ![u] = 1]
  /\ UNCHANGED <<ecVars, byte, left, open, gaveUp, late, broken>>

Exchange(t) == PollReady(t) \/ PollAgain(t) \/ PollTimeout(t) \/ Send(t) \/ Receive(t)

----------------------------------------------------------------------------
(* Unloading.                                                              *)

\* functions_exit does not request the ports.
ExitBegin ==
  /\ pc[Exit] = "idle" /\ open = 1 /\ ExitOps # <<>>
  /\ pc' = [pc EXCEPT ![Exit] = "poll"] /\ call' = [call EXCEPT ![Exit] = CallOf(0, ExitOps)]
  /\ broken' = TRUE
  /\ UNCHANGED <<ecVars, holder, at, byte, left, got, open, gaveUp, late>>

\* The calls of the entries that were removed have returned.
Drained == \A u \in Users : call[u].file \notin 1 .. open - 1

\* remove_proc_entry of one entry after the other: no more calls begin, and
\* those inside are waited for.
RemoveEntry ==
  /\ pc[Exit] = "release" /\ open \leq Len(Files) /\ Drained
  /\ open' = open + 1
  /\ UNCHANGED <<ecVars, holder, threadVars, got, gaveUp, late, broken>>

ExitEnd ==
  /\ pc[Exit] = "release" /\ open > Len(Files) /\ Drained
  /\ pc' = [pc EXCEPT ![Exit] = "idle"] /\ call' = [call EXCEPT ![Exit] = NoCall]
  /\ at' = [at EXCEPT ![Exit] = 1]
  /\ UNCHANGED <<ecVars, holder, byte, left, got, open, gaveUp, late, broken>>

\* The module is loaded again.
Load ==
  /\ pc[Exit] = "idle" /\ open > Len(Files)
  /\ open' = 1
  /\ UNCHANGED <<ecVars, holder, threadVars, got, gaveUp, late, broken>>

----------------------------------------------------------------------------
Init ==
  /\ mem = [r \in Regs |-> 0] /\ fw = "idle" /\ addr = 0
  /\ input = Empty /\ obf = FALSE /\ out = 0
  /\ holder = Nobody
  /\ pc = [t \in Threads |-> "idle"] /\ call = [t \in Threads |-> NoCall]
  /\ at = [t \in Threads |-> 1] /\ byte = [t \in Threads |-> "cmd"]
  /\ left = [t \in Threads |-> Tries]
  /\ got = 0 /\ open = 1
  /\ gaveUp = FALSE /\ late = FALSE /\ broken = FALSE

Next ==
  \/ EcTake \/ EcAnswer
  \/ \E t \in Threads : Exchange(t)
  \/ \E u \in Users : \/ \E c \in Calls : Begin(u, c)
                      \/ RequestPorts(u) \/ RequestRefused(u) \/ ReleasePorts(u)
  \/ ExitBegin \/ RemoveEntry \/ ExitEnd \/ Load

Spec == Init /\ [][Next]_vars

\* Code that runs goes on; a muxed region that becomes free again and again is
\* got in the end.  Nothing is assumed of the controller, which may hang.
Fairness ==
  /\ \A t \in Threads : WF_vars(Exchange(t))
  /\ \A u \in Users : SF_vars(RequestPorts(u)) /\ WF_vars(ReleasePorts(u))
  /\ WF_vars(RemoveEntry) /\ WF_vars(ExitEnd)

FairSpec == Spec /\ Fairness

----------------------------------------------------------------------------
TypeOK ==
  /\ mem \in [Regs -> Values]
  /\ fw \in {"idle", "raddr", "waddr", "wval", "answer"} /\ addr \in Values
  /\ input \in [port : {"none", "C", "D"}, val : Values]
  /\ obf \in BOOLEAN /\ out \in Values
  /\ holder \in Users \cup {Nobody}
  /\ pc \in [Threads -> {"idle", "request", "poll", "move", "release"}]
  /\ call \in [Threads -> Calls \cup {NoCall, CallOf(0, ExitOps)}]
  /\ byte \in [Threads -> {"cmd", "addr", "val"}] /\ left \in [Threads -> 1 .. Tries]
  /\ at \in [Threads -> Nat \ {0}]
  /\ \A t \in Threads : pc[t] \in {"poll", "move"} => at[t] \leq Len(call[t].ops)
  /\ got \in Values /\ open \in 1 .. Len(Files) + 1
  /\ gaveUp \in BOOLEAN /\ late \in BOOLEAN /\ broken \in BOOLEAN

----------------------------------------------------------------------------
(* The registers, as the callers see them.                                 *)

\* A value that has been sent counts, although the controller has yet to take it.
Stored == IF input.port = "D" /\ fw = "wval"
          THEN [r \in Regs |-> IF r = addr THEN input.val ELSE mem[r]] ELSE mem

Registers == INSTANCE EcRegisters WITH
  mem <- Stored, Zero <- 0,
  OpLists <- {c.ops : c \in Calls},
  ops <- IF holder = Nobody THEN <<>> ELSE call[holder].ops,
  at <- IF holder = Nobody THEN 1 ELSE at[holder]

\* it55_helper.c implements registers that are read and written one at a time,
\* however slow the controller is, whatever waits run out and whoever takes the
\* ports next: no byte of one operation is ever taken for one of another, and
\* a read returns what was written last, unless an earlier one was given up.
Implements == Registers!RegSpec

\* set_sys_fan: between two calls both fans have the same speed, one below the
\* limit, unless the controller did not answer in time.
FansTogether ==
  ~broken /\ ~gaveUp /\ holder = Nobody =>
    Stored[FAN1_PWM] = Stored[FAN2_PWM] /\ Stored[FAN1_PWM] \leq 198

\* The comment in functions_exit: the fans are switched to automatic, no lock is
\* necessary; so they are when the module is gone.
FansAutomatic ==
  open > Len(Files) /\ pc[Exit] = "idle" /\ ~gaveUp =>
    Stored[FAN1_MODE] = 0 /\ Stored[FAN2_MODE] = 0

\* Every call returns, and so does the exit, even if the controller has hung.
CallsReturn == \A t \in Threads : (pc[t] # "idle") ~> (pc[t] = "idle")
=============================================================================
