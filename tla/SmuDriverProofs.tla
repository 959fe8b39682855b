-------------------------- MODULE SmuDriverProofs --------------------------
(***************************************************************************)
(* Theorems about the SMU driver.  SmuMailbox, for any users, mailboxes    *)
(* and numbers of attempts: the variables keep their types, every transfer *)
(* of data meets the register it is meant for, a command reads its own     *)
(* answer, the commands are those of SmuCommands, one at a time, and no    *)
(* caller waits for good for another.  Smu, for any processors, versions   *)
(* of their tables and readers, and any number of bindings: in the first   *)
(* one a PM table fits its buffer, and in all of them a reader's page,     *)
(* unless it is one of the tables that are longer than a page.             *)
(***************************************************************************)
EXTENDS SmuDriver, Sequences, TLAPS

\* The steps of smu_send_command that hold amd_smu_mutex.
InCommand == {"wait1", "clear", "args", "cmd", "wait2", "fetch"}

\* The mutex is held by the one thread that is inside a command, whose mailbox
\* is one that the processor has.
LockHeld ==
  \A t \in Users : /\ pc[t] \in InCommand => smuLock = t
                   /\ pc[t] \in InCommand \cup {"lock"} => mb[t] \in Mailboxes

\* One thread is between an address and its data, and about to use the register.
OneInWindow ==
  /\ \A t \in inWindow : pc[t] \in Accessing /\ addrReg = Target(t)
  /\ \A t, u \in inWindow : t = u

\* A response means that the firmware has no command to work on.
Responded == \A m \in Mailboxes : rsp[m] # "zero" => job[m] = NoJob

\* What a thread inside a command knows of its mailbox.
Progress(t) ==
  /\ pc[t] = "clear" => job[mb[t]] = NoJob
  /\ pc[t] \in {"args", "cmd"} => job[mb[t]] = NoJob /\ rsp[mb[t]] = "zero"
  /\ pc[t] = "cmd" => args[mb[t]] = Request(t)
  /\ pc[t] = "wait2" =>
       \/ job[mb[t]] = Request(t) /\ rsp[mb[t]] = "zero"
       \/ job[mb[t]] = NoJob /\ args[mb[t]] = [kind |-> "answer", of |-> t]
  /\ pc[t] = "fetch" =>
       job[mb[t]] = NoJob /\ args[mb[t]] = [kind |-> "answer", of |-> t]

Exchange == spoiled \/ (Responded /\ \A t \in Users : Progress(t))

IInv == TypeOK /\ LockHeld /\ OneInWindow /\ Exchange

----------------------------------------------------------------------------
LEMMA TokenTypes ==
  /\ NoJob \in Tokens
  /\ \A t \in Users : Request(t) \in Tokens /\ Request(t) # NoJob
  /\ \A q \in Tokens : AnswerTo(q) \in Tokens
  /\ \A t \in Users : AnswerTo(Request(t)) = [kind |-> "answer", of |-> t]
BY DEF NoJob, Tokens, Request, AnswerTo

LEMMA Wraps == (0 - 1) % RetryMod \in 0 .. RetryMod - 1
BY SmuAssumption

LEMMA InvInit == Init => IInv
  <1> SUFFICES ASSUME Init PROVE IInv
    OBVIOUS
  <1>1. TypeOK
    <2>1. NoJob \in Tokens
      BY TokenTypes
    <2>2. 0 \in 0 .. RetryMod - 1
      BY SmuAssumption
    <2>3. <<"smn", None>> \in Registers
      BY DEF Registers
    <2> QED
      BY <2>1, <2>2, <2>3 DEF Init, TypeOK, Responses, Results
  <1>2. LockHeld
    BY DEF Init, LockHeld, InCommand
  <1>3. OneInWindow
    BY DEF Init, OneInWindow
  <1>4. Exchange
    BY DEF Init, Exchange, Responded, Progress
  <1> QED
    BY <1>1, <1>2, <1>3, <1>4 DEF IInv

----------------------------------------------------------------------------
(* Types.                                                                  *)

LEMMA PollTypes ==
  ASSUME TypeOK, NEW t \in Users,
         (PollAgain(t) /\ UNCHANGED spoiled) \/ PollEnds(t)
  PROVE  retries' \in [Users -> 0 .. RetryMod - 1] /\ spoiled' \in BOOLEAN
  <1>1. retries \in [Users -> 0 .. RetryMod - 1] /\ spoiled \in BOOLEAN
    BY DEF TypeOK
  <1>2. CASE PollAgain(t) /\ UNCHANGED spoiled
    <2>1. retries[t] - 1 \in 0 .. RetryMod - 1
      BY <1>1, <1>2, SmuAssumption DEF PollAgain
    <2> QED
      BY <1>1, <1>2, <2>1 DEF PollAgain
  <1>3. CASE PollEnds(t)
    <2>1. CASE UNCHANGED <<retries, spoiled>>
      BY <1>1, <2>1
    <2>2. CASE retries[t] = 0 /\ retries' = [retries EXCEPT ![t] = (@ - 1) % RetryMod] /\ spoiled'
      <3>1. (retries[t] - 1) % RetryMod \in 0 .. RetryMod - 1
        BY <2>2, Wraps
      <3> QED
        BY <1>1, <2>2, <3>1
    <2>3. spoiled' = TRUE => spoiled' \in BOOLEAN
      OBVIOUS
    <2> QED
      BY <1>3, <2>1, <2>2, <2>3 DEF PollEnds
  <1> QED
    BY <1>2, <1>3

LEMMA TypeStep == TypeOK /\ LockHeld /\ [Next]_vars => TypeOK'
  <1> SUFFICES ASSUME TypeOK, LockHeld, [Next]_vars PROVE TypeOK'
    OBVIOUS
  <1> USE DEF mailVars, Goto, SmnData, SmnError
  <1>1. ASSUME NEW t \in Users, Proceed(t) PROVE TypeOK'
    <2>1. pc[t] \in InCommand => mb[t] \in Mailboxes
      BY DEF LockHeld
    <2>3. CASE Wait1(t)
      <3>1. retries' \in [Users -> 0 .. RetryMod - 1] /\ spoiled' \in BOOLEAN
        BY <2>3, PollTypes DEF Wait1
      <3>2. tmp' \in [Users -> Responses]
        BY <2>1, <2>3 DEF TypeOK, Wait1, InCommand
      <3> QED
        BY <3>1, <3>2, <2>3 DEF TypeOK, Wait1, Leave, Accessing, Results
    <2>4. CASE ClearRsp(t) \/ WriteIgnored(t) \/ SmnDone(t)
      BY <2>4 DEF TypeOK, ClearRsp, WriteIgnored, SmnDone, Accessing, Results, Responses
    <2>5. CASE WriteArgs(t)
      BY <2>5, TokenTypes DEF TypeOK, WriteArgs, Accessing
    <2>6. CASE WriteCmd(t)
      BY <2>1, <2>6 DEF TypeOK, WriteCmd, Accessing, InCommand
    <2>7. CASE Wait2(t)
      <3>1. retries' \in [Users -> 0 .. RetryMod - 1] /\ spoiled' \in BOOLEAN
        BY <2>7, PollTypes DEF Wait2
      <3>2. tmp' \in [Users -> Responses] /\ tmp'[t] \in Responses
        BY <2>1, <2>7 DEF TypeOK, Wait2, InCommand
      <3>3. ret' \in [Users -> Results]
        BY <3>2, <2>7 DEF TypeOK, Wait2, Leave, Results, Responses
      <3> QED
        BY <3>1, <3>2, <3>3, <2>7 DEF TypeOK, Wait2, Leave, Accessing
    <2>8. CASE PollFails(t) \/ Fetch(t)
      BY <2>8 DEF TypeOK, PollFails, Fetch, Leave, Results
    <2>9. CASE Reply(t)
      <3>1. 0 \in 0 .. RetryMod - 1
        BY SmuAssumption
      <3> QED
        BY <3>1, <2>9 DEF TypeOK, Reply, Results, Responses
    <2> QED
      BY <1>1, <2>3, <2>4, <2>5, <2>6, <2>7, <2>8, <2>9 DEF Proceed
  <1>2. ASSUME NEW t \in Users, SendCommand(t) PROVE TypeOK'
    BY <1>2, SmuAssumption DEF TypeOK, SendCommand, Accessing
  <1>3. ASSUME NEW t \in Users, SmnAddress(t) PROVE TypeOK'
    <2>1. Target(t) \in Registers
      BY <1>3 DEF LockHeld, InCommand, Target, Registers
    <2> QED
      BY <2>1, <1>3 DEF TypeOK, SmnAddress, PciLock
  <1>4. ASSUME NEW t \in Users, Begin(t) PROVE TypeOK'
    BY <1>4 DEF TypeOK, Begin, SmnStore, CmdStore, Accessing, Results
  <1>5. ASSUME NEW m \in Mailboxes, Answer(m) PROVE TypeOK'
    <2>1. AnswerTo(job[m]) \in Tokens /\ NoJob \in Tokens
      BY TokenTypes DEF TypeOK
    <2> QED
      BY <2>1, <1>5 DEF TypeOK, Answer
  <1>6. CASE UNCHANGED vars
    BY <1>6 DEF TypeOK, vars, Target
  <1> QED
    BY <1>1, <1>2, <1>3, <1>4, <1>5, <1>6 DEF Next

----------------------------------------------------------------------------
(* The two mutexes.                                                        *)

LEMMA LockStep == TypeOK /\ LockHeld /\ [Next]_vars => LockHeld'
  <1> SUFFICES ASSUME TypeOK, LockHeld, [Next]_vars PROVE LockHeld'
    OBVIOUS
  <1> USE DEF mailVars, Goto, SmnData, SmnError, InCommand
  <1>1. ASSUME NEW t \in Users, Proceed(t) PROVE LockHeld'
    <2>1. CASE Wait1(t)
      BY <2>1 DEF TypeOK, LockHeld, Wait1, Leave
    <2>2. CASE ClearRsp(t) \/ WriteIgnored(t) \/ WriteArgs(t) \/ WriteCmd(t)
      BY <2>2 DEF TypeOK, LockHeld, ClearRsp, WriteIgnored, WriteArgs, WriteCmd
    <2>3. CASE Wait2(t)
      BY <2>3 DEF TypeOK, LockHeld, Wait2, Leave
    <2>4. CASE PollFails(t) \/ Fetch(t)
      BY <2>4 DEF TypeOK, LockHeld, PollFails, Fetch, Leave
    <2>5. CASE SmnDone(t) \/ Reply(t)
      BY <2>5 DEF TypeOK, LockHeld, SmnDone, Reply
    <2> QED
      BY <1>1, <2>1, <2>2, <2>3, <2>4, <2>5 DEF Proceed
  <1>2. ASSUME NEW t \in Users, SendCommand(t) PROVE LockHeld'
    BY <1>2, SmuAssumption DEF TypeOK, LockHeld, SendCommand
  <1>3. ASSUME NEW t \in Users, SmnAddress(t) PROVE LockHeld'
    BY <1>3 DEF LockHeld, SmnAddress
  <1>4. ASSUME NEW t \in Users, Begin(t) PROVE LockHeld'
    BY <1>4 DEF TypeOK, LockHeld, Begin, SmnStore, CmdStore
  <1>5. ASSUME NEW m \in Mailboxes, Answer(m) PROVE LockHeld'
    BY <1>5 DEF LockHeld, Answer
  <1>6. CASE UNCHANGED vars
    BY <1>6 DEF LockHeld, vars
  <1> QED
    BY <1>1, <1>2, <1>3, <1>4, <1>5, <1>6 DEF Next

\* A thread in the window goes on by its transfer of data alone.
LEMMA WindowStep == TypeOK /\ OneInWindow /\ [Next]_vars => OneInWindow'
  <1> SUFFICES ASSUME TypeOK, OneInWindow, [Next]_vars PROVE OneInWindow'
    OBVIOUS
  <1> USE DEF mailVars, Goto, Accessing
  <1>1. ASSUME NEW t \in Users, inWindow' = inWindow \ {t}, UNCHANGED addrReg,
               \A u \in inWindow \ {t} : pc'[u] = pc[u] /\ mb'[u] = mb[u]
        PROVE OneInWindow'
    BY <1>1 DEF OneInWindow, Target
  <1>2. ASSUME NEW t \in Users, SmnData(t), Proceed(t) PROVE OneInWindow'
    <2>1. \A u \in Users \ {t} : pc'[u] = pc[u] /\ mb'[u] = mb[u]
      BY <1>2 DEF TypeOK, Proceed, Wait1, ClearRsp, WriteArgs, WriteCmd, WriteIgnored, Wait2,
         PollFails, Fetch, SmnDone, Reply, Leave
    <2> QED
      BY <1>1, <1>2, <2>1 DEF SmnData, TypeOK
  <1>3. ASSUME NEW t \in Users, Reply(t) \/ SendCommand(t) \/ Begin(t) PROVE OneInWindow'
    <2>1. t \notin inWindow
      BY <1>3 DEF OneInWindow, Reply, SendCommand, Begin, SmnStore, CmdStore
    <2>2. UNCHANGED <<addrReg, inWindow>>
      BY <1>3 DEF Reply, SendCommand, Begin, SmnStore, CmdStore
    <2>3. \A u \in Users \ {t} : pc'[u] = pc[u] /\ mb'[u] = mb[u]
      BY <1>3 DEF TypeOK, Reply, SendCommand, Begin, SmnStore, CmdStore
    <2> QED
      BY <1>1, <2>1, <2>2, <2>3 DEF TypeOK
  <1>4. ASSUME NEW t \in Users, SmnAddress(t) PROVE OneInWindow'
    BY <1>4 DEF OneInWindow, SmnAddress, PciLock, Target
  <1>5. ASSUME NEW m \in Mailboxes, Answer(m) PROVE OneInWindow'
    BY <1>5 DEF OneInWindow, Answer, Target
  <1>6. CASE UNCHANGED vars
    BY <1>6 DEF OneInWindow, vars, Target
  <1>7. ASSUME NEW t \in Users, Proceed(t) PROVE SmnData(t) \/ Reply(t)
    BY <1>7 DEF Proceed, Wait1, ClearRsp, WriteArgs, WriteCmd, WriteIgnored, Wait2,
       PollFails, Fetch, SmnDone, SmnError
  <1> QED
    BY <1>2, <1>3, <1>4, <1>5, <1>6, <1>7 DEF Next

----------------------------------------------------------------------------
(* The exchange with the firmware.                                         *)

\* A step of the thread that holds amd_smu_mutex: the others are in no command.
LEMMA AloneInCommand ==
  ASSUME LockHeld, NEW t \in Users, pc[t] \in InCommand,
         \A u \in Users \ {t} : pc'[u] = pc[u],
         Progress(t)'
  PROVE  \A u \in Users : Progress(u)'
BY DEF LockHeld, Progress, InCommand

\* A step that is of no command leaves what the threads in one know.
LEMMA OutsideCommand ==
  ASSUME \A u \in Users : Progress(u), UNCHANGED mailVars,
         \A u \in Users : pc'[u] \in InCommand => pc'[u] = pc[u] \/ pc'[u] = "wait1",
         \A u \in Users : pc'[u] \in InCommand => mb'[u] = mb[u]
  PROVE  \A u \in Users : Progress(u)'
  <1> SUFFICES ASSUME NEW u \in Users PROVE Progress(u)'
    OBVIOUS
  <1>1. CASE pc'[u] \notin InCommand \/ pc'[u] = "wait1"
    BY <1>1 DEF Progress, InCommand
  <1>2. CASE pc'[u] \in InCommand /\ pc'[u] = pc[u]
    <2>1. mb'[u] = mb[u] /\ rsp' = rsp /\ args' = args /\ job' = job
      BY <1>2 DEF mailVars
    <2> QED
      BY <1>2, <2>1 DEF Progress
  <1> QED
    BY <1>1, <1>2

LEMMA ExchangeStep ==
  TypeOK /\ LockHeld /\ Exchange /\ [Next]_vars => Exchange'
  <1> SUFFICES ASSUME TypeOK, LockHeld, Exchange, [Next]_vars, ~spoiled' PROVE Exchange'
    BY DEF Exchange
  <1> USE DEF mailVars, Goto, SmnData, SmnError
  <1>0. ~spoiled
    BY DEF TypeOK, Next, Proceed, Begin, SendCommand, SmnAddress, Wait1, ClearRsp, WriteArgs,
       WriteCmd, WriteIgnored, Wait2, PollEnds, PollFails, Fetch, SmnDone, Reply, SmnStore,
       CmdStore, Answer, vars
  <1>1. Responded /\ \A t \in Users : Progress(t)
    BY <1>0 DEF Exchange
  <1>2. ASSUME NEW t \in Users, Wait1(t) PROVE Exchange'
    <2>1. UNCHANGED mailVars /\ \A u \in Users \ {t} : pc'[u] = pc[u]
      BY <1>2 DEF TypeOK, Wait1, Leave
    <2>2. mb[t] \in Mailboxes
      BY <1>2 DEF LockHeld, Wait1, InCommand
    <2>3. UNCHANGED mb /\ pc'[t] \in {"wait1", "clear", "ret"}
      BY <1>2 DEF TypeOK, Wait1, Leave
    <2>4. pc'[t] = "clear" => rsp[mb[t]] # "zero"
      BY <1>2, <1>0 DEF TypeOK, Wait1, Leave, PollEnds
    <2>5. Progress(t)'
      BY <1>1, <2>1, <2>2, <2>3, <2>4 DEF Progress, Responded
    <2>6. \A u \in Users : Progress(u)'
      BY <1>2, <2>1, <2>5, AloneInCommand DEF Wait1, InCommand
    <2> QED
      BY <1>1, <2>1, <2>6 DEF Exchange, Responded
  <1>3. ASSUME NEW t \in Users, ClearRsp(t) \/ WriteArgs(t) \/ WriteCmd(t) PROVE Exchange'
    <2>1. \A u \in Users \ {t} : pc'[u] = pc[u]
      BY <1>3 DEF TypeOK, ClearRsp, WriteArgs, WriteCmd
    <2>2. mb[t] \in Mailboxes /\ UNCHANGED mb
      BY <1>3 DEF LockHeld, ClearRsp, WriteArgs, WriteCmd, InCommand
    <2>3. Progress(t)' /\ Responded'
      <3>1. CASE ClearRsp(t)
        BY <3>1, <1>1, <2>2 DEF TypeOK, ClearRsp, Progress, Responded
      <3>2. CASE WriteArgs(t)
        BY <3>2, <1>1, <2>2 DEF TypeOK, WriteArgs, Progress, Responded
      <3>3. CASE WriteCmd(t)
        BY <3>3, <1>1, <2>2 DEF TypeOK, WriteCmd, Progress, Responded
      <3> QED
        BY <1>3, <3>1, <3>2, <3>3
    <2>4. \A u \in Users : Progress(u)'
      BY <1>3, <2>1, <2>3, AloneInCommand DEF ClearRsp, WriteArgs, WriteCmd, InCommand
    <2> QED
      BY <2>3, <2>4 DEF Exchange
  <1>4. ASSUME NEW t \in Users, Wait2(t) PROVE Exchange'
    <2>1. UNCHANGED mailVars /\ \A u \in Users \ {t} : pc'[u] = pc[u]
      BY <1>4 DEF TypeOK, Wait2, Leave
    <2>2. UNCHANGED mb /\ pc'[t] \in {"wait2", "fetch", "ret"} /\ pc[t] = "wait2"
      BY <1>4 DEF TypeOK, Wait2, Leave
    <2>3. pc'[t] = "fetch" => rsp[mb[t]] # "zero"
      BY <1>4, <1>0 DEF TypeOK, Wait2, Leave, PollEnds
    <2>4. Progress(t)'
      BY <1>1, <2>1, <2>2, <2>3 DEF Progress
    <2>5. \A u \in Users : Progress(u)'
      BY <2>1, <2>2, <2>4, AloneInCommand DEF InCommand
    <2> QED
      BY <1>1, <2>1, <2>5 DEF Exchange, Responded
  <1>5. ASSUME NEW t \in Users,
               PollFails(t) \/ Fetch(t) \/ SmnDone(t) \/ Reply(t) \/ SendCommand(t)
                 \/ SmnAddress(t) \/ Begin(t)
        PROVE Exchange'
    <2>1. UNCHANGED mailVars
      BY <1>5 DEF PollFails, Fetch, SmnDone, Reply, SendCommand, SmnAddress, Begin, SmnStore,
         CmdStore
    <2>2. \A u \in Users : pc'[u] \in InCommand => pc'[u] = pc[u] \/ pc'[u] = "wait1"
      BY <1>5 DEF TypeOK, PollFails, Fetch, SmnDone, Reply, SendCommand, SmnAddress, Begin,
         SmnStore, CmdStore, Leave, InCommand
    <2>3. \A u \in Users : pc'[u] \in InCommand => mb'[u] = mb[u]
      BY <1>5 DEF TypeOK, PollFails, Fetch, SmnDone, Reply, SendCommand, SmnAddress, Begin,
         SmnStore, CmdStore, Leave, InCommand
    <2>4. \A u \in Users : Progress(u)'
      BY <1>1, <2>1, <2>2, <2>3, OutsideCommand
    <2> QED
      BY <1>1, <2>1, <2>4 DEF Exchange, Responded
  <1>6. ASSUME NEW t \in Users, WriteIgnored(t) PROVE Exchange'
    BY <1>6 DEF WriteIgnored
  <1>7. ASSUME NEW m \in Mailboxes, Answer(m) PROVE Exchange'
    <2>1. UNCHANGED <<pc, mb>>
      BY <1>7 DEF Answer
    <2>2. ASSUME NEW t \in Users, pc[t] \in InCommand PROVE Progress(t)'
      <3>1. mb[t] \in Mailboxes
        BY <2>2 DEF LockHeld
      <3>2. CASE mb[t] # m
        BY <3>1, <3>2, <1>1, <1>7 DEF TypeOK, Answer, Progress
      <3>3. CASE mb[t] = m
        <4>1. job[m] # NoJob /\ job'[m] = NoJob /\ args'[m] = AnswerTo(job[m])
          BY <1>7 DEF TypeOK, Answer
        <4>2. Progress(t) /\ AnswerTo(Request(t)) = [kind |-> "answer", of |-> t]
          BY <1>1, TokenTypes
        <4> QED
          BY <3>3, <4>1, <4>2, <2>1, <2>2 DEF Progress, InCommand
      <3> QED
        BY <3>2, <3>3
    <2>3. \A t \in Users : Progress(t)'
      BY <2>1, <2>2 DEF Progress, InCommand
    <2>4. Responded'
      BY <1>1, <1>7 DEF TypeOK, Answer, Responded
    <2> QED
      BY <2>3, <2>4 DEF Exchange
  <1>8. CASE UNCHANGED vars
    BY <1>1, <1>8 DEF vars, Exchange, Responded, Progress
  <1> QED
    BY <1>2, <1>3, <1>4, <1>5, <1>6, <1>7, <1>8 DEF Next, Proceed

----------------------------------------------------------------------------
(* The theorems.                                                           *)

LEMMA Invariant == Spec => []IInv
  <1>1. IInv /\ [Next]_vars => IInv'
    BY TypeStep, LockStep, WindowStep, ExchangeStep DEF IInv
  <1> QED
    BY InvInit, <1>1, PTL DEF Spec

\* The registers, locks and locals keep their types (smu.c, drv.c).
THEOREM TypeCorrect == Spec => []TypeOK
  <1>1. IInv => TypeOK
    BY DEF IInv
  <1> QED
    BY Invariant, <1>1, PTL

\* Whatever threads use the window, and whichever accesses fail, a transfer of
\* data of smu_smn_rw_address meets the register that its thread has named.
THEOREM DataMeetsAddress == Spec => []SmnAddressed
  <1>1. IInv => SmnAddressed
    BY DEF IInv, OneInWindow, SmnAddressed
  <1> QED
    BY Invariant, <1>1, PTL

\* For any number of threads, mailboxes and attempts, smu_send_command reads back
\* the answer to its own command, up to the first wait that runs out or access
\* that fails unnoticed.
THEOREM AnswersAreOwn == Spec => []AnswerIsOwn
  <1>1. IInv => AnswerIsOwn
    BY DEF IInv, Exchange, Progress, AnswerIsOwn
  <1> QED
    BY Invariant, <1>1, PTL

----------------------------------------------------------------------------
(* SmuCommands.  A step of the protocol changes how far one command is, or *)
(* nothing that SmuCommands knows; only WriteCmd gives one to the firmware.*)

\* A thread outside the commands has no mailbox, nor has one in the file smn.
NoMailbox == \A t \in Users : pc[t] \in {"idle", "smn"} => mb[t] = None

LEMMA NoMailboxStep == TypeOK /\ NoMailbox /\ [Next]_vars => NoMailbox'
  <1> SUFFICES ASSUME TypeOK, NoMailbox, [Next]_vars PROVE NoMailbox'
    OBVIOUS
  <1> USE DEF Goto
  <1>1. ASSUME NEW t \in Users, Proceed(t) PROVE NoMailbox'
    BY <1>1 DEF TypeOK, NoMailbox, Proceed, Wait1, ClearRsp, WriteArgs, WriteCmd,
       WriteIgnored, Wait2, PollFails, Fetch, SmnDone, Reply, Leave
  <1>2. ASSUME NEW t \in Users, SendCommand(t) \/ SmnAddress(t) \/ Begin(t) PROVE NoMailbox'
    BY <1>2 DEF TypeOK, NoMailbox, SendCommand, SmnAddress, Begin, SmnStore, CmdStore
  <1>3. CASE (\E m \in Mailboxes : Answer(m)) \/ UNCHANGED vars
    BY <1>3 DEF NoMailbox, Answer, vars
  <1> QED
    BY <1>1, <1>2, <1>3 DEF Next

\* Phase, case by case.
LEMMA PhaseReads ==
  ASSUME LockHeld, NoMailbox, NEW t \in Users
  PROVE  /\ mb[t] = None => pc[t] \notin InCommand \cup {"lock"} /\ Phase(t) = "none"
         /\ pc[t] \in {"lock", "wait1", "clear", "args", "cmd"} => Phase(t) = "called"
         /\ pc[t] = "wait2" =>
              Phase(t) = IF job[mb[t]] = Request(t) THEN "issued" ELSE "performed"
         /\ pc[t] = "fetch" => Phase(t) = "performed"
         /\ pc[t] = "ret" /\ mb[t] # None =>
              Phase(t) = IF ret[t] = "OK" THEN "OK" ELSE "error"
  <1>1. pc[t] \in InCommand \cup {"lock"} => mb[t] # None
    BY SmuAssumption DEF LockHeld
  <1> QED
    BY <1>1 DEF Phase, InCommand

\* What the commands of the others depend on.
Untouched(t) ==
  /\ \A u \in Users \ {t} : pc'[u] = pc[u] /\ mb'[u] = mb[u] /\ ret'[u] = ret[u]
  /\ \A u \in Users \ {t} : pc[u] = "wait2" => job'[mb[u]] = job[mb[u]]

LEMMA OthersKeepPhase ==
  ASSUME NEW t \in Users, Untouched(t)
  PROVE  \A u \in Users \ {t} : Phase(u)' = Phase(u)
BY DEF Untouched, Phase, Request

LEMMA PhaseMoves ==
  ASSUME NEW t \in Users, Untouched(t), NEW p, Phase(t)' = p
  PROVE  Commands!Move(t, p)
  <1>1. \A u \in Users \ {t} : Phase(u)' = Phase(u)
    BY OthersKeepPhase
  <1> QED
    BY <1>1 DEF Commands!Move, Phases

LEMMA PhaseStays ==
  ASSUME NEW t \in Users, Untouched(t), Phase(t)' = Phase(t)
  PROVE  Phases' = Phases
  <1>1. \A u \in Users \ {t} : Phase(u)' = Phase(u)
    BY OthersKeepPhase
  <1> QED
    BY <1>1 DEF Phases

\* Until something is lost: a step of the thread that is inside a command.
LEMMA CommandRefines ==
  ASSUME TypeOK, LockHeld, NoMailbox, Exchange, (TypeOK /\ LockHeld /\ NoMailbox /\ Exchange)',
         ~spoiled, ~spoiled', NEW t \in Users,
         Wait1(t) \/ ClearRsp(t) \/ WriteArgs(t) \/ WriteCmd(t) \/ WriteIgnored(t)
           \/ Wait2(t) \/ PollFails(t) \/ Fetch(t)
  PROVE  Commands!CmdNext \/ UNCHANGED Commands!cmdVars
  <1> USE DEF mailVars, Goto, SmnData, SmnError
  <1>1. pc[t] \in InCommand /\ mb[t] \in Mailboxes /\ mb[t] # None /\ UNCHANGED mb
    BY SmuAssumption DEF LockHeld, InCommand, Wait1, ClearRsp, WriteArgs, WriteCmd,
       WriteIgnored, Wait2, PollFails, Fetch
  <1>2. \A u \in Users \ {t} : pc[u] \notin InCommand
    BY <1>1 DEF LockHeld
  <1>3. \A u \in Users \ {t} : pc'[u] = pc[u] /\ ret'[u] = ret[u]
    BY DEF TypeOK, Wait1, ClearRsp, WriteArgs, WriteCmd, WriteIgnored, Wait2, PollFails,
       Fetch, Leave
  <1>4. Untouched(t)
    BY <1>1, <1>2, <1>3 DEF Untouched, InCommand
  <1>5. Progress(t) /\ Progress(t)'
    BY DEF Exchange
  <1>6. Request(t) # NoJob
    BY TokenTypes
  <1>7. UNCHANGED spoiled
    BY DEF TypeOK
  <1>8. ASSUME UNCHANGED job, Phase(t)' = Phase(t) PROVE UNCHANGED Commands!cmdVars
    BY <1>1, <1>4, <1>7, <1>8, PhaseStays DEF Commands!cmdVars, Todo
  <1>9. ASSUME UNCHANGED job, pc'[t] = "ret", ret'[t] = "OK" => Phase(t) = "performed"
        PROVE  Commands!CmdNext
    <2>1. Phase(t)' = IF ret'[t] = "OK" THEN "OK" ELSE "error"
      BY <1>1, <1>9, PhaseReads DEF Phase
    <2>2. Commands!Move(t, IF ret'[t] = "OK" THEN "OK" ELSE "error")
      BY <1>4, <2>1, PhaseMoves
    <2>3. Phases[t] \in {"called", "issued", "performed"}
      BY <1>1, PhaseReads DEF Phases, InCommand
    <2>4. Commands!Return(t)
      BY <1>1, <1>9, <2>2, <2>3 DEF Commands!Return, Todo, Phases
    <2> QED
      BY <2>4, <1>7 DEF Commands!CmdNext
  <1>10. CASE Wait1(t)
    <2>1. UNCHANGED job /\ pc[t] = "wait1"
      BY <1>10 DEF Wait1
    <2>2. \/ pc'[t] \in {"wait1", "clear"}
          \/ pc'[t] = "ret" /\ ret'[t] # "OK"
      BY <1>10 DEF TypeOK, Wait1, Leave
    <2>3. CASE pc'[t] \in {"wait1", "clear"}
      <3>1. Phase(t) = "called" /\ Phase(t)' = "called"
        BY <1>1, <2>1, <2>3 DEF Phase
      <3> QED
        BY <1>8, <2>1, <3>1
    <2> QED
      BY <1>9, <2>1, <2>2, <2>3
  <1>11. CASE ClearRsp(t) \/ WriteArgs(t)
    <2>1. UNCHANGED job /\ pc[t] \in {"clear", "args"} /\ pc'[t] \in {"args", "cmd"}
      BY <1>11 DEF TypeOK, ClearRsp, WriteArgs
    <2>2. Phase(t) = "called" /\ Phase(t)' = "called"
      BY <1>1, <2>1 DEF Phase
    <2> QED
      BY <1>8, <2>1, <2>2
  <1>12. CASE WriteCmd(t)
    <2>1. /\ pc[t] = "cmd" /\ pc'[t] = "wait2"
          /\ job' = [job EXCEPT ![mb[t]] = args[mb[t]]]
      BY <1>12 DEF TypeOK, WriteCmd
    <2>2. args[mb[t]] = Request(t) /\ job[mb[t]] = NoJob
      BY <1>5, <2>1 DEF Progress
    <2>3. job'[mb[t]] = Request(t)
      BY <1>1, <2>1, <2>2 DEF TypeOK
    <2>4. Phase(t) = "called" /\ Phase(t)' = "issued"
      BY <1>1, <2>1, <2>3 DEF Phase, Request
    <2>5. Commands!Move(t, "issued") /\ Phases[t] = "called"
      BY <1>4, <2>4, PhaseMoves DEF Phases
    <2>6. ASSUME NEW u \in Users PROVE ~Commands!InFlight(u)
      <3>1. u # t => pc[u] \notin {"wait2", "fetch"}
        BY <1>2 DEF InCommand
      <3>2. Phase(u) \notin {"issued", "performed"}
        BY <2>4, <3>1 DEF Phase
      <3> QED
        BY <3>2 DEF Commands!InFlight, Phases
    <2>7. Todo[mb[t]] = Nobody /\ Todo' = [Todo EXCEPT ![mb[t]] = t]
      <3>1. Request(t).kind = "request" /\ Request(t).of = t /\ NoJob.kind # "request"
        BY DEF Request, NoJob
      <3>2. Todo[mb[t]] = Nobody
        BY <1>1, <2>2, <3>1 DEF Todo
      <3>3. \A m \in Mailboxes \ {mb[t]} : job'[m] = job[m]
        BY <2>1 DEF TypeOK
      <3> QED
        BY <1>1, <2>3, <3>1, <3>2, <3>3 DEF Todo
    <2>8. Commands!Issue(t)
      BY <1>1, <2>5, <2>6, <2>7 DEF Commands!Issue
    <2> QED
      BY <1>7, <2>8 DEF Commands!CmdNext
  <1>13. CASE Wait2(t)
    <2>1. UNCHANGED job /\ pc[t] = "wait2"
      BY <1>13 DEF Wait2
    <2>2. \/ pc'[t] \in {"wait2", "fetch"}
          \/ pc'[t] = "ret" /\ ret'[t] # "OK"
      BY <1>13 DEF TypeOK, Wait2, Leave
    <2>3. CASE pc'[t] = "wait2"
      <3>1. Phase(t)' = Phase(t)
        BY <1>1, <2>1, <2>3 DEF Phase, Request
      <3> QED
        BY <1>8, <2>1, <3>1
    <2>4. CASE pc'[t] = "fetch"
      <3>1. job[mb[t]] = NoJob
        BY <1>1, <1>5, <2>1, <2>4 DEF Progress
      <3>2. Phase(t) = "performed" /\ Phase(t)' = "performed"
        BY <1>1, <1>6, <2>1, <2>4, <3>1 DEF Phase
      <3> QED
        BY <1>8, <2>1, <3>2
    <2> QED
      BY <1>9, <2>1, <2>2, <2>3, <2>4
  <1>14. CASE PollFails(t)
    <2>1. UNCHANGED job /\ pc'[t] = "ret" /\ ret'[t] # "OK"
      BY <1>14 DEF TypeOK, PollFails, Leave
    <2> QED
      BY <1>9, <2>1
  <1>15. CASE Fetch(t)
    <2>1. UNCHANGED job /\ pc[t] = "fetch" /\ pc'[t] = "ret"
      BY <1>15 DEF TypeOK, Fetch, Leave
    <2>2. Phase(t) = "performed"
      BY <1>1, <2>1 DEF Phase
    <2> QED
      BY <1>9, <2>1, <2>2
  <1>16. ~WriteIgnored(t)
    BY DEF WriteIgnored
  <1> QED
    BY <1>10, <1>11, <1>12, <1>13, <1>14, <1>15, <1>16

\* A step of a file: a command begins, ends, or is no command.
LEMMA FileRefines ==
  ASSUME TypeOK, LockHeld, NoMailbox, (LockHeld /\ NoMailbox)', NEW t \in Users,
         SendCommand(t) \/ SmnAddress(t) \/ Begin(t) \/ SmnDone(t) \/ Reply(t)
  PROVE  Commands!CmdNext \/ UNCHANGED Commands!cmdVars
  <1> USE DEF mailVars, Goto, SmnData, SmnError
  <1>1. UNCHANGED <<job, spoiled>>
    BY DEF SendCommand, SmnAddress, Begin, SmnStore, CmdStore, SmnDone, Reply
  <1>2. Untouched(t)
    BY <1>1 DEF TypeOK, Untouched, SendCommand, SmnAddress, Begin, SmnStore, CmdStore, SmnDone,
       Reply
  <1>3. UNCHANGED Todo
    BY <1>1 DEF Todo
  <1>4. ASSUME UNCHANGED mb, Phase(t)' = Phase(t) PROVE UNCHANGED Commands!cmdVars
    BY <1>1, <1>2, <1>3, <1>4, PhaseStays DEF Commands!cmdVars
  <1>5. CASE SendCommand(t)
    <2>1. UNCHANGED mb /\ pc[t] = "lock" /\ pc'[t] = "wait1"
      BY <1>5 DEF TypeOK, SendCommand
    <2>2. Phase(t) = "called" /\ mb[t] # None
      BY <2>1, PhaseReads DEF InCommand
    <2>3. Phase(t)' = "called"
      BY <2>1, <2>2 DEF Phase
    <2> QED
      BY <1>4, <2>1, <2>2, <2>3
  <1>6. CASE SmnAddress(t)
    <2>1. UNCHANGED <<mb, pc, ret>>
      BY <1>6 DEF SmnAddress
    <2>2. Phase(t)' = Phase(t)
      BY <1>1, <2>1 DEF Phase, Request
    <2> QED
      BY <1>4, <2>1, <2>2
  <1>7. ASSUME UNCHANGED mb, mb[t] = None, pc'[t] \in {"idle", "smn", "ret"},
               pc[t] \in {"idle", "smn", "ret"}
        PROVE  UNCHANGED Commands!cmdVars
    <2>1. Phase(t) = "none" /\ Phase(t)' = "none"
      BY <1>7 DEF Phase
    <2> QED
      BY <1>4, <1>7, <2>1
  <1>8. CASE SmnStore(t) \/ SmnDone(t)
    <2>1. UNCHANGED mb /\ pc[t] \in {"idle", "smn"} /\ pc'[t] \in {"smn", "ret"}
      BY <1>8 DEF TypeOK, SmnStore, SmnDone
    <2> QED
      BY <1>7, <2>1 DEF NoMailbox
  <1>9. ASSUME NEW m \in AllMailboxes, CmdStore(t, m)
        PROVE  Commands!CmdNext \/ UNCHANGED Commands!cmdVars
    <2>1. pc[t] = "idle" /\ mb[t] = None
      BY <1>9 DEF CmdStore, NoMailbox
    <2>2. CASE m \in Mailboxes
      <3>1. pc'[t] = "lock" /\ mb' = [mb EXCEPT ![t] = m] /\ m # None
        BY <1>9, <2>2, SmuAssumption DEF TypeOK, CmdStore
      <3>2. Phase(t) = "none" /\ Phase(t)' = "called"
        BY <2>1, <3>1 DEF Phase, TypeOK
      <3>3. Commands!Call(t, m)
        BY <1>2, <1>3, <3>1, <3>2, PhaseMoves DEF Commands!Call, Phases
      <3> QED
        BY <1>1, <2>2, <3>3 DEF Commands!CmdNext
    <2>3. CASE m \notin Mailboxes
      <3>1. pc'[t] = "ret" /\ UNCHANGED mb
        BY <1>9, <2>3 DEF TypeOK, CmdStore
      <3> QED
        BY <1>7, <2>1, <3>1
    <2> QED
      BY <2>2, <2>3
  <1>10. CASE Reply(t)
    <2>1. pc[t] = "ret" /\ pc'[t] = "idle" /\ mb' = [mb EXCEPT ![t] = None]
      BY <1>10 DEF TypeOK, Reply
    <2>2. mb'[t] = None
      BY <2>1 DEF TypeOK
    <2>3. CASE mb[t] = None
      <3>1. UNCHANGED mb
        BY <2>1, <2>3 DEF TypeOK
      <3> QED
        BY <1>7, <2>1, <2>3, <3>1
    <2>4. CASE mb[t] # None
      <3>1. Phase(t) \in {"OK", "error"} /\ Phase(t)' = "none"
        BY <2>1, <2>2, <2>4 DEF Phase
      <3>2. Commands!Forget(t)
        BY <1>2, <1>3, <2>1, <3>1, PhaseMoves DEF Commands!Forget, Phases
      <3> QED
        BY <1>1, <3>2 DEF Commands!CmdNext
    <2> QED
      BY <2>3, <2>4
  <1> QED
    BY <1>5, <1>6, <1>8, <1>9, <1>10 DEF Begin

\* The firmware answers who waits for it, or nobody.
LEMMA AnswerRefines ==
  ASSUME TypeOK, LockHeld, NoMailbox, \A t \in Users : Progress(t), NEW m \in Mailboxes, Answer(m)
  PROVE  Commands!CmdNext \/ UNCHANGED Commands!cmdVars
  <1>1. /\ job[m] # NoJob /\ job' = [job EXCEPT ![m] = NoJob]
        /\ UNCHANGED <<pc, mb, ret, spoiled>>
    BY DEF Answer
  <1>2. \A t \in Users : pc[t] = "wait2" /\ mb[t] = m => job[m] = Request(t)
    BY <1>1 DEF Progress
  <1>3. job[m] \in Tokens /\ job'[m] = NoJob /\ NoJob.kind = "stale"
    BY <1>1 DEF TypeOK, NoJob
  <1>4. ASSUME NEW t \in Users, pc[t] # "wait2" \/ mb[t] # m
        PROVE  Phase(t)' = Phase(t) /\ ~(Phase(t) = "issued" /\ mb[t] = m)
    <2>1. CASE pc[t] # "wait2"
      BY <1>1, <2>1 DEF Phase
    <2>2. CASE pc[t] = "wait2" /\ mb[t] # m
      <3>1. mb[t] \in Mailboxes
        BY <2>2 DEF LockHeld, InCommand
      <3>2. job'[mb[t]] = job[mb[t]]
        BY <1>1, <2>2, <3>1 DEF TypeOK
      <3> QED
        BY <1>1, <2>2, <3>2 DEF Phase, Request
    <2> QED
      BY <1>4, <2>1, <2>2
  <1>5. ASSUME NEW t \in Users, pc[t] = "wait2", mb[t] = m
        PROVE  Phase(t) = "issued" /\ Phase(t)' = "performed" /\ Todo[m] = t
    <2>1. job[m] = Request(t) /\ Request(t) # NoJob /\ m # None
      BY <1>2, <1>5, TokenTypes, SmuAssumption
    <2>2. Phase(t) = "issued" /\ Phase(t)' = "performed"
      BY <1>1, <1>3, <1>5, <2>1 DEF Phase, Request
    <2> QED
      BY <2>1, <2>2 DEF Todo, Request
  <1>6. Todo' = [Todo EXCEPT ![m] = Nobody]
    BY <1>1, <1>3 DEF TypeOK, Todo
  <1>7. CASE Todo[m] = Nobody
    <2>1. \A t \in Users : t # Nobody
      BY SmuAssumption
    <2>2. \A t \in Users : Phase(t)' = Phase(t)
      BY <1>4, <1>5, <1>7, <2>1
    <2> QED
      BY <1>1, <1>6, <1>7, <2>2 DEF Commands!cmdVars, Phases, Todo
  <1>8. CASE Todo[m] # Nobody
    <2>1. \A t \in Users : Phase(t)' = IF t = Todo[m] /\ mb[t] = m /\ Phase(t) = "issued"
                                       THEN "performed" ELSE Phase(t)
      BY <1>4, <1>5
    <2>2. Commands!Perform(m)
      BY <1>1, <1>6, <1>8, <2>1 DEF Commands!Perform, Phases
    <2> QED
      BY <1>1, <2>2 DEF Commands!CmdNext
  <1> QED
    BY <1>7, <1>8

LEMMA CommandsInit == Init => Commands!CmdInit
  <1> SUFFICES ASSUME Init PROVE Commands!CmdInit
    OBVIOUS
  <1>1. \A t \in Users : Phase(t) = "none"
    BY DEF Init, Phase
  <1> QED
    BY <1>1 DEF Init, Commands!CmdInit, Phases, Todo, NoJob

LEMMA CommandsStep ==
  ASSUME IInv, NoMailbox, (IInv /\ NoMailbox)', [Next]_vars
  PROVE  [Commands!CmdNext \/ spoiled']_(Commands!cmdVars)
  <1> SUFFICES ASSUME ~spoiled' PROVE Commands!CmdNext \/ UNCHANGED Commands!cmdVars
    OBVIOUS
  <1> USE DEF IInv
  <1>1. ~spoiled
    BY DEF TypeOK, Next, Proceed, Begin, SendCommand, SmnAddress, Wait1, ClearRsp, WriteArgs,
       WriteCmd, WriteIgnored, Wait2, PollEnds, PollFails, Fetch, SmnDone, Reply, SmnStore,
       CmdStore, Answer, vars
  <1>2. ASSUME NEW t \in Users, Proceed(t) PROVE Commands!CmdNext \/ UNCHANGED Commands!cmdVars
    BY <1>1, <1>2, CommandRefines, FileRefines DEF Proceed
  <1>3. ASSUME NEW t \in Users, SendCommand(t) \/ SmnAddress(t) \/ Begin(t)
        PROVE  Commands!CmdNext \/ UNCHANGED Commands!cmdVars
    BY <1>3, FileRefines
  <1>4. ASSUME NEW m \in Mailboxes, Answer(m)
        PROVE  Commands!CmdNext \/ UNCHANGED Commands!cmdVars
    <2>1. \A t \in Users : Progress(t)
      BY <1>1 DEF Exchange
    <2> QED
      BY <1>4, <2>1, AnswerRefines
  <1>5. CASE UNCHANGED vars
    <2>1. \A t \in Users : Phase(t)' = Phase(t)
      BY <1>5 DEF vars, mailVars, Phase, Request
    <2> QED
      BY <1>5, <2>1 DEF vars, mailVars, Commands!cmdVars, Phases, Todo
  <1> QED
    BY <1>2, <1>3, <1>4, <1>5 DEF Next

LEMMA MailInvariant == Spec => [](IInv /\ NoMailbox)
  <1>1. Init => NoMailbox
    BY DEF Init, NoMailbox
  <1>2. IInv /\ NoMailbox /\ [Next]_vars => NoMailbox'
    BY NoMailboxStep DEF IInv
  <1> QED
    BY Invariant, <1>1, <1>2, PTL DEF Spec

\* smu_send_command implements SmuCommands for any threads, mailboxes, numbers of
\* attempts and widths of the counter: commands reach the firmware one at a time,
\* and a call that returns OK was performed meanwhile, once.
THEOREM ImplementsSmuCommands == Spec => ImplementsCommands
  <1>1. IInv /\ NoMailbox /\ (IInv /\ NoMailbox)' /\ [Next]_vars =>
          [Commands!CmdNext \/ spoiled']_(Commands!cmdVars)
    BY CommandsStep
  <1> QED
    BY CommandsInit, MailInvariant, <1>1, PTL DEF Spec, ImplementsCommands, Commands!CmdSpec

\* What a thread in flight has as its mailbox.
LEMMA InFlightHasBox ==
  ASSUME IInv, NoMailbox, NEW t \in Users, Commands!InFlight(t) \/ Phases[t] = "called"
  PROVE  mb[t] \in Mailboxes
  <1>1. pc[t] \in InCommand \cup {"lock"}
    BY PhaseReads DEF IInv, TypeOK, Commands!InFlight, Phases, InCommand, Accessing, Phase
  <1> QED
    BY <1>1 DEF IInv, LockHeld

LEMMA CommandsApartStep ==
  ASSUME Commands!Promise, Commands!CmdNext, IInv, NoMailbox
  PROVE  Commands!Promise'
  <1> SUFFICES ASSUME ~spoiled' PROVE Commands!Promise'
    BY DEF Commands!Promise
  <1>1. /\ \A t, u \in Users : Commands!InFlight(t) /\ Commands!InFlight(u) => u = t
        /\ \A t \in Users : Commands!InFlight(t) =>
             Todo[mb[t]] = IF Phases[t] = "issued" THEN t ELSE Nobody
    BY DEF Commands!Promise, Commands!CmdNext
  <1>2. \A t \in Users : Commands!InFlight(t) => mb[t] \in Mailboxes
    BY InFlightHasBox
  <1>3. DOMAIN Phases = Users /\ DOMAIN mb = Users /\ DOMAIN Todo = Mailboxes
    BY DEF Phases, Todo, IInv, TypeOK
  <1>4. CASE \E t \in Users, m \in Mailboxes : Commands!Call(t, m)
    <2>1. PICK t \in Users, m \in Mailboxes : Commands!Call(t, m)
      BY <1>4
    <2>2. /\ UNCHANGED Todo /\ ~Commands!InFlight(t)'
          /\ \A u \in Users \ {t} : Phases'[u] = Phases[u] /\ mb'[u] = mb[u]
      BY <1>3, <2>1 DEF Commands!Call, Commands!Move, Commands!InFlight
    <2> QED
      BY <1>1, <2>2 DEF Commands!Promise, Commands!InFlight
  <1>5. CASE \E t \in Users : Commands!Issue(t)
    <2>1. PICK t \in Users : Commands!Issue(t)
      BY <1>5
    <2>2. mb[t] \in Mailboxes
      BY <2>1, InFlightHasBox DEF Commands!Issue
    <2>3. /\ Phases'[t] = "issued" /\ mb'[t] = mb[t] /\ Todo'[mb[t]] = t
          /\ \A u \in Users \ {t} : Phases'[u] = Phases[u] /\ ~Commands!InFlight(u)
      BY <1>3, <2>1, <2>2 DEF Commands!Issue, Commands!Move
    <2> QED
      BY <2>3 DEF Commands!Promise, Commands!InFlight
  <1>6. CASE \E m \in Mailboxes : Commands!Perform(m)
    <2>1. PICK m \in Mailboxes : Commands!Perform(m)
      BY <1>6
    <2>2. /\ Todo[m] # Nobody /\ Todo'[m] = Nobody /\ UNCHANGED mb
          /\ \A n \in Mailboxes \ {m} : Todo'[n] = Todo[n]
          /\ \A t \in Users : Phases'[t] = IF t = Todo[m] /\ mb[t] = m /\ Phases[t] = "issued"
                                           THEN "performed" ELSE Phases[t]
      BY <1>3, <2>1 DEF Commands!Perform
    <2>3. ASSUME NEW t \in Users, Commands!InFlight(t)'
          PROVE  /\ Commands!InFlight(t)
                 /\ Todo'[mb'[t]] = IF Phases'[t] = "issued" THEN t ELSE Nobody
      <3>1. Commands!InFlight(t)
        BY <2>2, <2>3 DEF Commands!InFlight
      <3> QED
        BY <1>1, <1>2, <2>2, <3>1 DEF Commands!InFlight
    <2> QED
      BY <1>1, <2>3 DEF Commands!Promise
  <1>7. CASE \E t \in Users : Commands!Return(t) \/ Commands!Forget(t)
    <2>1. PICK t \in Users : Commands!Return(t) \/ Commands!Forget(t)
      BY <1>7
    <2>2. /\ UNCHANGED Todo /\ ~Commands!InFlight(t)'
          /\ \A u \in Users \ {t} : Phases'[u] = Phases[u] /\ mb'[u] = mb[u]
      BY <1>3, <2>1 DEF Commands!Return, Commands!Forget, Commands!Move, Commands!InFlight
    <2> QED
      BY <1>1, <2>2 DEF Commands!Promise, Commands!InFlight
  <1> QED
    BY <1>4, <1>5, <1>6, <1>7 DEF Commands!CmdNext

\* Whatever threads send commands to whichever mailboxes, one is with the
\* firmware at a time, and its mailbox has it to perform, once (smu_send_command).
THEOREM CommandsApart == Spec => []Commands!Promise
  <1>1. Init => Commands!Promise
    BY CommandsInit DEF Commands!CmdInit, Commands!Promise, Commands!InFlight
  <1>2. Commands!Promise /\ IInv /\ NoMailbox /\ [Commands!CmdNext \/ spoiled']_(Commands!cmdVars)
          => Commands!Promise'
    <2> SUFFICES ASSUME Commands!Promise, IInv, NoMailbox,
                        [Commands!CmdNext \/ spoiled']_(Commands!cmdVars)
                 PROVE  Commands!Promise'
      OBVIOUS
    <2>1. CASE Commands!CmdNext
      BY <2>1, CommandsApartStep
    <2>2. CASE spoiled'
      BY <2>2 DEF Commands!Promise
    <2>3. CASE UNCHANGED Commands!cmdVars
      BY <2>3 DEF Commands!cmdVars, Commands!Promise, Commands!InFlight
    <2> QED
      BY <2>1, <2>2, <2>3
  <1> QED
    BY <1>1, <1>2, MailInvariant, ImplementsSmuCommands, PTL
       DEF Spec, ImplementsCommands, Commands!CmdSpec

----------------------------------------------------------------------------
(* Nobody waits for good.                                                  *)

\* Who holds amd_smu_mutex is inside a command.
LockUsed == smuLock # Nobody => smuLock \in Users /\ pc[smuLock] \in InCommand

LEMMA LockUsedStep == TypeOK /\ LockHeld /\ LockUsed /\ [Next]_vars => LockUsed'
  <1> SUFFICES ASSUME TypeOK, LockHeld, LockUsed, [Next]_vars PROVE LockUsed'
    OBVIOUS
  <1> USE DEF Goto, InCommand
  <1>1. ASSUME NEW t \in Users,
               Wait1(t) \/ ClearRsp(t) \/ WriteArgs(t) \/ WriteCmd(t) \/ WriteIgnored(t)
                 \/ Wait2(t) \/ PollFails(t) \/ Fetch(t)
        PROVE LockUsed'
    <2>1. smuLock = t
      BY <1>1 DEF LockHeld, Wait1, ClearRsp, WriteArgs, WriteCmd, WriteIgnored, Wait2, PollFails,
         Fetch
    <2>2. \/ smuLock' = Nobody
          \/ UNCHANGED smuLock /\ pc'[t] \in InCommand
      BY <1>1 DEF TypeOK, Wait1, ClearRsp, WriteArgs, WriteCmd, WriteIgnored, Wait2, PollFails,
         Fetch, Leave
    <2> QED
      BY <2>1, <2>2 DEF LockUsed
  <1>2. ASSUME NEW t \in Users, SmnDone(t) \/ Reply(t) \/ SmnAddress(t) \/ Begin(t)
        PROVE LockUsed'
    <2>1. UNCHANGED smuLock /\ \A u \in Users : pc[u] \in InCommand => pc'[u] = pc[u]
      BY <1>2 DEF TypeOK, SmnDone, Reply, SmnAddress, Begin, SmnStore, CmdStore
    <2> QED
      BY <2>1 DEF LockUsed
  <1>3. ASSUME NEW t \in Users, SendCommand(t) PROVE LockUsed'
    BY <1>3 DEF TypeOK, LockUsed, SendCommand
  <1>4. CASE (\E m \in Mailboxes : Answer(m)) \/ UNCHANGED vars
    BY <1>4 DEF LockUsed, Answer, vars
  <1> QED
    BY <1>1, <1>2, <1>3, <1>4 DEF Next, Proceed

\* The guards of a thread's next step: it has a mutex or needs none, or the
\* one it needs is free.
Goes(t) ==
  \/ pc[t] \in Accessing /\ (t \in inWindow \/ inWindow = {})
  \/ pc[t] = "lock" /\ smuLock = Nobody
  \/ pc[t] = "ret"

\* It waits for the SMN window, and who is there goes on.
WaitsForWindow(t) == pc[t] \in Accessing /\ \E u \in inWindow : Goes(u)

\* Who has begun goes on, or waits for the window, or for amd_smu_mutex, whose
\* holder goes on or waits for the window.
CallsGoOn ==
  \A t \in Users : pc[t] # "idle" =>
    \/ Goes(t) \/ WaitsForWindow(t)
    \/ /\ pc[t] = "lock" /\ smuLock \in Users \ {t}
       /\ Goes(smuLock) \/ WaitsForWindow(smuLock)

\* No thread waits for good for another, whatever accesses fail and whether the
\* firmware answers or not: the two mutexes are taken in one order and given back
\* on every path (smu_smn_rw_address, smu_send_command).  It is the part of
\* CallsReturn that needs no fairness.
THEOREM CallsAlwaysGoOn == Spec => []CallsGoOn
  <1>1. Init => LockUsed
    BY DEF Init, LockUsed
  <1>2. IInv /\ LockUsed /\ [Next]_vars => LockUsed'
    BY LockUsedStep DEF IInv
  <1>3. IInv /\ LockUsed => CallsGoOn
    <2> SUFFICES ASSUME IInv, LockUsed, NEW t \in Users, pc[t] # "idle"
                 PROVE  \/ Goes(t) \/ WaitsForWindow(t)
                        \/ /\ pc[t] = "lock" /\ smuLock \in Users \ {t}
                           /\ Goes(smuLock) \/ WaitsForWindow(smuLock)
      BY DEF CallsGoOn
    <2>1. ASSUME NEW u \in Users, pc[u] \in Accessing PROVE Goes(u) \/ WaitsForWindow(u)
      <3>1. \A w \in inWindow : Goes(w)
        BY DEF Goes, IInv, OneInWindow
      <3> QED
        BY <2>1, <3>1 DEF Goes, WaitsForWindow
    <2>2. CASE pc[t] \in Accessing
      BY <2>1, <2>2
    <2>3. CASE pc[t] = "lock" /\ smuLock # Nobody
      <3>1. smuLock \in Users /\ pc[smuLock] \in Accessing /\ smuLock # t
        BY <2>3 DEF LockUsed, InCommand, Accessing
      <3> QED
        BY <2>1, <2>3, <3>1
    <2>4. CASE pc[t] = "ret" \/ (pc[t] = "lock" /\ smuLock = Nobody)
      BY <2>4 DEF Goes
    <2> QED
      BY <2>2, <2>3, <2>4 DEF IInv, TypeOK
  <1> QED
    BY <1>1, <1>2, <1>3, Invariant, PTL DEF Spec

----------------------------------------------------------------------------
(* The life of the driver.  Its invariant is about the first binding: what *)
(* the probe and the readers have established when they copy the table.    *)

MappedAll == virt /\ (Life!AltSize(codename) # 0 => alt)

KernelStages ==
  {"idle", "mp1Version", "rsmuVersion", "firstTransfer", "firstVersion", "setup"}

ReadStages ==
  {"pm", "base", "version", "size", "len", "transfer", "transfer2nd", "map", "copy",
   "read", "notRead"}

LifeTypes ==
  /\ binds \in Nat /\ size \in Nat /\ readLen \in Nat
  /\ stage \in [Life!Threads -> KernelStages \cup ReadStages]

\* Before the first probe.
Fresh ==
  /\ up = "unbound" /\ shown = {} /\ base = "none" /\ size = 0
  /\ readLen = Life!PM_TABLE_MAX_SIZE /\ ~virt /\ \A t \in Life!Threads : stage[t] = "idle"

\* How far the first read of the probe has come.
KernelKnows ==
  LET s == stage[Kernel] IN
    /\ s # "idle" => up = "probing"
    /\ s \notin {"idle", "setup"} => "pm_table" \notin shown
    /\ s \notin {"idle", "setup", "copy", "read", "notRead"} => ~virt
    /\ s \in (KernelStages \ {"idle", "setup"}) \cup {"pm", "base", "version", "size", "len"} =>
         readLen = Life!PM_TABLE_MAX_SIZE
    /\ s \in ReadStages \ {"notRead"} => buffer = "live"
    /\ s \in ReadStages \ {"pm", "base", "notRead"} => base # "none"
    /\ s \in ReadStages \ {"pm", "base", "version", "size", "notRead"} => size # 0
    /\ s \in {"transfer", "transfer2nd", "map", "copy", "read"} =>
         size \leq Life!PM_TABLE_MAX_SIZE
    /\ s \in {"copy", "read"} => MappedAll

\* A user of the file has it, and never asks for base or size.
UsersRead ==
  \A u \in Users :
    /\ stage[u] # "idle" => up = "bound" /\ "pm_table" \in shown
    /\ stage[u] \in {"idle"} \cup (ReadStages \ {"base", "version", "size"})

\* While the file is there, its table fits the buffer.
FileReady ==
  up # "unbound" /\ "pm_table" \in shown =>
    /\ buffer = "live" /\ base # "none" /\ size # 0
    /\ size \leq Life!PM_TABLE_MAX_SIZE /\ MappedAll

LifeInv ==
  /\ LifeTypes
  /\ binds = 0 => Fresh
  /\ binds = 1 => KernelKnows /\ UsersRead /\ FileReady

----------------------------------------------------------------------------
\* The sizes of all the tables are natural numbers, as their largest size is.
LEMMA SizesAreNatural ==
  ASSUME NEW c, NEW v PROVE Life!PmTableSize(c, v) \in Nat
  <1>1. \A e \in Life!PmTableSizes(c) : e[2] \in Nat
    BY DEF Life!PmTableSizes, Life!MatisseSizes, Life!VermeerSizes, Life!RenoirSizes,
           Life!RaphaelSizes, Life!PhoenixSizes, Life!StormpeakSizes
  <1>2. (\E e \in Life!PmTableSizes(c) : e[1] = v) =>
          (CHOOSE e \in Life!PmTableSizes(c) : e[1] = v)[2] \in Nat
    BY <1>1
  <1> QED
    BY <1>2 DEF Life!PmTableSize, Life!AltSize

LEMMA LargestIsNatural == Life!PM_TABLE_MAX_SIZE \in Nat
  BY DEF Life!PM_TABLE_MAX_SIZE

LEMMA LifeInit == Life!Init => LifeInv
  <1> SUFFICES ASSUME Life!Init PROVE LifeInv
    OBVIOUS
  <1>1. LifeTypes
    BY LargestIsNatural DEF LifeTypes, Life!Init, KernelStages, ReadStages
  <1> QED
    BY <1>1 DEF LifeInv, Fresh, Life!Init

\* A step of one thread while the driver is bound or being bound.
LEMMA ThreadsAct ==
  ASSUME LifeInv, NEW t \in Life!Threads, stage[t] # "idle"
  PROVE  /\ binds # 0
         /\ binds = 1 => KernelKnows /\ UsersRead /\ FileReady
         /\ binds = 1 /\ t \in Users => up = "bound" /\ "pm_table" \in shown
         /\ binds = 1 /\ t = Kernel => up = "probing"
         /\ t \in Users \/ t = Kernel
         /\ Kernel \in Life!Threads /\ Users \subseteq Life!Threads /\ Kernel \notin Users
  BY KernelAssumption DEF LifeInv, Fresh, UsersRead, KernelKnows, Life!Threads

(* One lemma for each step of smu_read_pm_table. *)

LEMMA StepReadPmTable ==
  ASSUME LifeInv, NEW t \in Life!Threads, Life!ReadPmTable(t) PROVE LifeInv'
  <1> USE DEF Life!ReadPmTable, Life!Enter, Life!machine, Life!drvVars
  <1>1. stage[t] # "idle"
    OBVIOUS
  <1>2. LifeTypes'
    BY LargestIsNatural DEF LifeInv, LifeTypes, KernelStages, ReadStages
  <1>3. SUFFICES ASSUME binds = 1 PROVE KernelKnows' /\ UsersRead' /\ FileReady'
    BY <1>1, <1>2, ThreadsAct DEF LifeInv
  <1>4. /\ KernelKnows /\ UsersRead /\ FileReady /\ LifeTypes
        /\ t \in Users => up = "bound" /\ "pm_table" \in shown /\ t # Kernel
        /\ t = Kernel => up = "probing" /\ Kernel \notin Users
        /\ t \in Users \/ t = Kernel
        /\ Kernel \in Life!Threads /\ Users \subseteq Life!Threads
    BY <1>1, <1>3, ThreadsAct DEF LifeInv
  <1>5. KernelKnows'
    BY <1>3, <1>4 DEF KernelKnows, KernelStages, ReadStages, MappedAll, LifeTypes, FileReady
  <1>6. UsersRead'
    BY <1>3, <1>4 DEF UsersRead, ReadStages, LifeTypes, FileReady, KernelKnows
  <1>7. FileReady'
    BY <1>3, <1>4 DEF FileReady, MappedAll, UsersRead, KernelKnows, ReadStages, LifeTypes
  <1> QED
    BY <1>5, <1>6, <1>7

LEMMA StepGetBase ==
  ASSUME LifeInv, NEW t \in Life!Threads, Life!GetBase(t) PROVE LifeInv'
  <1> USE DEF Life!GetBase, Life!Enter, Life!Outcomes, Life!machine, Life!drvVars
  <1>1. stage[t] # "idle"
    OBVIOUS
  <1>2. LifeTypes'
    BY LargestIsNatural DEF LifeInv, LifeTypes, KernelStages, ReadStages
  <1>3. SUFFICES ASSUME binds = 1 PROVE KernelKnows' /\ UsersRead' /\ FileReady'
    BY <1>1, <1>2, ThreadsAct DEF LifeInv
  <1>4. /\ KernelKnows /\ UsersRead /\ FileReady /\ LifeTypes
        /\ t \in Users => up = "bound" /\ "pm_table" \in shown /\ t # Kernel
        /\ t = Kernel => up = "probing" /\ Kernel \notin Users
        /\ t \in Users \/ t = Kernel
        /\ Kernel \in Life!Threads /\ Users \subseteq Life!Threads
    BY <1>1, <1>3, ThreadsAct DEF LifeInv
  <1>5. KernelKnows'
    BY <1>3, <1>4 DEF KernelKnows, KernelStages, ReadStages, MappedAll, LifeTypes, FileReady
  <1>6. UsersRead'
    BY <1>3, <1>4 DEF UsersRead, ReadStages, LifeTypes, FileReady, KernelKnows
  <1>7. FileReady'
    BY <1>3, <1>4 DEF FileReady, MappedAll, UsersRead, KernelKnows, ReadStages, LifeTypes
  <1> QED
    BY <1>5, <1>6, <1>7

LEMMA StepGetVersion ==
  ASSUME LifeInv, NEW t \in Life!Threads, Life!GetVersion(t) PROVE LifeInv'
  <1> USE DEF Life!GetVersion, Life!Enter, Life!machine, Life!drvVars
  <1>1. stage[t] # "idle"
    OBVIOUS
  <1>2. LifeTypes'
    BY LargestIsNatural DEF LifeInv, LifeTypes, KernelStages, ReadStages
  <1>3. SUFFICES ASSUME binds = 1 PROVE KernelKnows' /\ UsersRead' /\ FileReady'
    BY <1>1, <1>2, ThreadsAct DEF LifeInv
  <1>4. /\ KernelKnows /\ UsersRead /\ FileReady /\ LifeTypes
        /\ t \in Users => up = "bound" /\ "pm_table" \in shown /\ t # Kernel
        /\ t = Kernel => up = "probing" /\ Kernel \notin Users
        /\ t \in Users \/ t = Kernel
        /\ Kernel \in Life!Threads /\ Users \subseteq Life!Threads
    BY <1>1, <1>3, ThreadsAct DEF LifeInv
  <1>5. KernelKnows'
    BY <1>3, <1>4 DEF KernelKnows, KernelStages, ReadStages, MappedAll, LifeTypes, FileReady
  <1>6. UsersRead'
    BY <1>3, <1>4 DEF UsersRead, ReadStages, LifeTypes, FileReady, KernelKnows
  <1>7. FileReady'
    BY <1>3, <1>4 DEF FileReady, MappedAll, UsersRead, KernelKnows, ReadStages, LifeTypes
  <1> QED
    BY <1>5, <1>6, <1>7

LEMMA StepUpdateSize ==
  ASSUME LifeInv, NEW t \in Life!Threads, Life!UpdateSize(t) PROVE LifeInv'
  <1> USE DEF Life!UpdateSize, Life!Enter, Life!machine, Life!drvVars
  <1>1. stage[t] # "idle"
    OBVIOUS
  <1>2. LifeTypes'
    BY LargestIsNatural, SizesAreNatural DEF LifeInv, LifeTypes, KernelStages, ReadStages
  <1>3. SUFFICES ASSUME binds = 1 PROVE KernelKnows' /\ UsersRead' /\ FileReady'
    BY <1>1, <1>2, ThreadsAct DEF LifeInv
  <1>4. /\ KernelKnows /\ UsersRead /\ FileReady /\ LifeTypes
        /\ t \in Users => up = "bound" /\ "pm_table" \in shown /\ t # Kernel
        /\ t = Kernel => up = "probing" /\ Kernel \notin Users
        /\ t \in Users \/ t = Kernel
        /\ Kernel \in Life!Threads /\ Users \subseteq Life!Threads
    BY <1>1, <1>3, ThreadsAct DEF LifeInv
  <1>5. KernelKnows'
    BY <1>3, <1>4, SizesAreNatural DEF KernelKnows, KernelStages, ReadStages, MappedAll, LifeTypes, FileReady
  <1>6. UsersRead'
    BY <1>3, <1>4 DEF UsersRead, ReadStages, LifeTypes, FileReady, KernelKnows
  <1>7. FileReady'
    BY <1>3, <1>4 DEF FileReady, MappedAll, UsersRead, KernelKnows, ReadStages, LifeTypes
  <1> QED
    BY <1>5, <1>6, <1>7

LEMMA StepCheckLen ==
  ASSUME LifeInv, NEW t \in Life!Threads, Life!CheckLen(t) PROVE LifeInv'
  <1> USE DEF Life!CheckLen, Life!Enter, Life!machine, Life!drvVars
  <1>1. stage[t] # "idle"
    OBVIOUS
  <1>2. LifeTypes'
    BY LargestIsNatural DEF LifeInv, LifeTypes, KernelStages, ReadStages
  <1>3. SUFFICES ASSUME binds = 1 PROVE KernelKnows' /\ UsersRead' /\ FileReady'
    BY <1>1, <1>2, ThreadsAct DEF LifeInv
  <1>4. /\ KernelKnows /\ UsersRead /\ FileReady /\ LifeTypes
        /\ t \in Users => up = "bound" /\ "pm_table" \in shown /\ t # Kernel
        /\ t = Kernel => up = "probing" /\ Kernel \notin Users
        /\ t \in Users \/ t = Kernel
        /\ Kernel \in Life!Threads /\ Users \subseteq Life!Threads
    BY <1>1, <1>3, ThreadsAct DEF LifeInv
  <1>5. KernelKnows'
    BY <1>3, <1>4 DEF KernelKnows, KernelStages, ReadStages, MappedAll, LifeTypes, FileReady
  <1>6. UsersRead'
    BY <1>3, <1>4 DEF UsersRead, ReadStages, LifeTypes, FileReady, KernelKnows
  <1>7. FileReady'
    BY <1>3, <1>4 DEF FileReady, MappedAll, UsersRead, KernelKnows, ReadStages, LifeTypes
  <1> QED
    BY <1>5, <1>6, <1>7

LEMMA StepTransfer ==
  ASSUME LifeInv, NEW t \in Life!Threads, Life!Transfer(t) PROVE LifeInv'
  <1> USE DEF Life!Transfer, Life!Enter, Life!machine, Life!drvVars
  <1>1. stage[t] # "idle"
    OBVIOUS
  <1>2. LifeTypes'
    BY LargestIsNatural DEF LifeInv, LifeTypes, KernelStages, ReadStages
  <1>3. SUFFICES ASSUME binds = 1 PROVE KernelKnows' /\ UsersRead' /\ FileReady'
    BY <1>1, <1>2, ThreadsAct DEF LifeInv
  <1>4. /\ KernelKnows /\ UsersRead /\ FileReady /\ LifeTypes
        /\ t \in Users => up = "bound" /\ "pm_table" \in shown /\ t # Kernel
        /\ t = Kernel => up = "probing" /\ Kernel \notin Users
        /\ t \in Users \/ t = Kernel
        /\ Kernel \in Life!Threads /\ Users \subseteq Life!Threads
    BY <1>1, <1>3, ThreadsAct DEF LifeInv
  <1>5. KernelKnows'
    BY <1>3, <1>4 DEF KernelKnows, KernelStages, ReadStages, MappedAll, LifeTypes, FileReady
  <1>6. UsersRead'
    BY <1>3, <1>4 DEF UsersRead, ReadStages, LifeTypes, FileReady, KernelKnows
  <1>7. FileReady'
    BY <1>3, <1>4 DEF FileReady, MappedAll, UsersRead, KernelKnows, ReadStages, LifeTypes
  <1> QED
    BY <1>5, <1>6, <1>7

LEMMA StepMap ==
  ASSUME LifeInv, NEW t \in Life!Threads, Life!Map(t) PROVE LifeInv'
  <1> USE DEF Life!Map, Life!Enter, Life!machine, Life!drvVars
  <1>1. stage[t] # "idle"
    OBVIOUS
  <1>2. LifeTypes'
    BY LargestIsNatural DEF LifeInv, LifeTypes, KernelStages, ReadStages
  <1>3. SUFFICES ASSUME binds = 1 PROVE KernelKnows' /\ UsersRead' /\ FileReady'
    BY <1>1, <1>2, ThreadsAct DEF LifeInv
  <1>4. /\ KernelKnows /\ UsersRead /\ FileReady /\ LifeTypes
        /\ t \in Users => up = "bound" /\ "pm_table" \in shown /\ t # Kernel
        /\ t = Kernel => up = "probing" /\ Kernel \notin Users
        /\ t \in Users \/ t = Kernel
        /\ Kernel \in Life!Threads /\ Users \subseteq Life!Threads
    BY <1>1, <1>3, ThreadsAct DEF LifeInv
  <1>5. KernelKnows'
    BY <1>3, <1>4 DEF KernelKnows, KernelStages, ReadStages, MappedAll, LifeTypes, FileReady
  <1>6. UsersRead'
    BY <1>3, <1>4 DEF UsersRead, ReadStages, LifeTypes, FileReady, KernelKnows
  <1>7. FileReady'
    BY <1>3, <1>4 DEF FileReady, MappedAll, UsersRead, KernelKnows, ReadStages, LifeTypes
  <1> QED
    BY <1>5, <1>6, <1>7

LEMMA StepCopy ==
  ASSUME LifeInv, NEW t \in Life!Threads, Life!Copy(t) PROVE LifeInv'
  <1> USE DEF Life!Copy, Life!Enter, Life!machine, Life!drvVars
  <1>1. stage[t] # "idle"
    OBVIOUS
  <1>2. LifeTypes'
    BY LargestIsNatural DEF LifeInv, LifeTypes, KernelStages, ReadStages
  <1>3. SUFFICES ASSUME binds = 1 PROVE KernelKnows' /\ UsersRead' /\ FileReady'
    BY <1>1, <1>2, ThreadsAct DEF LifeInv
  <1>4. /\ KernelKnows /\ UsersRead /\ FileReady /\ LifeTypes
        /\ t \in Users => up = "bound" /\ "pm_table" \in shown /\ t # Kernel
        /\ t = Kernel => up = "probing" /\ Kernel \notin Users
        /\ t \in Users \/ t = Kernel
        /\ Kernel \in Life!Threads /\ Users \subseteq Life!Threads
    BY <1>1, <1>3, ThreadsAct DEF LifeInv
  <1>5. KernelKnows'
    BY <1>3, <1>4 DEF KernelKnows, KernelStages, ReadStages, MappedAll, LifeTypes, FileReady
  <1>6. UsersRead'
    BY <1>3, <1>4 DEF UsersRead, ReadStages, LifeTypes, FileReady, KernelKnows
  <1>7. FileReady'
    BY <1>3, <1>4 DEF FileReady, MappedAll, UsersRead, KernelKnows, ReadStages, LifeTypes
  <1> QED
    BY <1>5, <1>6, <1>7

(* One lemma for each step of drv.c. *)

LEMMA StepProbe ==
  ASSUME LifeInv, Life!Probe PROVE LifeInv'
  <1> USE DEF Life!Probe, Life!Enter
  <1>1. LifeTypes'
    BY DEF LifeInv, LifeTypes, KernelStages
  <1>2. binds' # 0
    BY DEF LifeInv, LifeTypes
  <1>3. SUFFICES ASSUME binds = 0 PROVE KernelKnows' /\ UsersRead' /\ FileReady'
    BY <1>1, <1>2 DEF LifeInv, LifeTypes
  <1>4. Fresh /\ LifeTypes /\ Kernel \notin Users /\ Kernel \in Life!Threads
        /\ Users \subseteq Life!Threads
    BY <1>3, KernelAssumption DEF LifeInv, Life!Threads
  <1>5. KernelKnows'
    BY <1>4 DEF KernelKnows, Fresh, LifeTypes, KernelStages, ReadStages, MappedAll
  <1>6. UsersRead'
    BY <1>4 DEF UsersRead, Fresh, LifeTypes
  <1>7. FileReady'
    BY <1>4 DEF FileReady, Fresh
  <1> QED
    BY <1>5, <1>6, <1>7

LEMMA StepCheckMp1 ==
  ASSUME LifeInv, Life!CheckMp1 PROVE LifeInv'
  <1> USE DEF Life!CheckMp1, Life!Enter, Life!machine, Life!drvVars
  <1>1. Kernel \in Life!Threads /\ stage[Kernel] # "idle"
    BY DEF Life!Threads
  <1>2. LifeTypes'
    BY <1>1 DEF LifeInv, LifeTypes, KernelStages, ReadStages
  <1>3. SUFFICES ASSUME binds = 1 PROVE KernelKnows' /\ UsersRead' /\ FileReady'
    BY <1>1, <1>2, ThreadsAct DEF LifeInv
  <1>4. /\ KernelKnows /\ UsersRead /\ FileReady /\ LifeTypes /\ up = "probing"
        /\ Kernel \notin Users /\ Users \subseteq Life!Threads
    BY <1>1, <1>3, ThreadsAct DEF LifeInv
  <1>5. KernelKnows'
    BY <1>1, <1>3, <1>4 DEF KernelKnows, KernelStages, ReadStages, MappedAll, LifeTypes
  <1>6. UsersRead'
    BY <1>1, <1>3, <1>4 DEF UsersRead, ReadStages, LifeTypes
  <1>7. FileReady'
    BY <1>1, <1>3, <1>4 DEF FileReady, MappedAll, KernelKnows, KernelStages, ReadStages, LifeTypes
  <1> QED
    BY <1>5, <1>6, <1>7

LEMMA StepCheckRsmu ==
  ASSUME LifeInv, Life!CheckRsmu PROVE LifeInv'
  <1> USE DEF Life!CheckRsmu, Life!Enter, Life!machine, Life!drvVars
  <1>1. Kernel \in Life!Threads /\ stage[Kernel] # "idle"
    BY DEF Life!Threads
  <1>2. LifeTypes'
    BY <1>1 DEF LifeInv, LifeTypes, KernelStages, ReadStages
  <1>3. SUFFICES ASSUME binds = 1 PROVE KernelKnows' /\ UsersRead' /\ FileReady'
    BY <1>1, <1>2, ThreadsAct DEF LifeInv
  <1>4. /\ KernelKnows /\ UsersRead /\ FileReady /\ LifeTypes /\ up = "probing"
        /\ Kernel \notin Users /\ Users \subseteq Life!Threads
    BY <1>1, <1>3, ThreadsAct DEF LifeInv
  <1>5. KernelKnows'
    BY <1>1, <1>3, <1>4 DEF KernelKnows, KernelStages, ReadStages, MappedAll, LifeTypes
  <1>6. UsersRead'
    BY <1>1, <1>3, <1>4 DEF UsersRead, ReadStages, LifeTypes
  <1>7. FileReady'
    BY <1>1, <1>3, <1>4 DEF FileReady, MappedAll, KernelKnows, KernelStages, ReadStages, LifeTypes
  <1> QED
    BY <1>5, <1>6, <1>7

LEMMA StepPreparePmTable ==
  ASSUME LifeInv, Life!PreparePmTable PROVE LifeInv'
  <1> USE DEF Life!PreparePmTable, Life!Enter, Life!machine, Life!drvVars
  <1>1. Kernel \in Life!Threads /\ stage[Kernel] # "idle"
    BY DEF Life!Threads
  <1>2. LifeTypes'
    BY <1>1 DEF LifeInv, LifeTypes, KernelStages, ReadStages
  <1>3. SUFFICES ASSUME binds = 1 PROVE KernelKnows' /\ UsersRead' /\ FileReady'
    BY <1>1, <1>2, ThreadsAct DEF LifeInv
  <1>4. /\ KernelKnows /\ UsersRead /\ FileReady /\ LifeTypes /\ up = "probing"
        /\ Kernel \notin Users /\ Users \subseteq Life!Threads
    BY <1>1, <1>3, ThreadsAct DEF LifeInv
  <1>5. KernelKnows'
    BY <1>1, <1>3, <1>4 DEF KernelKnows, KernelStages, ReadStages, MappedAll, LifeTypes
  <1>6. UsersRead'
    BY <1>1, <1>3, <1>4 DEF UsersRead, ReadStages, LifeTypes
  <1>7. FileReady'
    BY <1>1, <1>3, <1>4 DEF FileReady, MappedAll, KernelKnows, KernelStages, ReadStages, LifeTypes
  <1> QED
    BY <1>5, <1>6, <1>7

LEMMA StepFirstRead ==
  ASSUME LifeInv, Life!FirstRead PROVE LifeInv'
  <1> USE DEF Life!FirstRead, Life!Enter, Life!machine, Life!drvVars
  <1>1. Kernel \in Life!Threads /\ stage[Kernel] # "idle"
    BY DEF Life!Threads
  <1>2. LifeTypes'
    BY <1>1 DEF LifeInv, LifeTypes, KernelStages, ReadStages
  <1>3. SUFFICES ASSUME binds = 1 PROVE KernelKnows' /\ UsersRead' /\ FileReady'
    BY <1>1, <1>2, ThreadsAct DEF LifeInv
  <1>4. /\ KernelKnows /\ UsersRead /\ FileReady /\ LifeTypes /\ up = "probing"
        /\ Kernel \notin Users /\ Users \subseteq Life!Threads
    BY <1>1, <1>3, ThreadsAct DEF LifeInv
  <1>5. KernelKnows'
    BY <1>1, <1>3, <1>4 DEF KernelKnows, KernelStages, ReadStages, MappedAll, LifeTypes
  <1>6. UsersRead'
    BY <1>1, <1>3, <1>4 DEF UsersRead, ReadStages, LifeTypes
  <1>7. FileReady'
    BY <1>1, <1>3, <1>4 DEF FileReady, MappedAll, KernelKnows, KernelStages, ReadStages, LifeTypes
  <1> QED
    BY <1>5, <1>6, <1>7

LEMMA StepCreateFiles ==
  ASSUME LifeInv, Life!CreateFiles PROVE LifeInv'
  <1> USE DEF Life!CreateFiles, Life!Enter, Life!machine, Life!drvVars
  <1>1. Kernel \in Life!Threads /\ stage[Kernel] # "idle"
    BY DEF Life!Threads
  <1>2. LifeTypes'
    BY <1>1 DEF LifeInv, LifeTypes, KernelStages, ReadStages
  <1>3. SUFFICES ASSUME binds = 1 PROVE KernelKnows' /\ UsersRead' /\ FileReady'
    BY <1>1, <1>2, ThreadsAct DEF LifeInv
  <1>4. /\ KernelKnows /\ UsersRead /\ FileReady /\ LifeTypes /\ up = "probing"
        /\ Kernel \notin Users /\ Users \subseteq Life!Threads
    BY <1>1, <1>3, ThreadsAct DEF LifeInv
  <1>5. KernelKnows'
    BY <1>1, <1>3, <1>4 DEF KernelKnows, KernelStages, ReadStages, MappedAll, LifeTypes
  <1>6. UsersRead'
    BY <1>1, <1>3, <1>4 DEF UsersRead, ReadStages, LifeTypes
  <1>7. FileReady'
    BY <1>1, <1>3, <1>4 DEF FileReady, MappedAll, KernelKnows, KernelStages, ReadStages, LifeTypes
  <1> QED
    BY <1>5, <1>6, <1>7

LEMMA StepRemove ==
  ASSUME LifeInv, Life!Remove PROVE LifeInv'
  <1> USE DEF Life!Remove, Life!machine
  <1>1. LifeTypes' /\ binds # 0
    BY DEF LifeInv, LifeTypes, Fresh
  <1>2. SUFFICES ASSUME binds = 1 PROVE KernelKnows' /\ UsersRead' /\ FileReady'
    BY <1>1 DEF LifeInv
  <1>3. KernelKnows'
    BY <1>2 DEF LifeInv, KernelKnows, KernelStages, ReadStages
  <1>4. UsersRead' /\ FileReady'
    BY <1>2 DEF LifeInv, UsersRead, FileReady
  <1> QED
    BY <1>3, <1>4

LEMMA StepMillisecond ==
  ASSUME LifeInv, Life!Millisecond PROVE LifeInv'
  <1> USE DEF Life!Millisecond, Life!machine, Life!drvVars
  <1>1. LifeTypes' /\ (binds' = 0 => Fresh')
    BY DEF LifeInv, LifeTypes, Fresh
  <1>2. binds' = 1 => KernelKnows' /\ UsersRead' /\ FileReady'
    BY DEF LifeInv, KernelKnows, UsersRead, FileReady, MappedAll
  <1> QED
    BY <1>1, <1>2 DEF LifeInv

(* The file pm_table. *)
LEMMA StepPmTableShow ==
  ASSUME LifeInv, NEW u \in Users, Life!PmTableShow(u) PROVE LifeInv'
  <1> USE DEF Life!PmTableShow, Life!Enter, Life!machine, Life!drvVars
  <1>1. /\ LifeTypes' /\ binds # 0 /\ Kernel \notin Users /\ Users \subseteq Life!Threads
        /\ Kernel \in Life!Threads
    BY KernelAssumption DEF LifeInv, LifeTypes, ReadStages, Fresh, Life!Threads
  <1>2. SUFFICES ASSUME binds = 1 PROVE KernelKnows' /\ UsersRead' /\ FileReady'
    BY <1>1 DEF LifeInv
  <1>3. KernelKnows'
    BY <1>1, <1>2 DEF LifeInv, LifeTypes, KernelKnows, MappedAll
  <1>4. UsersRead'
    BY <1>1, <1>2 DEF LifeInv, LifeTypes, UsersRead, ReadStages
  <1>5. FileReady'
    BY <1>2 DEF LifeInv, FileReady, MappedAll
  <1> QED
    BY <1>3, <1>4, <1>5

LEMMA StepReply ==
  ASSUME LifeInv, NEW u \in Users, Life!Reply(u) PROVE LifeInv'
  <1> USE DEF Life!Reply, Life!Enter, Life!machine, Life!drvVars
  <1>1. stage[u] # "idle" /\ u \in Life!Threads
    BY DEF Life!Threads
  <1>2. LifeTypes'
    BY DEF LifeInv, LifeTypes, KernelStages
  <1>3. SUFFICES ASSUME binds = 1 PROVE KernelKnows' /\ UsersRead' /\ FileReady'
    BY <1>1, <1>2, ThreadsAct DEF LifeInv
  <1>4. /\ KernelKnows /\ UsersRead /\ FileReady /\ LifeTypes /\ u # Kernel
        /\ Kernel \in Life!Threads /\ Users \subseteq Life!Threads
    BY <1>1, <1>3, ThreadsAct DEF LifeInv
  <1>5. KernelKnows'
    BY <1>4 DEF KernelKnows, MappedAll, LifeTypes
  <1>6. UsersRead'
    BY <1>4 DEF UsersRead, LifeTypes
  <1>7. FileReady'
    BY <1>4 DEF FileReady, MappedAll
  <1> QED
    BY <1>5, <1>6, <1>7

----------------------------------------------------------------------------
LEMMA LifeStep == LifeInv /\ [Life!Next]_Life!vars => LifeInv'
  <1> SUFFICES ASSUME LifeInv, [Life!Next]_Life!vars PROVE LifeInv'
    OBVIOUS
  <1>1. CASE UNCHANGED Life!vars
    <2> USE <1>1 DEF Life!vars, Life!machine, Life!drvVars
    <2>1. LifeTypes' /\ (binds' = 0 => Fresh')
      BY DEF LifeInv, LifeTypes, Fresh
    <2>2. binds' = 1 => KernelKnows' /\ UsersRead' /\ FileReady'
      BY DEF LifeInv, KernelKnows, UsersRead, FileReady, MappedAll
    <2> QED
      BY <2>1, <2>2 DEF LifeInv
  <1>2. ASSUME NEW t \in Life!Threads,
               \/ Life!ReadPmTable(t) \/ Life!GetBase(t) \/ Life!GetVersion(t)
               \/ Life!UpdateSize(t) \/ Life!CheckLen(t) \/ Life!Transfer(t)
               \/ Life!Map(t) \/ Life!Copy(t)
        PROVE LifeInv'
    BY <1>2, StepReadPmTable, StepGetBase, StepGetVersion, StepUpdateSize, StepCheckLen,
       StepTransfer, StepMap, StepCopy
  <1>3. ASSUME NEW u \in Users, Life!PmTableShow(u) \/ Life!Reply(u) PROVE LifeInv'
    BY <1>3, StepPmTableShow, StepReply
  <1>4. CASE \/ Life!Probe \/ Life!CheckMp1 \/ Life!CheckRsmu \/ Life!PreparePmTable
             \/ Life!FirstRead \/ Life!CreateFiles \/ Life!Remove \/ Life!Millisecond
    BY <1>4, StepProbe, StepCheckMp1, StepCheckRsmu, StepPreparePmTable, StepFirstRead,
       StepCreateFiles, StepRemove, StepMillisecond
  <1> QED
    BY <1>1, <1>2, <1>3, <1>4 DEF Life!Next

LEMMA LifeGives ==
  ASSUME LifeInv, NEW t \in Life!Threads, stage[t] = "copy", binds = 1
  PROVE  /\ buffer = "live" /\ size \leq Life!PM_TABLE_MAX_SIZE
         /\ virt /\ (Life!AltSize(codename) # 0 => alt)
  <1>1. CASE t \in Users
    BY <1>1 DEF LifeInv, UsersRead, FileReady, MappedAll
  <1>2. CASE t = Kernel
    BY <1>2 DEF LifeInv, KernelKnows, ReadStages, MappedAll
  <1> QED
    BY <1>1, <1>2 DEF Life!Threads

LEMMA LifeInvariant == Life!Spec => []LifeInv
  BY LifeStep, LifeInit, PTL DEF Life!Spec

----------------------------------------------------------------------------
(* The types of Smu, on every binding.                                     *)

\* A reader is inside the file while the driver is bound, the kernel inside the
\* probe while it is being bound: the class does not change under them.
Attached ==
  /\ \A u \in Users : stage[u] # "idle" => up = "bound"
  /\ stage[Kernel] # "idle" => up = "probing"

LEMMA BaseCommands ==
  ASSUME NEW c
  PROVE  Life!DramBaseCmds(c) = <<>> \/ Len(Life!DramBaseCmds(c)) \in 1 .. 5
  BY DEF Life!DramBaseCmds

LEMMA SmuTypeInit == Life!Init => Life!TypeOK /\ Attached
  <1> SUFFICES ASSUME Life!Init PROVE Life!TypeOK /\ Attached
    OBVIOUS
  <1>1. {fresh, virt, alt} \subseteq BOOLEAN
    BY DEF Life!Init
  <1>2. stage = [t \in Life!Threads |-> "idle"] /\ cmdNo = [t \in Life!Threads |-> 1]
        /\ up = "unbound" /\ binds = 0 /\ shown = {} /\ base = "none" /\ size = 0
        /\ readLen = Life!PM_TABLE_MAX_SIZE /\ buffer = "none" /\ page = 0
    BY DEF Life!Init
  <1> HIDE DEF Life!Init
  <1>3. Life!TypeOK
    BY <1>1, <1>2, KernelAssumption, LargestIsNatural DEF Life!TypeOK
  <1>4. Attached
    BY <1>2 DEF Attached, Life!Threads
  <1> QED
    BY <1>3, <1>4


LEMMA SmuTypesOfRead ==
  ASSUME Life!TypeOK, Attached, NEW t \in Life!Threads,
         \/ Life!ReadPmTable(t) \/ Life!GetBase(t) \/ Life!GetVersion(t)
         \/ Life!UpdateSize(t) \/ Life!CheckLen(t) \/ Life!Transfer(t)
         \/ Life!Map(t) \/ Life!Copy(t)
  PROVE  Life!TypeOK' /\ Attached'
  <1> USE DEF Life!TypeOK, Life!Enter, Life!machine, Life!drvVars
  <1>1. CASE Life!ReadPmTable(t)
    <2>1. Life!TypeOK'
      BY <1>1 DEF Life!ReadPmTable
    <2>2. Attached'
      BY <1>1, KernelAssumption DEF Life!ReadPmTable, Attached, Life!Threads
    <2> QED
      BY <2>1, <2>2
  <1>2. CASE Life!GetBase(t)
    <2> DEFINE n == Len(Life!DramBaseCmds(codename))
    <2>1. /\ UNCHANGED <<shown, binds, up, size, readLen, fresh, virt, alt, buffer, page>>
          /\ UNCHANGED codename
          /\ stage[t] = "base" /\ base' \in {base, "known", "error"}
          /\ \/ cmdNo' = [cmdNo EXCEPT ![t] = @ + 1] /\ cmdNo[t] < n /\ stage' = stage
             \/ /\ cmdNo' = cmdNo
                /\ \E s \in {"version", "size", "notRead"} : stage' = [stage EXCEPT ![t] = s]
      BY <1>2 DEF Life!GetBase
    <2>2. n \in 0 .. 5
      BY BaseCommands
    <2> HIDE DEF n
    <2>3. cmdNo' \in [Life!Threads -> 1 .. 5]
      <3>1. cmdNo \in [Life!Threads -> 1 .. 5]
        OBVIOUS
      <3>2. cmdNo[t] < n => cmdNo[t] + 1 \in 1 .. 5
        BY <2>2, <3>1
      <3> QED
        BY <2>1, <3>1, <3>2
    <2>4. \A u \in Life!Threads : stage'[u] = "base" => cmdNo'[u] = 1 \/ cmdNo'[u] \leq n
      <3>1. \A u \in Life!Threads : stage[u] = "base" => cmdNo[u] = 1 \/ cmdNo[u] \leq n
        BY DEF n
      <3>2. cmdNo[t] \in 1 .. 5 /\ (cmdNo[t] < n => cmdNo[t] + 1 \leq n)
        BY <2>2
      <3> QED
        BY <2>1, <3>1, <3>2
    <2>5. Life!TypeOK'
      BY <2>1, <2>3, <2>4 DEF n
    <2>6. Attached'
      BY <1>2, KernelAssumption DEF Life!GetBase, Attached, Life!Threads
    <2> QED
      BY <2>5, <2>6
  <1>3. CASE Life!GetVersion(t)
    <2>1. Life!TypeOK'
      BY <1>3 DEF Life!GetVersion
    <2>2. Attached'
      BY <1>3, KernelAssumption DEF Life!GetVersion, Attached, Life!Threads
    <2> QED
      BY <2>1, <2>2
  <1>4. CASE Life!UpdateSize(t)
    <2>1. Life!TypeOK'
      BY SizesAreNatural, <1>4 DEF Life!UpdateSize
    <2>2. Attached'
      BY <1>4, KernelAssumption DEF Life!UpdateSize, Attached, Life!Threads
    <2> QED
      BY <2>1, <2>2
  <1>5. CASE Life!CheckLen(t)
    <2>1. Life!TypeOK'
      BY <1>5 DEF Life!CheckLen
    <2>2. Attached'
      BY <1>5, KernelAssumption DEF Life!CheckLen, Attached, Life!Threads
    <2> QED
      BY <2>1, <2>2
  <1>6. CASE Life!Transfer(t)
    <2>1. Life!TypeOK'
      BY <1>6 DEF Life!Transfer
    <2>2. Attached'
      BY <1>6, KernelAssumption DEF Life!Transfer, Attached, Life!Threads
    <2> QED
      BY <2>1, <2>2
  <1>7. CASE Life!Map(t)
    <2>1. Life!TypeOK'
      BY <1>7 DEF Life!Map
    <2>2. Attached'
      BY <1>7, KernelAssumption DEF Life!Map, Attached, Life!Threads
    <2> QED
      BY <2>1, <2>2
  <1>8. CASE Life!Copy(t)
    <2>1. Life!TypeOK'
      BY <1>8 DEF Life!Copy
    <2>2. Attached'
      BY <1>8, KernelAssumption DEF Life!Copy, Attached, Life!Threads
    <2> QED
      BY <2>1, <2>2
  <1> QED
    BY <1>1, <1>2, <1>3, <1>4, <1>5, <1>6, <1>7, <1>8

LEMMA SmuTypesOfProbe ==
  ASSUME Life!TypeOK, Attached,
         \/ Life!Probe \/ Life!CheckMp1 \/ Life!CheckRsmu \/ Life!PreparePmTable
         \/ Life!FirstRead \/ Life!CreateFiles \/ Life!Remove \/ Life!Millisecond
  PROVE  Life!TypeOK' /\ Attached'
  <1> USE DEF Life!TypeOK, Life!Enter, Life!machine, Life!drvVars
  <1>1. CASE Life!Probe
    <2>1. Life!TypeOK'
      BY <1>1, KernelAssumption DEF Life!Probe, Attached, Life!Threads
    <2>2. Attached'
      BY <1>1, KernelAssumption DEF Life!Probe, Attached, Life!Threads
    <2> QED
      BY <2>1, <2>2
  <1>2. CASE Life!CheckMp1
    <2>1. Life!TypeOK'
      BY <1>2 DEF Life!CheckMp1
    <2>2. Attached'
      BY <1>2, KernelAssumption DEF Life!CheckMp1, Attached, Life!Threads
    <2> QED
      BY <2>1, <2>2
  <1>3. CASE Life!CheckRsmu
    <2>1. Life!TypeOK'
      BY <1>3 DEF Life!CheckRsmu
    <2>2. Attached'
      BY <1>3, KernelAssumption DEF Life!CheckRsmu, Attached, Life!Threads
    <2> QED
      BY <2>1, <2>2
  <1>4. CASE Life!PreparePmTable
    <2>1. Life!TypeOK'
      BY <1>4 DEF Life!PreparePmTable
    <2>2. Attached'
      BY <1>4, KernelAssumption DEF Life!PreparePmTable, Attached, Life!Threads
    <2> QED
      BY <2>1, <2>2
  <1>5. CASE Life!FirstRead
    <2>1. Life!TypeOK'
      BY <1>5 DEF Life!FirstRead
    <2>2. Attached'
      BY <1>5, KernelAssumption DEF Life!FirstRead, Attached, Life!Threads
    <2> QED
      BY <2>1, <2>2
  <1>6. CASE Life!CreateFiles
    <2>1. Life!TypeOK'
      BY <1>6 DEF Life!CreateFiles
    <2>2. Attached'
      BY <1>6, KernelAssumption DEF Life!CreateFiles, Attached, Life!Threads
    <2> QED
      BY <2>1, <2>2
  <1>7. CASE Life!Remove
    <2>1. Life!TypeOK'
      BY <1>7, KernelAssumption DEF Life!Remove, Attached, Life!Threads
    <2>2. Attached'
      BY <1>7, KernelAssumption DEF Life!Remove, Attached, Life!Threads
    <2> QED
      BY <2>1, <2>2
  <1>8. CASE Life!Millisecond
    <2>1. Life!TypeOK'
      BY <1>8 DEF Life!Millisecond
    <2>2. Attached'
      BY <1>8, KernelAssumption DEF Life!Millisecond, Attached, Life!Threads
    <2> QED
      BY <2>1, <2>2
  <1> QED
    BY <1>1, <1>2, <1>3, <1>4, <1>5, <1>6, <1>7, <1>8

LEMMA LifeAttached == Life!Spec => [](Life!TypeOK /\ Attached)
  <1> DEFINE LInv == Life!TypeOK /\ Attached
  <1>1. ASSUME LInv, Life!Next PROVE LInv'
    <2> USE DEF Life!Enter, Life!machine, Life!drvVars
    <2>1. ASSUME NEW u \in Users, Life!PmTableShow(u) PROVE LInv'
      <3>1. Life!TypeOK'
        BY <1>1, <2>1 DEF Life!TypeOK, Life!PmTableShow
      <3>2. Attached'
        BY <1>1, <2>1, KernelAssumption
           DEF Life!TypeOK, Life!PmTableShow, Attached, Life!Threads
      <3> QED
        BY <3>1, <3>2
    <2>2. ASSUME NEW u \in Users, Life!Reply(u) PROVE LInv'
      <3>1. Life!TypeOK'
        BY <1>1, <2>2 DEF Life!TypeOK, Life!Reply
      <3>2. Attached'
        BY <1>1, <2>2, KernelAssumption DEF Life!TypeOK, Life!Reply, Attached, Life!Threads
      <3> QED
        BY <3>1, <3>2
    <2> QED
      BY <1>1, <2>1, <2>2, SmuTypesOfRead, SmuTypesOfProbe DEF Life!Next
  <1>2. ASSUME LInv, UNCHANGED Life!vars PROVE LInv'
    <2> USE <1>2 DEF Life!vars, Life!machine, Life!drvVars
    <2>1. Life!TypeOK'
      BY DEF Life!TypeOK
    <2>2. Attached'
      BY DEF Attached
    <2> QED
      BY <2>1, <2>2
  <1>3. LInv /\ [Life!Next]_Life!vars => LInv'
    BY <1>1, <1>2
  <1> QED
    BY SmuTypeInit, <1>3, PTL DEF Life!Spec

\* The variables of the driver's life keep their types on every binding, and no
\* thread ever sends a command beyond the list of its processor's class, as
\* nobody is inside a call when remove resets the class (ryzen_smu_remove).
THEOREM LifeTypeCorrect == Life!Spec => []Life!TypeOK
  BY LifeAttached, PTL

----------------------------------------------------------------------------
(* What a reader is given, on every binding.                               *)

\* The size that the driver knows for the table of this processor.
Whole ==
  LET c == Life!ResolveCpuClass(cpu) IN
    Life!PmTableSize(c, IF Life!AsksVersion(c) THEN version ELSE 0)

\* The size, and what a reader was given, are the whole size or not known yet;
\* past the comparison of the lengths, the length of the buffer is that size.
PageInv ==
  /\ codename \in {Life!UNDEFINED, Life!ResolveCpuClass(cpu)}
  /\ up # "unbound" => codename = Life!ResolveCpuClass(cpu)
  /\ size \in {0, Whole} /\ page \in {0, Whole}
  /\ \A t \in Life!Threads :
       /\ stage[t] = "len" => size = Whole
       /\ stage[t] \in {"transfer", "transfer2nd", "map", "copy", "read"} =>
            size = Whole /\ readLen = Whole

\* A table that is longer than a page is one of those named.
LEMMA LongAreNamed ==
  ASSUME NEW c, NEW v, NEW w, w = IF Life!AsksVersion(c) THEN v ELSE 0,
         Life!PmTableSize(c, w) > Life!PageSize
  PROVE  <<c, v>> \in Life!LongTables
  <1>1. c \notin Life!Raven
    BY DEF Life!PmTableSize, Life!AltSize, Life!PageSize
  <1>2. PICK e \in Life!PmTableSizes(c) : e[1] = w /\ e[2] > Life!PageSize
    BY <1>1 DEF Life!PmTableSize, Life!PageSize
  <1>3. w # 0
    BY <1>2 DEF Life!PmTableSizes, Life!MatisseSizes, Life!VermeerSizes, Life!RenoirSizes,
           Life!RaphaelSizes, Life!PhoenixSizes, Life!StormpeakSizes
  <1>4. <<c, w>> \in Life!LongTables \/ c = "CASTLEPEAK"
    BY <1>2 DEF Life!PmTableSizes, Life!MatisseSizes, Life!VermeerSizes, Life!RenoirSizes,
           Life!RaphaelSizes, Life!PhoenixSizes, Life!StormpeakSizes, Life!LongTables,
           Life!PageSize
  <1> QED
    BY <1>3, <1>4 DEF Life!AsksVersion, Life!Zen2Desktop, Life!Zen4Desktop, Life!Zen2Mobile,
           Life!Zen4Mobile

LEMMA PageGives ==
  ASSUME PageInv
  PROVE  page \leq Life!PageSize \/ <<Life!ResolveCpuClass(cpu), version>> \in Life!LongTables
  <1>1. Whole \in Nat
    BY SizesAreNatural DEF Whole
  <1>2. page \in Nat /\ page \in {0, Whole}
    BY <1>1 DEF PageInv
  <1>3. CASE page > Life!PageSize
    <2>1. page = Whole
      BY <1>2, <1>3 DEF Life!PageSize
    <2> QED
      BY <1>3, <2>1, LongAreNamed DEF Whole
  <1> QED
    BY <1>2, <1>3 DEF Life!PageSize

LEMMA PageInit == Life!Init => PageInv
  BY DEF Life!Init, PageInv

\* Only a thread inside the driver, of which the class then is known, asks for
\* the size or compares it.
LEMMA PageStep ==
  ASSUME Life!TypeOK, Attached, PageInv, [Life!Next]_Life!vars
  PROVE  PageInv'
  <1> USE DEF Life!Enter, Life!machine, Life!drvVars
  <1>1. Whole \in Nat /\ UNCHANGED cpu /\ UNCHANGED version
    <2>1. Whole \in Nat
      BY SizesAreNatural DEF Whole
    <2>2. UNCHANGED <<cpu, version>>
      BY DEF Life!Next, Life!vars, Life!ReadPmTable, Life!GetBase, Life!GetVersion,
             Life!UpdateSize, Life!CheckLen, Life!Transfer, Life!Map, Life!Copy,
             Life!PmTableShow, Life!Reply, Life!Probe, Life!CheckMp1, Life!CheckRsmu,
             Life!PreparePmTable, Life!FirstRead, Life!CreateFiles, Life!Remove,
             Life!Millisecond
    <2> QED
      BY <2>1, <2>2
  <1>2. UNCHANGED Whole
    BY <1>1 DEF Whole
  <1>3. stage \in [Life!Threads -> KernelStages \cup ReadStages]
    BY DEF Life!TypeOK, KernelStages, ReadStages
  <1>4. Life!Threads = Users \cup {Kernel} /\ Kernel \notin Users
    BY KernelAssumption DEF Life!Threads
  <1>5. ASSUME NEW t \in Life!Threads, stage[t] # "idle"
        PROVE  up # "unbound" /\ codename = Life!ResolveCpuClass(cpu)
    BY <1>4, <1>5 DEF Attached, PageInv
  <1> DEFINE Past == {"transfer", "transfer2nd", "map", "copy", "read"}
  <1>6. CASE UNCHANGED <<codename, up, size, page, readLen, stage>>
    BY <1>1, <1>2, <1>6 DEF PageInv
  <1>7. ASSUME NEW t \in Life!Threads, Life!ReadPmTable(t) PROVE PageInv'
    BY <1>1, <1>2, <1>3, <1>7 DEF Life!ReadPmTable, PageInv
  <1>8. ASSUME NEW t \in Life!Threads, Life!GetBase(t) PROVE PageInv'
    <2>1. UNCHANGED <<codename, up, size, page, readLen>>
          /\ \/ UNCHANGED stage
             \/ \E s \in {"version", "size", "notRead"} : stage' = [stage EXCEPT ![t] = s]
      BY <1>8 DEF Life!GetBase
    <2> QED
      BY <1>1, <1>2, <1>3, <2>1 DEF PageInv
  <1>9. ASSUME NEW t \in Life!Threads, Life!GetVersion(t) PROVE PageInv'
    <2>1. UNCHANGED <<codename, up, size, page, readLen>>
          /\ \E s \in {"size", "notRead"} : stage' = [stage EXCEPT ![t] = s]
      BY <1>9 DEF Life!GetVersion
    <2> QED
      BY <1>1, <1>2, <1>3, <2>1 DEF PageInv
  <1>10. ASSUME NEW t \in Life!Threads, Life!UpdateSize(t) PROVE PageInv'
    <2>1. codename = Life!ResolveCpuClass(cpu)
      BY <1>5, <1>10 DEF Life!UpdateSize
    <2>2. /\ UNCHANGED <<codename, up, page, readLen>>
          /\ \/ stage' = [stage EXCEPT ![t] = "notRead"] /\ UNCHANGED size
             \/ stage' = [stage EXCEPT ![t] = "len"] /\ size' = Whole
      BY <1>10, <2>1 DEF Life!UpdateSize, Whole
    <2> QED
      BY <1>1, <1>2, <1>3, <2>2 DEF PageInv
  <1>11. ASSUME NEW t \in Life!Threads, Life!CheckLen(t) PROVE PageInv'
    <2>1. /\ UNCHANGED <<codename, up, size, page>> /\ stage[t] = "len" /\ readLen' = size
          /\ \E s \in {"notRead", "map", "transfer"} : stage' = [stage EXCEPT ![t] = s]
      BY <1>11 DEF Life!CheckLen
    <2> QED
      BY <1>1, <1>2, <1>3, <2>1 DEF PageInv
  <1>12. ASSUME NEW t \in Life!Threads, Life!Transfer(t) \/ Life!Map(t) \/ Life!Copy(t)
         PROVE  PageInv'
    <2>1. /\ UNCHANGED <<codename, up, size, page, readLen>> /\ stage[t] \in Past
          /\ \E s \in Past \cup {"notRead"} : stage' = [stage EXCEPT ![t] = s]
      BY <1>12 DEF Life!Transfer, Life!Map, Life!Copy
    <2> QED
      BY <1>1, <1>2, <1>3, <2>1 DEF PageInv
  <1>13. ASSUME NEW u \in Users, Life!PmTableShow(u) \/ Life!Reply(u) PROVE PageInv'
    <2>1. /\ UNCHANGED <<codename, up, size, readLen>> /\ u \in Life!Threads
          /\ \E s \in {"pm", "idle"} : stage' = [stage EXCEPT ![u] = s]
          /\ UNCHANGED page \/ (stage[u] = "read" /\ page' = readLen)
      BY <1>4, <1>13 DEF Life!PmTableShow, Life!Reply
    <2> QED
      BY <1>1, <1>2, <1>3, <2>1 DEF PageInv
  <1>14. CASE Life!Probe
    <2>1. /\ codename' = Life!ResolveCpuClass(cpu) /\ UNCHANGED <<size, page, readLen>>
          /\ UNCHANGED stage \/ stage' = [stage EXCEPT ![Kernel] = "mp1Version"]
      BY <1>14 DEF Life!Probe, PageInv
    <2> QED
      BY <1>1, <1>2, <1>3, <1>4, <2>1 DEF PageInv
  <1>15. CASE \/ Life!CheckMp1 \/ Life!CheckRsmu \/ Life!PreparePmTable \/ Life!FirstRead
              \/ Life!CreateFiles
    <2>1. /\ UNCHANGED <<codename, size, page, readLen>> /\ stage[Kernel] # "idle"
          /\ \E s \in KernelStages \cup {"pm"} : stage' = [stage EXCEPT ![Kernel] = s]
      BY <1>15 DEF Life!CheckMp1, Life!CheckRsmu, Life!PreparePmTable, Life!FirstRead,
         Life!CreateFiles, KernelStages
    <2>2. codename = Life!ResolveCpuClass(cpu)
      BY <1>4, <1>5, <2>1
    <2> QED
      BY <1>1, <1>2, <1>3, <1>4, <2>1, <2>2 DEF PageInv, KernelStages
  <1>16. CASE Life!Remove
    BY <1>1, <1>2, <1>16 DEF Life!Remove, PageInv
  <1> QED
    BY <1>6, <1>7, <1>8, <1>9, <1>10, <1>11, <1>12, <1>13, <1>14, <1>15, <1>16
       DEF Life!Next, Life!vars, Life!Millisecond

\* A PM table is copied in the first binding only from memory that is mapped and
\* into a buffer that holds it, though some tables of the driver are larger than
\* that buffer, and in every binding to a reader whose page it fits, but for the
\* tables named, whatever the processors, the versions of their tables and the
\* readers, and whichever commands fail (smu_read_pm_table, ryzen_smu_probe,
\* pm_table_show).
THEOREM TheTableFits == Life!Spec => []PmTableFits
  <1>1. Life!TypeOK /\ Attached /\ PageInv /\ [Life!Next]_Life!vars => PageInv'
    BY PageStep
  <1>2. LifeInv /\ PageInv => PmTableFits
    BY LifeGives, PageGives DEF PmTableFits, Life!PmTableFits
  <1> QED
    BY <1>1, <1>2, LifeInvariant, LifeAttached, PageInit, PTL DEF Life!Spec

=============================================================================
