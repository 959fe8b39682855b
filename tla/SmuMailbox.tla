----------------------------- MODULE SmuMailbox -----------------------------
(***************************************************************************)
(* The commands of the Ryzen SMU driver: the indirect SMN window and the   *)
(* mailboxes of smu.c, with the sysfs files of drv.c that use them.        *)
(* Threads run side by side; the firmware answers a mailbox whenever it    *)
(* likes, or never.                                                        *)
(*                                                                         *)
(* Simplifications: the six argument registers of a mailbox are one, known *)
(* by the session that filled it or was answered there; the four errors of *)
(* the firmware are one; the SMN file touches a register of no mailbox.    *)
(***************************************************************************)
EXTENDS Integers

CONSTANTS
  Users,       \* threads that use the sysfs files
  Nobody,      \* no holder of a mutex
  Mailboxes,   \* the mailboxes that the processor has
  Attempts,    \* smu_timeout_attempts
  RetryMod,    \* 2^32: retries is a u32
  PciFails     \* whether a PCI configuration access may fail

None == "none"

ASSUME SmuAssumption ==
  /\ Nobody \notin Users /\ None \notin Mailboxes
  /\ RetryMod \in Nat \ {0} /\ Attempts \in 0 .. RetryMod - 1
  /\ PciFails \in BOOLEAN

AllMailboxes == {"RSMU", "MP1", "HSMP"}
Registers == ({"rsp", "args", "cmd"} \X Mailboxes) \cup {<<"smn", None>>}

\* A response register: still processing, done, or done with an error.
Responses == {"zero", "OK", "Failed"}

\* What an argument register holds: the request of a session or its answer.
Tokens == [kind : {"request", "answer", "stale"}, of : Users \cup {Nobody}]
Request(t) == [kind |-> "request", of |-> t]
AnswerTo(q) == [kind |-> IF q.kind = "request" THEN "answer" ELSE "stale", of |-> q.of]
NoJob == [kind |-> "stale", of |-> Nobody]

Results == {"OK", "Failed", "CommandTimeout", "PCIFailed", "Unsupported"}

VARIABLES
  rsp, args, job,             \* per mailbox: registers; what the firmware does
  addrReg, inWindow, smuLock, \* the SMN window; who holds amd_pci_mutex,
                              \* amd_smu_mutex
  pc, mb, retries, tmp, ret,  \* per thread: step, locals of smu_send_command
  spoiled                     \* history: a wait has run out, or an access failed

mailVars == <<rsp, args, job>>
vars == <<mailVars, addrReg, inWindow, smuLock, pc, mb, retries, tmp, ret, spoiled>>

Goto(t, p) == pc' = [pc EXCEPT ![t] = p]

----------------------------------------------------------------------------
(* smu_smn_rw_address: the address, then the data, under amd_pci_mutex.    *)

Target(t) ==
  CASE pc[t] \in {"wait1", "clear", "wait2"} -> <<"rsp", mb[t]>>
    [] pc[t] \in {"args", "fetch"} -> <<"args", mb[t]>>
    [] pc[t] = "cmd" -> <<"cmd", mb[t]>>
    [] OTHER -> <<"smn", None>>

Accessing == {"wait1", "clear", "args", "cmd", "wait2", "fetch", "smn"}

\* Mutant: smu_smn_rw_address without its mutex.
PciLockNoMutex(t) == t \notin inWindow /\ inWindow' = inWindow \cup {t}

PciLock(t) == inWindow = {} /\ inWindow' = {t}

\* The mutex is taken and the address register programmed.
SmnAddress(t) ==
  /\ pc[t] \in Accessing /\ PciLock(t)
  /\ addrReg' = Target(t)
  /\ UNCHANGED <<mailVars, smuLock, pc, mb, retries, tmp, ret, spoiled>>

\* The data is transferred, with the register that the address names.
SmnData(t) == t \in inWindow /\ inWindow' = inWindow \ {t} /\ UNCHANGED addrReg

\* Either access of the two has failed.
SmnError(t) == PciFails /\ SmnData(t)

----------------------------------------------------------------------------
(* smu_send_command.                                                       *)

SendCommand(t) ==
  /\ pc[t] = "lock" /\ smuLock = Nobody /\ smuLock' = t
  /\ retries' = [retries EXCEPT ![t] = Attempts]
  /\ Goto(t, "wait1")
  /\ UNCHANGED <<mailVars, addrReg, inWindow, mb, tmp, ret, spoiled>>

\* Mutant: The error paths of step 1 and 5 do not unlock amd_smu_mutex.
LeaveLocked(t, r) ==
  /\ IF r = "OK" THEN smuLock' = Nobody ELSE UNCHANGED smuLock
  /\ ret' = [ret EXCEPT ![t] = r] /\ Goto(t, "ret")

Leave(t, r) ==
  /\ smuLock' = Nobody /\ ret' = [ret EXCEPT ![t] = r] /\ Goto(t, "ret")

\* One round of "do ... while (tmp == 0 && retries--)": again while nothing
\* has come; the decrement that ends the loop wraps around.
PollAgain(t) ==
  /\ rsp[mb[t]] = "zero" /\ retries[t] # 0
  /\ retries' = [retries EXCEPT ![t] = @ - 1]

PollEnds(t) ==
  \/ rsp[mb[t]] # "zero" /\ UNCHANGED <<retries, spoiled>>
  \/ /\ rsp[mb[t]] = "zero" /\ retries[t] = 0
     /\ retries' = [retries EXCEPT ![t] = (@ - 1) % RetryMod]
     /\ spoiled' = TRUE

\* Steps 1 and 1.b: a mailbox that is free has a response.
Wait1(t) ==
  /\ pc[t] = "wait1" /\ SmnData(t)
  /\ tmp' = [tmp EXCEPT ![t] = rsp[mb[t]]]
  /\ \/ PollAgain(t) /\ UNCHANGED <<smuLock, pc, ret, spoiled>>
     \/ /\ PollEnds(t)
        /\ IF retries'[t] = 0 /\ tmp'[t] = "zero"
           THEN Leave(t, "CommandTimeout")
           ELSE Goto(t, "clear") /\ UNCHANGED <<smuLock, ret>>
  /\ UNCHANGED <<mailVars, mb>>

\* Mutant: Step 2 left out.
ClearRspNot(t) ==
  /\ pc[t] = "clear" /\ SmnData(t) /\ Goto(t, "args")
  /\ UNCHANGED <<mailVars, smuLock, mb, retries, tmp, ret, spoiled>>

\* Step 2.
ClearRsp(t) ==
  /\ pc[t] = "clear" /\ SmnData(t) /\ Goto(t, "args")
  /\ rsp' = [rsp EXCEPT ![mb[t]] = "zero"]
  /\ UNCHANGED <<args, job, smuLock, mb, retries, tmp, ret, spoiled>>

\* Step 3.
WriteArgs(t) ==
  /\ pc[t] = "args" /\ SmnData(t) /\ Goto(t, "cmd")
  /\ args' = [args EXCEPT ![mb[t]] = Request(t)]
  /\ UNCHANGED <<rsp, job, smuLock, mb, retries, tmp, ret, spoiled>>

\* Step 4: the firmware takes the command with the arguments that are there.
WriteCmd(t) ==
  /\ pc[t] = "cmd" /\ SmnData(t) /\ Goto(t, "wait2")
  /\ job' = [job EXCEPT ![mb[t]] = args[mb[t]]]
  /\ UNCHANGED <<rsp, args, smuLock, mb, retries, tmp, ret, spoiled>>

\* The result of a write of steps 2 to 4 is ignored.
WriteIgnored(t) ==
  /\ pc[t] \in {"clear", "args", "cmd"} /\ SmnError(t)
  /\ Goto(t, CASE pc[t] = "clear" -> "args" [] pc[t] = "args" -> "cmd" [] OTHER -> "wait2")
  /\ spoiled' = TRUE
  /\ UNCHANGED <<mailVars, smuLock, mb, retries, tmp, ret>>

\* Steps 5 and 6, with the retries that step 1 has left.
Wait2(t) ==
  /\ pc[t] = "wait2" /\ SmnData(t)
  /\ tmp' = [tmp EXCEPT ![t] = rsp[mb[t]]]
  /\ \/ PollAgain(t) /\ UNCHANGED <<smuLock, pc, ret, spoiled>>
     \/ /\ PollEnds(t)
        /\ IF tmp'[t] # "OK" /\ retries'[t] = 0
           THEN Leave(t, IF tmp'[t] = "zero" THEN "CommandTimeout" ELSE tmp'[t])
           ELSE Goto(t, "fetch") /\ UNCHANGED <<smuLock, ret>>
  /\ UNCHANGED <<mailVars, mb>>

\* A poll that fails ends the call.
PollFails(t) ==
  /\ pc[t] \in {"wait1", "wait2"} /\ SmnError(t)
  /\ Leave(t, "PCIFailed")
  /\ UNCHANGED <<mailVars, mb, retries, tmp, spoiled>>

\* Step 7: the arguments are read back; one that cannot be read is left.
Fetch(t) ==
  /\ pc[t] = "fetch"
  /\ \/ SmnData(t) /\ UNCHANGED spoiled
     \/ SmnError(t) /\ spoiled' = TRUE
  /\ Leave(t, "OK")
  /\ UNCHANGED <<mailVars, mb, retries, tmp>>

\* The firmware ends its command; it reads the arguments when it begins.
Answer(m) ==
  /\ job[m] # NoJob
  /\ args' = [args EXCEPT ![m] = AnswerTo(job[m])]
  /\ job' = [job EXCEPT ![m] = NoJob]
  /\ \E r \in Responses \ {"zero"} : rsp' = [rsp EXCEPT ![m] = r]
  /\ UNCHANGED <<addrReg, inWindow, smuLock, pc, mb, retries, tmp, ret, spoiled>>

----------------------------------------------------------------------------
(* drv.c: the sysfs files.  The result is kept in smu_rsp, which only      *)
(* rsmu_cmd_show and its like read.                                        *)

\* rsmu_cmd_store, mp1_smu_cmd_store, hsmp_smu_cmd_store: a mailbox that the
\* processor does not have is refused before the mutex.
CmdStore(t, m) ==
  /\ pc[t] = "idle"
  /\ IF m \in Mailboxes
     THEN Goto(t, "lock") /\ mb' = [mb EXCEPT ![t] = m] /\ UNCHANGED ret
     ELSE Goto(t, "ret") /\ ret' = [ret EXCEPT ![t] = "Unsupported"] /\ UNCHANGED mb
  /\ UNCHANGED <<mailVars, addrReg, inWindow, smuLock, retries, tmp, spoiled>>

\* smn_store: a read and a write of one register are the same step here.
SmnStore(t) ==
  /\ pc[t] = "idle" /\ Goto(t, "smn")
  /\ UNCHANGED <<mailVars, addrReg, inWindow, smuLock, mb, retries, tmp, ret, spoiled>>

SmnDone(t) ==
  /\ pc[t] = "smn" /\ Goto(t, "ret")
  /\ \/ SmnData(t) /\ ret' = [ret EXCEPT ![t] = "OK"]
     \/ SmnError(t) /\ ret' = [ret EXCEPT ![t] = "PCIFailed"]
  /\ UNCHANGED <<mailVars, smuLock, mb, retries, tmp, spoiled>>

\* The call returns; its locals are gone.
Reply(t) ==
  /\ pc[t] = "ret" /\ Goto(t, "idle")
  /\ mb' = [mb EXCEPT ![t] = None] /\ retries' = [retries EXCEPT ![t] = 0]
  /\ tmp' = [tmp EXCEPT ![t] = "zero"] /\ ret' = [ret EXCEPT ![t] = "OK"]
  /\ UNCHANGED <<mailVars, addrReg, inWindow, smuLock, spoiled>>

----------------------------------------------------------------------------
Init ==
  /\ rsp = [m \in Mailboxes |-> "OK"]
  /\ args = [m \in Mailboxes |-> NoJob] /\ job = [m \in Mailboxes |-> NoJob]
  /\ addrReg = <<"smn", None>> /\ inWindow = {} /\ smuLock = Nobody
  /\ pc = [t \in Users |-> "idle"] /\ mb = [t \in Users |-> None]
  /\ retries = [t \in Users |-> 0] /\ tmp = [t \in Users |-> "zero"]
  /\ ret = [t \in Users |-> "OK"]
  /\ spoiled = FALSE

\* The steps that wait for no mutex.
Proceed(t) ==
  \/ Wait1(t) \/ ClearRsp(t) \/ WriteArgs(t) \/ WriteCmd(t) \/ WriteIgnored(t)
  \/ Wait2(t) \/ PollFails(t) \/ Fetch(t) \/ SmnDone(t) \/ Reply(t)

Begin(t) == SmnStore(t) \/ \E m \in AllMailboxes : CmdStore(t, m)

Next ==
  \/ \E t \in Users : SendCommand(t) \/ SmnAddress(t) \/ Proceed(t) \/ Begin(t)
  \/ \E m \in Mailboxes : Answer(m)

Spec == Init /\ [][Next]_vars

\* A thread goes on, and gets a mutex that is given up again and again.  The
\* firmware promises nothing.
FairSpec ==
  /\ Spec
  /\ \A t \in Users : WF_vars(Proceed(t)) /\ SF_vars(SendCommand(t)) /\ SF_vars(SmnAddress(t))

----------------------------------------------------------------------------
TypeOK ==
  /\ rsp \in [Mailboxes -> Responses] /\ args \in [Mailboxes -> Tokens]
  /\ job \in [Mailboxes -> Tokens]
  /\ addrReg \in Registers /\ inWindow \subseteq Users /\ smuLock \in Users \cup {Nobody}
  /\ pc \in [Users -> Accessing \cup {"idle", "lock", "ret"}]
  /\ mb \in [Users -> Mailboxes \cup {None}]
  /\ retries \in [Users -> 0 .. RetryMod - 1] /\ tmp \in [Users -> Responses]
  /\ ret \in [Users -> Results] /\ spoiled \in BOOLEAN

\* A transfer of data uses the register that its own thread has named, though
\* the address register is one for all threads (smu_smn_rw_address).
SmnAddressed == \A t \in Users : t \in inWindow => addrReg = Target(t)

\* The arguments that a call of smu_send_command reads back are the answer of
\* the firmware to that very call, neither one left over from an earlier call
\* nor one meant for another thread; unless a wait has run out, or an access
\* has failed that the code goes on after.
AnswerIsOwn ==
  \A t \in Users :
    pc[t] = "fetch" => args[mb[t]] = [kind |-> "answer", of |-> t] \/ spoiled

\* Every call returns, even if the firmware never answers: no wait is endless
\* and no path keeps a mutex.
CallsReturn == \A t \in Users : []<>(pc[t] = "idle")

\* A command reports OK only if the firmware has responded OK ("Step 6: If the
\* Response register contains OK, then SMU has finished processing", smu.c).
OkMeansOk ==
  \A t \in Users : pc[t] = "ret" /\ mb[t] # None /\ ret[t] = "OK" => tmp[t] = "OK"

----------------------------------------------------------------------------
(* What smu_send_command promises: SmuCommands.                            *)

\* How far the command of thread t is.
Phase(t) ==
  CASE mb[t] = None -> "none"
    [] pc[t] \in {"lock", "wait1", "clear", "args", "cmd"} -> "called"
    [] pc[t] = "wait2" -> IF job[mb[t]] = Request(t) THEN "issued" ELSE "performed"
    [] pc[t] = "fetch" -> "performed"
    [] OTHER -> IF ret[t] = "OK" THEN "OK" ELSE "error"
Phases == [t \in Users |-> Phase(t)]

\* Whose request the firmware of each mailbox works on.
Todo == [m \in Mailboxes |-> IF job[m].kind = "request" THEN job[m].of ELSE Nobody]

Commands == INSTANCE SmuCommands WITH phase <- Phases, box <- mb, todo <- Todo, lost <- spoiled

\* A command is with the firmware alone and is performed once, and a call that
\* returns OK was performed meanwhile, though the mailboxes have one answer
\* register and calls may give up (smu_send_command).
ImplementsCommands == Commands!CmdSpec
=============================================================================
