---------------------------- MODULE SmuCommands ----------------------------
(***************************************************************************)
(* What smu_send_command promises the threads that call it, without        *)
(* mutexes, registers, waits or the SMN window: one command at a time is   *)
(* with the firmware; the firmware performs it once; and a call that       *)
(* returns OK was performed between its call and its return.  A call that  *)
(* has given up may be performed later, but before the next one of its     *)
(* mailbox is issued.                                                      *)
(***************************************************************************)
CONSTANTS
  Users, Mailboxes,
  Nobody, None   \* no thread, no mailbox

VARIABLES
  phase,   \* how far each thread's command is
  box,     \* the mailbox that it is for
  todo,    \* whose command each mailbox has yet to perform
  lost     \* a wait has run out, or an access has failed: nothing is promised
cmdVars == <<phase, box, todo, lost>>

Move(t, p) == phase' = [phase EXCEPT ![t] = p]
InFlight(t) == phase[t] \in {"issued", "performed"}

CmdInit ==
  /\ phase = [t \in Users |-> "none"] /\ box = [t \in Users |-> None]
  /\ todo = [m \in Mailboxes |-> Nobody] /\ lost = FALSE

Call(t, m) ==
  /\ phase[t] = "none" /\ Move(t, "called")
  /\ box' = [box EXCEPT ![t] = m]
  /\ UNCHANGED todo

\* The firmware is given the command.
Issue(t) ==
  /\ phase[t] = "called" /\ Move(t, "issued")
  /\ \A u \in Users : ~InFlight(u)
  /\ todo[box[t]] = Nobody /\ todo' = [todo EXCEPT ![box[t]] = t]
  /\ UNCHANGED box

\* The firmware has performed what mailbox m was given, with success or not;
\* nobody may be waiting for it any more.
Perform(m) ==
  /\ todo[m] # Nobody /\ todo' = [todo EXCEPT ![m] = Nobody]
  /\ phase' = [t \in Users |-> IF t = todo[m] /\ box[t] = m /\ phase[t] = "issued"
                               THEN "performed" ELSE phase[t]]
  /\ UNCHANGED box

Return(t) ==
  /\ \/ phase[t] = "performed" /\ Move(t, "OK")
     \/ phase[t] \in {"called", "issued", "performed"} /\ Move(t, "error")
  /\ UNCHANGED <<box, todo>>

Forget(t) ==
  /\ phase[t] \in {"OK", "error"} /\ Move(t, "none")
  /\ box' = [box EXCEPT ![t] = None]
  /\ UNCHANGED todo

CmdNext ==
  /\ \/ \E t \in Users : Issue(t) \/ Return(t) \/ Forget(t) \/ \E m \in Mailboxes : Call(t, m)
     \/ \E m \in Mailboxes : Perform(m)
  /\ UNCHANGED lost

CmdSpec == CmdInit /\ [][CmdNext \/ lost']_cmdVars

\* One command is with the firmware, and its mailbox has it to perform, once.
Promise ==
  \/ lost
  \/ \A t \in Users : InFlight(t) =>
       /\ \A u \in Users : InFlight(u) => u = t
       /\ todo[box[t]] = IF phase[t] = "issued" THEN t ELSE Nobody
=============================================================================
