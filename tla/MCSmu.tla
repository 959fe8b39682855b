------------------------------- MODULE MCSmu -------------------------------
(* Model-checking instances of the two modules of the SMU driver, side by  *)
(* side: a behaviour is one of the mailboxes, or one of the driver's life, *)
(* in which a command is a single step.  The processors are every model    *)
(* and package that the driver knows, with every version of each table.    *)
EXTENDS SmuDriver
CONSTANTS u1, u2

Cpu(f, m, p) == [family |-> f, model |-> m, pkg |-> p]
AllCpus ==
  {Cpu(\h17, \h01, p) : p \in {2, 4, 7}} \cup {Cpu(\h17, \h08, p) : p \in {2, 7}}
  \cup {Cpu(\h17, m, 0) : m \in {\h05, \h11, \h20, \h31, \h60, \h68, \h71, \h90}}
  \cup {Cpu(\h17, \h18, p) : p \in {0, 2}}
  \cup {Cpu(\h19, m, 0) : m \in {\h01, \h08, \h18, \h21, \h44, \h50, \h61, \h74, \h75}}
  \cup {Cpu(\h1a, m, 0) : m \in {\h24, \h44, \h70}}

AllVersions(c) == {1} \cup {e[1] : e \in PmTableSizes(c)}

\* The processor of the behaviours that are of the mailboxes.
NoCpu == Cpu(0, 0, 0)
Mailbox == cpu = NoCpu

MCCpus == {NoCpu} \cup AllCpus

MCInit == Init /\ Life!Init
MCNext ==
  \/ Mailbox /\ Next /\ UNCHANGED lifeVars
  \/ ~Mailbox /\ Life!Next /\ UNCHANGED vars
MCVars == <<vars, lifeVars>>
MCSpec == MCInit /\ [][MCNext]_MCVars

\* The fairness of SmuMailbox.
MCFairSpec ==
  /\ MCSpec
  /\ \A t \in Users :
       /\ WF_MCVars(Mailbox /\ Proceed(t) /\ UNCHANGED lifeVars)
       /\ SF_MCVars(Mailbox /\ SendCommand(t) /\ UNCHANGED lifeVars)
       /\ SF_MCVars(Mailbox /\ SmnAddress(t) /\ UNCHANGED lifeVars)
===========================================================================
