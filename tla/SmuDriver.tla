----------------------------- MODULE SmuDriver -----------------------------
(***************************************************************************)
(* The two modules of the Ryzen SMU driver side by side: the commands that *)
(* its threads send to a mailbox (SmuMailbox), and the life of the driver  *)
(* in which a command is a single step (Smu).                              *)
(***************************************************************************)
EXTENDS SmuMailbox, SmuTables

CONSTANTS Kernel, Cpus, Versions(_), MaxBinds   \* as in Smu

ASSUME KernelAssumption == Kernel \notin Users /\ MaxBinds \in Nat

VARIABLES cpu, version, codename, shown, binds, up, stage, cmdNo, base, size,
          fresh, virt, alt, readLen, buffer, page
lifeVars == <<cpu, version, codename, shown, binds, up, stage, cmdNo, base, size,
              fresh, virt, alt, readLen, buffer, page>>

Life == INSTANCE Smu

\* A PM table is copied into a buffer that holds it, and to a page that does,
\* with the exceptions that Smu names.
PmTableFits == Life!PmTableFits
============================================================================
