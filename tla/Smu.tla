-------------------------------- MODULE Smu --------------------------------
(***************************************************************************)
(* The life of the Ryzen SMU driver: its probe, its removal and the PM     *)
(* table (drv.c, and the functions of smu.c that send several commands).   *)
(* A command is one step here, with any result: amd_smu_mutex serialises   *)
(* them, and SmuMailbox has their protocol.                                *)
(***************************************************************************)
EXTENDS SmuTables, Sequences

CONSTANTS
  Users,       \* threads that read the file pm_table
  Kernel,      \* the thread that binds and unbinds the driver
  Cpus,        \* the processors, as CPUID describes them
  Versions(_), \* the versions that the PM table of a class may have
  MaxBinds     \* bound: how often the driver is bound

Threads == Users \cup {Kernel}

VARIABLES
  cpu, version,               \* the machine: CPUID, version of its PM table
  codename, shown, binds, up, \* driver: class, optional files, life
  stage, cmdNo,               \* per thread: its step; which command of several
  base, size, fresh,          \* g_smu.pm_dram_base, _map_size, pm_jiffies
  virt, alt,                  \* whether each table is mapped
  readLen, buffer,            \* g_driver.pm_table_read_size, pm_table
  page                        \* the bytes last copied to a reader's page

machine == <<cpu, version>>
drvVars == <<codename, shown, binds, up>>
vars == <<machine, drvVars, stage, cmdNo, base, size, fresh, virt, alt, readLen, buffer,
          page>>

Enter(t, s) == stage' = [stage EXCEPT ![t] = s]

\* What smu_send_command returns: an unknown command or mailbox is refused.
Outcomes(m, cmd) ==
  IF cmd # NoCmd /\ m \in Defined(codename) THEN {"OK", "Failed"} ELSE {"Unsupported"}

----------------------------------------------------------------------------
(* smu_read_pm_table, for the probe and for the file pm_table: it ends in  *)
(* the stage "read" or "notRead".                                          *)

\* What is cached of the table survives remove; it is asked for once.
ReadPmTable(t) ==
  /\ stage[t] = "pm" /\ cmdNo' = [cmdNo EXCEPT ![t] = 1]
  /\ Enter(t, IF base = "none" \/ size = 0 THEN "base" ELSE "len")
  /\ UNCHANGED <<machine, drvVars, base, size, fresh, virt, alt, readLen, buffer, page>>

\* smu_get_dram_base_address: its commands in order; an error, or an address
\* below 0xFF, becomes the base.  The code goes on with a base that is not below
\* 0xFF, and SMU_Return_Failed is 0xFF.
GetBase(t) ==
  /\ stage[t] = "base"
  /\ LET cmds == DramBaseCmds(codename)
         cmd == IF cmds = <<>> THEN NoCmd ELSE cmds[cmdNo[t]]
         goOn == Enter(t, IF AsksVersion(codename) THEN "version" ELSE "size")
     IN \E r \in Outcomes("RSMU", cmd) :
          \/ /\ r = "OK" /\ cmdNo[t] < Len(cmds)
             /\ cmdNo' = [cmdNo EXCEPT ![t] = @ + 1] /\ UNCHANGED <<base, stage>>
          \/ r = "OK" /\ cmdNo[t] = Len(cmds) /\ base' = "known" /\ goOn /\ UNCHANGED cmdNo
          \/ r = "Failed" /\ base' = "error" /\ goOn /\ UNCHANGED cmdNo
          \/ /\ r # "OK" \/ cmdNo[t] = Len(cmds)
             /\ base' = "error" /\ Enter(t, "notRead") /\ UNCHANGED cmdNo
  /\ UNCHANGED <<machine, drvVars, size, fresh, virt, alt, readLen, buffer, page>>

GetVersion(t) ==
  /\ stage[t] = "version"
  /\ \E r \in Outcomes("RSMU", VersionCmd(codename)) :
       Enter(t, IF r = "OK" THEN "size" ELSE "notRead")
  /\ UNCHANGED <<machine, drvVars, cmdNo, base, size, fresh, virt, alt, readLen, buffer, page>>

\* smu_update_pmtable_size; a processor that is not asked has no version.
UpdateSize(t) ==
  /\ stage[t] = "size"
  /\ LET n == PmTableSize(codename, IF AsksVersion(codename) THEN version ELSE 0) IN
       IF n = 0 THEN Enter(t, "notRead") /\ UNCHANGED size
                ELSE Enter(t, "len") /\ size' = n
  /\ UNCHANGED <<machine, drvVars, cmdNo, base, fresh, virt, alt, readLen, buffer, page>>

\* Mutant: The length of the buffer is not compared.
CheckLenNot(t) ==
  /\ stage[t] = "len" /\ readLen' = size /\ fresh' = TRUE
  /\ Enter(t, IF fresh THEN "map" ELSE "transfer")
  /\ UNCHANGED <<machine, drvVars, cmdNo, base, size, virt, alt, buffer, page>>

\* The length is replaced by the size of the table, on success or not.  The
\* table is transferred anew unless that was done within the last ms.
CheckLen(t) ==
  /\ stage[t] = "len" /\ readLen' = size
  /\ IF readLen < size
     THEN Enter(t, "notRead") /\ UNCHANGED fresh
     ELSE Enter(t, IF fresh THEN "map" ELSE "transfer") /\ fresh' = TRUE
  /\ UNCHANGED <<machine, drvVars, cmdNo, base, size, virt, alt, buffer, page>>

Millisecond ==
  /\ fresh /\ fresh' = FALSE
  /\ UNCHANGED <<machine, drvVars, stage, cmdNo, base, size, virt, alt, readLen, buffer, page>>

\* smu_transfer_table_to_dram and smu_transfer_2nd_table_to_dram.
Transfer(t) ==
  /\ \/ /\ stage[t] = "transfer"
        /\ \E r \in Outcomes("RSMU", TransferCmd(codename)) :
             Enter(t, IF r # "OK" THEN "notRead"
                      ELSE IF AltSize(codename) # 0 THEN "transfer2nd" ELSE "map")
     \/ /\ stage[t] = "transfer2nd"
        /\ \E r \in Outcomes("RSMU", Transfer2ndCmd(codename)) :
             Enter(t, IF r = "OK" THEN "map" ELSE "notRead")
  /\ UNCHANGED <<machine, drvVars, cmdNo, base, size, fresh, virt, alt, readLen, buffer, page>>

\* The memory is mapped once, the second table with the first; each mapping
\* may fail.
Map(t) ==
  /\ stage[t] = "map"
  /\ \/ virt /\ Enter(t, "copy") /\ UNCHANGED <<virt, alt>>
     \/ ~virt /\ Enter(t, "notRead") /\ UNCHANGED <<virt, alt>>
     \/ /\ ~virt /\ virt' = TRUE
        /\ IF AltSize(codename) = 0
           THEN Enter(t, "copy") /\ UNCHANGED alt
           ELSE alt' \in BOOLEAN /\ Enter(t, IF alt' THEN "copy" ELSE "notRead")
  /\ UNCHANGED <<machine, drvVars, cmdNo, base, size, fresh, readLen, buffer, page>>

\* Both tables are copied to the buffer.
Copy(t) ==
  /\ stage[t] = "copy" /\ Enter(t, "read")
  /\ UNCHANGED <<machine, drvVars, cmdNo, base, size, fresh, virt, alt, readLen, buffer, page>>

----------------------------------------------------------------------------
(* drv.c.                                                                  *)

\* ryzen_smu_probe begins: smu_init keeps a class that is known already; it
\* refuses one for which it has no mailbox.
Probe ==
  /\ up = "unbound" /\ binds < MaxBinds /\ binds' = binds + 1
  /\ codename' = IF codename # UNDEFINED THEN codename ELSE ResolveCpuClass(cpu)
  /\ IF Mp1IfVersion(codename') = 0
     THEN UNCHANGED <<up, stage>>
     ELSE up' = "probing" /\ Enter(Kernel, "mp1Version")
  /\ UNCHANGED <<machine, shown, cmdNo, base, size, fresh, virt, alt, readLen, buffer, page>>

\* smu_get_version through ryzen_smu_get_version: a number up to 0xFF is taken
\* for an error, so that an answer can fail as well.
VersionResults(m) == {r = "OK" : r \in Outcomes(m, \h02)} \cup {FALSE}

\* MP1 must answer.
CheckMp1 ==
  /\ stage[Kernel] = "mp1Version"
  /\ \E good \in VersionResults("MP1") :
       IF good THEN Enter(Kernel, "rsmuVersion") /\ UNCHANGED up
               ELSE Enter(Kernel, "idle") /\ up' = "unbound"
  /\ UNCHANGED <<machine, codename, shown, binds, cmdNo, base, size, fresh, virt, alt,
                 readLen, buffer, page>>

\* RSMU may: then its file is added, and the PM table tried.
CheckRsmu ==
  /\ stage[Kernel] = "rsmuVersion"
  /\ \E good \in VersionResults("RSMU") :
       IF good THEN Enter(Kernel, "firstTransfer") /\ shown' = shown \cup {"rsmu_cmd"}
               ELSE Enter(Kernel, "setup") /\ UNCHANGED shown
  /\ UNCHANGED <<machine, codename, binds, up, cmdNo, base, size, fresh, virt, alt,
                 readLen, buffer, page>>

\* The transfer and the version must work, or not exist; the buffer has the
\* size that the header calls the largest.
PreparePmTable ==
  /\ \/ /\ stage[Kernel] = "firstTransfer"
        /\ \E r \in Outcomes("RSMU", TransferCmd(codename)) :
             Enter(Kernel, IF r = "OK" THEN "firstVersion" ELSE "setup")
        /\ UNCHANGED buffer
     \/ /\ stage[Kernel] = "firstVersion"
        /\ \E r \in Outcomes("RSMU", VersionCmd(codename)) :
             IF r \in {"OK", "Unsupported"}
             THEN \/ Enter(Kernel, "pm") /\ buffer' = "live"
                  \/ Enter(Kernel, "setup") /\ buffer' = "none"
             ELSE Enter(Kernel, "setup") /\ UNCHANGED buffer
  /\ UNCHANGED <<machine, drvVars, cmdNo, base, size, fresh, virt, alt, readLen, page>>

\* The file pm_table is added if the first read went well.
FirstRead ==
  /\ stage[Kernel] \in {"read", "notRead"} /\ Enter(Kernel, "setup")
  /\ shown' = IF stage[Kernel] = "read" THEN shown \cup {"pm_table"} ELSE shown
  /\ UNCHANGED <<machine, codename, binds, up, cmdNo, base, size, fresh, virt, alt,
                 readLen, buffer, page>>

\* All the files are created that this or an earlier probe has added; the
\* buffer is freed if the files, but not if their directory, cannot be made.
CreateFiles ==
  /\ stage[Kernel] = "setup" /\ Enter(Kernel, "idle")
  /\ \/ up' = "bound" /\ UNCHANGED buffer
     \/ up' = "unbound" /\ buffer' \in {buffer, IF buffer = "none" THEN "none" ELSE "freed"}
  /\ UNCHANGED <<machine, codename, shown, binds, cmdNo, base, size, fresh, virt, alt, readLen, page>>

\* ryzen_smu_remove, which waits for the calls of the files, and smu_cleanup.
\* Neither the pointer to the buffer, nor the files that were added, nor the
\* base, the size and the length are reset.
Remove ==
  /\ up = "bound" /\ \A u \in Users : stage[u] = "idle"
  /\ up' = "unbound" /\ codename' = UNDEFINED
  /\ buffer' = (IF buffer = "none" THEN "none" ELSE "freed")
  /\ virt' = FALSE /\ alt' = FALSE
  /\ UNCHANGED <<machine, shown, binds, stage, cmdNo, base, size, fresh, readLen, page>>

\* pm_table_show begins.
PmTableShow(u) ==
  /\ up = "bound" /\ "pm_table" \in shown
  /\ stage[u] = "idle" /\ Enter(u, "pm")
  /\ UNCHANGED <<machine, drvVars, cmdNo, base, size, fresh, virt, alt, readLen, buffer, page>>

\* If the table was read, pm_table_show copies it from the driver's buffer to the
\* page of the reader, in the length that the driver keeps.
Reply(u) ==
  /\ \/ stage[u] = "read" /\ page' = readLen
     \/ stage[u] = "notRead" /\ UNCHANGED page
  /\ Enter(u, "idle")
  /\ UNCHANGED <<machine, drvVars, cmdNo, base, size, fresh, virt, alt, readLen, buffer>>

----------------------------------------------------------------------------
Init ==
  /\ cpu \in Cpus /\ version \in Versions(ResolveCpuClass(cpu))
  /\ codename = UNDEFINED /\ shown = {} /\ binds = 0 /\ up = "unbound"
  /\ stage = [t \in Threads |-> "idle"] /\ cmdNo = [t \in Threads |-> 1]
  /\ base = "none" /\ size = 0 /\ fresh = FALSE /\ virt = FALSE /\ alt = FALSE
  /\ readLen = PM_TABLE_MAX_SIZE /\ buffer = "none" /\ page = 0

Next ==
  \/ \E t \in Threads :
       ReadPmTable(t) \/ GetBase(t) \/ GetVersion(t) \/ UpdateSize(t) \/ CheckLen(t)
         \/ Transfer(t) \/ Map(t) \/ Copy(t)
  \/ \E u \in Users : PmTableShow(u) \/ Reply(u)
  \/ Probe \/ CheckMp1 \/ CheckRsmu \/ PreparePmTable \/ FirstRead \/ CreateFiles
  \/ Remove \/ Millisecond

Spec == Init /\ [][Next]_vars

----------------------------------------------------------------------------
TypeOK ==
  /\ shown \subseteq {"rsmu_cmd", "pm_table"}
  /\ binds \in 0 .. MaxBinds /\ up \in {"unbound", "probing", "bound"}
  /\ stage \in [Threads -> {"idle", "mp1Version", "rsmuVersion", "firstTransfer",
       "firstVersion", "setup", "pm", "base", "version", "size", "len", "transfer",
       "transfer2nd", "map", "copy", "read", "notRead"}]
  /\ cmdNo \in [Threads -> 1 .. 5]
  /\ \A t \in Threads :
       stage[t] = "base" => cmdNo[t] = 1 \/ cmdNo[t] \leq Len(DramBaseCmds(codename))
  /\ base \in {"none", "known", "error"} /\ {size, readLen, page} \subseteq Nat
  /\ {fresh, virt, alt} \subseteq BOOLEAN /\ buffer \in {"none", "live", "freed"}

\* What a reader of a sysfs file has room for.
PageSize == \h1000

\* The processors and versions whose table is longer than a page.
LongTables ==
  {<<"MATISSE", \h240003>>, <<"MILAN", \h2D0008>>,
   <<"VERMEER", \h380005>>, <<"CHAGALL", \h380005>>}
  \cup {"STORMPEAK"} \X
         {\h5C0002, \h5C0003, \h5C0102, \h5C0103, \h5C0202, \h5C0203}

\* In its first binding the driver copies a PM table only from memory that it
\* has mapped, and into a buffer that holds it, though PM_TABLE_MAX_SIZE is not
\* the largest size in its tables (smu_read_pm_table, ryzen_smu_probe).  In a
\* later binding it may not: a size that was too large is kept as the length of
\* the buffer.  In every binding what pm_table_show then copies to the reader
\* fits its page, except for the tables that are longer than a page: the copy
\* of one of those goes on behind it.
PmTableFits ==
  /\ \A t \in Threads :
       stage[t] = "copy" /\ binds = 1 =>
         /\ buffer = "live" /\ size \leq PM_TABLE_MAX_SIZE
         /\ virt /\ (AltSize(codename) # 0 => alt)
  /\ page \leq PageSize \/ <<ResolveCpuClass(cpu), version>> \in LongTables

\* What is mapped is the address of the PM table ("Verify returned value isn't
\* an SMU return value", smu_read_pm_table).
MapsTheTable == \A t \in Threads : stage[t] = "copy" => base = "known"

=============================================================================
