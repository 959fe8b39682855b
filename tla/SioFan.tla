------------------------------- MODULE SioFan -------------------------------
(***************************************************************************)
(* The fans and the power-on setting of the IT8613 super-I/O chip, as the  *)
(* drivers ug_it86x-cpufan.c ("cpufan"), ug_it86x-sio.c ("sio") and        *)
(* ug_it86x-sio-dh2600.c ("dh2600") use them.  Each driver has a mutex of  *)
(* its own; what they share is the port region of the chip, the chip, and  *)
(* the directory /proc/it86.  A script loads and unloads the drivers.      *)
(*                                                                         *)
(* Simplifications: a fan is put into software mode and given its value in *)
(* one step, as is one bit of the power-on setting; the speeds that are    *)
(* read are not modelled; the registers of the fans are reached whether or *)
(* not the chip is in its configuration mode.                              *)
(***************************************************************************)
EXTENDS Integers, Sequences

CONSTANTS
  Users,       \* threads that use the files
  Script,      \* the thread that loads and unloads
  Foreign,     \* a driver that holds the ports without IORESOURCE_MUXED
  Nobody,      \* no holder
  Does,        \* the operations that a user calls
  Pwms,        \* values that are asked for with "set" and "cpu"
  Machines     \* the machines that are looked at

Drivers == {"cpufan", "sio", "dh2600"}
Fans == {"fan2", "fan3", "fan4"}
Bits == {"F2.5", "F4.5", "F4.6"}

ASSUME SioFanAssumption ==
  /\ Script \notin Users /\ Foreign \notin Users /\ Nobody \notin Users
  /\ Script # Foreign /\ Script # Nobody /\ Foreign # Nobody
  /\ Nobody \notin Drivers
  /\ Pwms \subseteq 1 .. 255
  /\ \A m \in Machines : /\ m.loads \in Seq(Drivers) /\ m.unloads \in Seq(Drivers)
                         /\ m.bits \subseteq Bits
                         /\ m.oldBios \in BOOLEAN /\ m.active \in BOOLEAN

\* A driver is loaded once, as a second modprobe does nothing, and the drivers
\* that are loaded are the ones that are unloaded, in whatever order.
ASSUME ScriptsAssumption ==
  \A m \in Machines :
    /\ \A i, j \in DOMAIN m.loads : m.loads[i] = m.loads[j] => i = j
    /\ \A i \in DOMAIN m.loads : \E k \in DOMAIN m.unloads : m.unloads[k] = m.loads[i]

Threads == Users \cup {Script}
Unset == -1     \* of a fan: the automatic mode that the BIOS has set

VARIABLES
  machine,             \* product, BIOS, the bits that it has set, whether the
                       \* PME device is active, and the drivers in the order
                       \* of loading and unloading
  reg, config,         \* the chip: fans and bits, configuration mode
  region,              \* who holds ports 0x2e and 0x2f
  lock,                \* per driver: update_lock
  loaded, nas, dir, files, \* drivers in the kernel; whose nas_dir is set;
                       \* whose directory /proc/it86 is, and what is in it
  script,              \* what the script is doing, and how far it is
  pc, call, todo, got, \* per thread: step, call, writes to do, bits read
  asked, strayed, torn \* history: a release of another's ports, or a directory
                       \* that is removed under its owner; the last settings,
                       \* up to either

chipVars == <<reg, config, region>>
procVars == <<loaded, nas, dir, files>>
threadVars == <<pc, call, todo, got>>
hvars == <<asked, strayed, torn>>
vars == <<machine, chipVars, lock, procVars, script, threadVars, hvars>>

NoCall == [op |-> "none", drv |-> "none", arg |-> 0]

----------------------------------------------------------------------------
(* What the drivers do with the machine they are on.                       *)

OneFan == {"DXP2800", "DXP4800"}
Plus == {"DXP4800 Plus", "DXP4800 Pro"}
Large == {"DXP6800", "DXP8800", "FORT 6"}

\* The drivers of a machine.
LoadsOf(m) == {m.loads[i] : i \in DOMAIN m.loads}


\* cpufan is loaded on products that its code knows.
KnownProducts ==
  \A m \in Machines :
    "cpufan" \in LoadsOf(m) => m.product \in OneFan \cup Plus \cup Large \cup {"DXP480T Plus"}

\* The drivers that are loaded together use the same codes.
OneBios ==
  \A m \in Machines :
    m.oldBios /\ "dh2600" \in LoadsOf(m) => LoadsOf(m) = {"dh2600"}

\* Mutant: the fourth fan is forgotten.
CpufanSetForgets(product) ==
  IF product \in OneFan \cup Plus \cup Large THEN <<"fan3">> ELSE <<"fan2", "fan4">>

\* set_fan and set_cpu_fan of cpufan: the fans that are written, in order.
CpufanSet(product) ==
  CASE product \in OneFan \cup Plus -> <<"fan3">>
    [] product \in Large -> <<"fan3", "fan4">>
    [] product = "DXP480T Plus" -> <<"fan2", "fan4">>
    [] OTHER -> <<>>

CpufanSetCpu(product) ==
  CASE product \in Plus \cup Large -> <<"fan2">>
    [] product = "DXP480T Plus" -> <<"fan3">>
    [] OTHER -> <<>>

\* What fan_read of cpufan shows as fans of the system and of the CPU.
CpufanShows(product) ==
  [set |-> IF product = "DXP480T Plus" THEN {"fan2", "fan4"}
           ELSE {"fan3"} \cup IF product \in Large THEN {"fan4"} ELSE {},
   cpu |-> IF product = "DXP480T Plus" THEN {"fan3"} ELSE {"fan2"}]

\* The driver sio has one fan, dh2600 one of each kind.
SioSet == <<"fan3">>
SioShows == [set |-> {"fan3"}, cpu |-> {}]
DhSet == <<"fan2">>
DhSetCpu == <<"fan3">>
DhShows == [set |-> {"fan2"}, cpu |-> {"fan3"}]

Written(product, d, op) ==
  CASE d = "cpufan" -> IF op = "set" THEN CpufanSet(product) ELSE CpufanSetCpu(product)
    [] d = "sio" -> IF op = "set" THEN SioSet ELSE <<>>
    [] OTHER -> IF op = "set" THEN DhSet ELSE DhSetCpu

Shows(product, d) ==
  CASE d = "cpufan" -> CpufanShows(product)
    [] d = "sio" -> SioShows
    [] OTHER -> DhShows

\* fan2_mode(SOFTWARE_MODE) and its like, then fan_write8 of the value.
FanWrites(fans, p) == [i \in DOMAIN fans |-> [to |-> fans[i], val |-> p]]

BitWrites(f25, f45, f46) ==
  <<[to |-> "F2.5", val |-> f25], [to |-> "F4.5", val |-> f45], [to |-> "F4.6", val |-> f46]>>

\* Mutant: the codes of the old BIOS.
NewBiosOld(cmd) ==
  CASE cmd = "off" -> BitWrites(0, 1, 1)
    [] cmd = "on" -> BitWrites(0, 1, 0)
    [] OTHER -> BitWrites(1, 0, 0)

\* set_bios, of all drivers on a new BIOS.
NewBios(cmd) ==
  CASE cmd = "off" -> BitWrites(0, 1, 1)
    [] cmd = "on" -> BitWrites(0, 1, 0)
    [] OTHER -> BitWrites(1, 1, 1)

\* set_bios of dh2600 on BIOS T1605A13: "off" leaves 0xF4[6].
OldBios(cmd) ==
  CASE cmd = "off" -> SubSeq(BitWrites(0, 0, 0), 1, 2)
    [] cmd = "on" -> BitWrites(0, 1, 0)
    [] OTHER -> BitWrites(1, 0, 0)

IsOld(d) == d = "dh2600" /\ machine.oldBios

\* startup_read: the bits as a number, and what it stands for.
Value(bits) == 4 * bits["F2.5"] + bits["F4.5"] + 2 * bits["F4.6"]

NewStatus(bits) ==
  CASE Value(bits) = 1 -> "on" [] Value(bits) = 3 -> "off"
    [] Value(bits) = 7 -> "last" [] OTHER -> "unknown"

OldStatus(bits) ==
  CASE Value(bits) \in {0, 1} -> "on" [] Value(bits) = 2 -> "off"
    [] Value(bits) = 4 -> "last" [] OTHER -> "unknown"

Status(t) == IF IsOld(call[t].drv) THEN OldStatus(got[t]) ELSE NewStatus(got[t])

----------------------------------------------------------------------------
(* A call: from the file to the ports.                                     *)

Goto(t, p) == pc' = [pc EXCEPT ![t] = p]

Begin(t, d, op, arg, writes) ==
  /\ pc[t] = "idle" /\ op \in Does[t] /\ Goto(t, "lock")
  /\ call' = [call EXCEPT ![t] = [op |-> op, drv |-> d, arg |-> arg]]
  /\ todo' = [todo EXCEPT ![t] = writes]
  /\ UNCHANGED <<machine, chipVars, lock, procVars, script, got, hvars>>

\* fan_write: on, off and set; con, coff and cpu, which sio does not know.
FanWrite(t, d) ==
  /\ dir = d /\ "fan" \in files
  /\ \E p \in {0, 127} \cup Pwms, op \in {"set", "cpu"} :
       /\ op = "cpu" => d # "sio"
       /\ Begin(t, d, op, p, FanWrites(Written(machine.product, d, op), p))

\* startup_write.
StartupWrite(t, d) ==
  /\ dir = d /\ "startup" \in files
  /\ \E cmd \in {"on", "off", "last"} :
       Begin(t, d, "bios", cmd, IF IsOld(d) THEN OldBios(cmd) ELSE NewBios(cmd))

FanRead(t, d) == dir = d /\ "fan" \in files /\ Begin(t, d, "speeds", 0, <<>>)

StartupRead(t, d) == dir = d /\ "startup" \in files /\ Begin(t, d, "startup", 0, <<>>)

Lock(t) ==
  /\ pc[t] = "lock" /\ lock[call[t].drv] = Nobody /\ Goto(t, "enter")
  /\ lock' = [lock EXCEPT ![call[t].drv] = t]
  /\ UNCHANGED <<machine, chipVars, procVars, script, call, todo, got, hvars>>

\* mutex_lock_interruptible of fan_read: a signal ends the call.
Interrupted(t) ==
  /\ pc[t] = "lock" /\ call[t].op = "speeds" /\ Goto(t, "idle")
  /\ call' = [call EXCEPT ![t] = NoCall]
  /\ UNCHANGED <<machine, chipVars, lock, procVars, script, todo, got, hvars>>

NothingAsked == [set |-> Unset, cpu |-> Unset, bios |-> "unset"]

AskedBy(t) ==
  IF strayed \/ torn \/ call[t].op \notin {"set", "cpu", "bios"} THEN asked
  ELSE [asked EXCEPT ![call[t].op] = call[t].arg]

\* Mutant: a region that is held is no obstacle.
EnterAnyway(t) ==
  /\ pc[t] = "enter" /\ Goto(t, "access")
  /\ region' = t /\ config' = TRUE /\ asked' = AskedBy(t)
  /\ UNCHANGED <<machine, reg, lock, procVars, script, call, todo, got, strayed, torn>>

\* superio_enter: request_muxed_region waits for a holder that shares, as all
\* these drivers do.
Enter(t) ==
  /\ pc[t] = "enter" /\ region = Nobody /\ Goto(t, "access")
  /\ region' = t /\ config' = TRUE /\ asked' = AskedBy(t)
  /\ UNCHANGED <<machine, reg, lock, procVars, script, call, todo, got, strayed, torn>>

\* A holder that does not share refuses at once.  fan_read then goes to its
\* label "end", all others to "err"; no write tells its caller.
Refused(t) ==
  /\ pc[t] = "enter" /\ region = Foreign
  /\ Goto(t, IF call[t].op = "speeds" THEN "exit" ELSE "ret")
  /\ UNCHANGED <<machine, chipVars, lock, procVars, script, call, todo, got, hvars>>

\* One write of set_fan, set_cpu_fan or set_bios, and the last of them.
Write(t) ==
  /\ pc[t] = "access" /\ todo[t] # <<>>
  /\ LET w == Head(todo[t]) IN
       reg' = IF w.to \in Bits /\ ~config THEN reg ELSE [reg EXCEPT ![w.to] = w.val]
  /\ todo' = [todo EXCEPT ![t] = Tail(@)]
  /\ Goto(t, IF Len(todo[t]) = 1 THEN "exit" ELSE "access")
  /\ UNCHANGED <<machine, config, region, lock, procVars, script, call, got, hvars>>

\* A product that the code does not know, or has no such fan.
WriteNothing(t) ==
  /\ pc[t] = "access" /\ call[t].op \in {"set", "cpu", "bios"} /\ todo[t] = <<>>
  /\ Goto(t, "exit")
  /\ UNCHANGED <<machine, chipVars, lock, procVars, script, call, todo, got, hvars>>

\* startup_read: a chip that is not in configuration mode reads as ones.
ReadBits(t) ==
  /\ pc[t] = "access" /\ call[t].op = "startup" /\ Goto(t, "exit")
  /\ got' = [got EXCEPT ![t] = [b \in Bits |-> IF config THEN reg[b] ELSE 1]]
  /\ UNCHANGED <<machine, chipVars, lock, procVars, script, call, todo, hvars>>

\* fan_read: a device that is not active goes to "err", past superio_exit.
ReadSpeeds(t) ==
  /\ pc[t] = "access" /\ call[t].op = "speeds"
  /\ Goto(t, IF config => machine.active THEN "exit" ELSE "ret")
  /\ UNCHANGED <<machine, chipVars, lock, procVars, script, call, todo, got, hvars>>

\* superio_exit: the ports are released, whoever holds them.
Exit(t) ==
  /\ pc[t] = "exit" /\ Goto(t, IF t = Script THEN "create" ELSE "ret")
  /\ config' = FALSE /\ region' = Nobody
  /\ IF region = t THEN UNCHANGED <<asked, strayed>>
                   ELSE strayed' = TRUE /\ asked' = NothingAsked
  /\ UNCHANGED <<machine, reg, lock, procVars, script, call, todo, got, torn>>

\* The mutex is released and the call returns; init has no mutex.
Return(t) ==
  /\ pc[t] = "ret" /\ t \in Users /\ Goto(t, "idle")
  /\ lock' = [lock EXCEPT ![call[t].drv] = Nobody]
  /\ call' = [call EXCEPT ![t] = NoCall]
  /\ todo' = [todo EXCEPT ![t] = <<>>]
  /\ got' = [got EXCEPT ![t] = [b \in Bits |-> 0]]
  /\ UNCHANGED <<machine, chipVars, procVars, script, hvars>>

----------------------------------------------------------------------------
(* Loading and unloading, in the order of the scripts.                     *)

Step(what, i) == script' = [doing |-> what, at |-> i]
Current == IF script.doing = "load" THEN machine.loads[script.at]
                                    ELSE machine.unloads[script.at]

\* modprobe: it87x_init enters the chip, to read who it is.
ItInit ==
  /\ script.doing = "load" /\ script.at <= Len(machine.loads)
  /\ pc[Script] = "idle" /\ Goto(Script, "enter")
  /\ call' = [call EXCEPT ![Script] = [op |-> "load", drv |-> Current, arg |-> 0]]
  /\ UNCHANGED <<machine, chipVars, lock, procVars, script, todo, got, hvars>>

\* The chip is known, unless another has ended the configuration mode.
ReadId ==
  /\ pc[Script] = "access"
  /\ Goto(Script, "exit")
  /\ got' = [got EXCEPT ![Script] = [b \in Bits |-> IF config THEN 0 ELSE 1]]
  /\ UNCHANGED <<machine, chipVars, lock, procVars, script, call, todo, hvars>>

Loaded ==
  /\ Goto(Script, "idle") /\ Step("load", script.at + 1)
  /\ call' = [call EXCEPT ![Script] = NoCall]
  /\ got' = [got EXCEPT ![Script] = [b \in Bits |-> 0]]

\* Mutant: the directory that is there already is taken for one's own.
ProcfsShared ==
  /\ pc[Script] = "create" /\ got[Script]["F2.5"] = 0
  /\ loaded' = loaded \cup {Current}
  /\ nas' = nas \cup {Current}
  /\ IF dir = Nobody
     THEN dir' = Current /\ files' = {"fan", "startup"}
     ELSE UNCHANGED <<dir, files>>
  /\ Loaded
  /\ UNCHANGED <<machine, chipVars, lock, todo, hvars>>

\* procfs_create: one directory for all; that it was there already is not
\* told to the caller of init.
ProcfsCreate ==
  /\ pc[Script] = "create" /\ got[Script]["F2.5"] = 0
  /\ loaded' = loaded \cup {Current}
  /\ IF dir = Nobody
     THEN dir' = Current /\ files' = {"fan", "startup"} /\ nas' = nas \cup {Current}
     ELSE UNCHANGED <<dir, files, nas>>
  /\ Loaded
  /\ UNCHANGED <<machine, chipVars, lock, todo, hvars>>

\* The ports were refused, or the chip is unknown.
InitFails ==
  /\ \/ pc[Script] = "ret"
     \/ pc[Script] = "create" /\ got[Script]["F2.5"] # 0
  /\ Loaded
  /\ UNCHANGED <<machine, chipVars, lock, procVars, todo, hvars>>

StartUnload ==
  /\ script.doing = "load" /\ script.at > Len(machine.loads) /\ Step("unload", 1)
  /\ UNCHANGED <<machine, chipVars, lock, procVars, threadVars, hvars>>

\* it87x_exit removes each file when no call is in it, and then the directory.
RemoveFile(file) ==
  /\ script.doing = "unload" /\ script.at <= Len(machine.unloads)
  /\ Current \in nas /\ dir = Current /\ file \in files
  /\ file = "startup" => "fan" \notin files
  /\ \A t \in Users : call[t].drv = Current =>
       call[t].op \notin (IF file = "fan" THEN {"set", "cpu", "speeds"} ELSE {"bios", "startup"})
  /\ files' = files \ {file}
  /\ UNCHANGED <<machine, chipVars, lock, loaded, nas, dir, script, threadVars, hvars>>

\* remove_proc_entry(MAIN_DIR) goes by the name, whoever has made the directory.
\* A driver without a nas_dir looks for its files in /proc itself, where there
\* are none.  What the owner's exit does with a nas_dir that is gone is undefined;
\* here it only leaves, and nothing is said of the calls any more.
ItExit ==
  /\ script.doing = "unload" /\ script.at <= Len(machine.unloads) /\ Current \in loaded
  /\ Current \in nas /\ dir = Current => files = {}
  /\ loaded' = loaded \ {Current} /\ nas' = nas \ {Current}
  /\ dir' = Nobody /\ files' = {}
  /\ IF dir \in {Current, Nobody}
     THEN asked' = [asked EXCEPT !.set = Unset, !.cpu = Unset] /\ UNCHANGED torn
     ELSE asked' = NothingAsked /\ torn' = TRUE
  /\ Step("unload", script.at + 1)
  /\ UNCHANGED <<machine, chipVars, lock, threadVars, strayed>>

SkipUnload ==
  /\ script.doing = "unload"
  /\ IF script.at <= Len(machine.unloads)
     THEN Current \notin loaded /\ Step("unload", script.at + 1)
     ELSE Step("load", 1)
  /\ UNCHANGED <<machine, chipVars, lock, procVars, threadVars, hvars>>

\* A driver that does not share the ports.
ForeignTakes ==
  /\ region = Nobody /\ region' = Foreign
  /\ UNCHANGED <<machine, reg, config, lock, procVars, script, threadVars, hvars>>

ForeignLeaves ==
  /\ region = Foreign /\ region' = Nobody
  /\ UNCHANGED <<machine, reg, config, lock, procVars, script, threadVars, hvars>>

----------------------------------------------------------------------------
Init ==
  /\ machine \in Machines
  /\ reg = [r \in Fans \cup Bits |-> IF r \in Fans THEN Unset
                                     ELSE IF r \in machine.bits THEN 1 ELSE 0]
  /\ config = FALSE /\ region = Nobody /\ lock = [d \in Drivers |-> Nobody]
  /\ loaded = {} /\ nas = {} /\ dir = Nobody /\ files = {}
  /\ script = [doing |-> "load", at |-> 1]
  /\ pc = [t \in Threads |-> "idle"] /\ call = [t \in Threads |-> NoCall]
  /\ todo = [t \in Threads |-> <<>>] /\ got = [t \in Threads |-> [b \in Bits |-> 0]]
  /\ asked = NothingAsked /\ strayed = FALSE /\ torn = FALSE

File(t, d) == FanWrite(t, d) \/ StartupWrite(t, d) \/ FanRead(t, d) \/ StartupRead(t, d)

Proceed(t) ==
  \/ Refused(t) \/ Write(t) \/ WriteNothing(t) \/ ReadBits(t) \/ ReadSpeeds(t)
  \/ Exit(t) \/ Return(t)

ScriptStep ==
  \/ ItInit \/ ReadId \/ ProcfsCreate \/ InitFails \/ StartUnload \/ SkipUnload
  \/ ItExit \/ \E file \in {"fan", "startup"} : RemoveFile(file)

Next ==
  \/ \E t \in Users, d \in Drivers : File(t, d)
  \/ \E t \in Users : Lock(t) \/ Interrupted(t)
  \/ \E t \in Threads : Enter(t) \/ Proceed(t)
  \/ ScriptStep
  \/ ForeignTakes \/ ForeignLeaves

Spec == Init /\ [][Next]_vars

----------------------------------------------------------------------------
TypeOK ==
  /\ machine \in Machines
  /\ reg \in [Fans \cup Bits -> Unset .. 255] /\ config \in BOOLEAN
  /\ region \in Threads \cup {Foreign, Nobody}
  /\ lock \in [Drivers -> Users \cup {Nobody}]
  /\ loaded \subseteq Drivers /\ nas \subseteq Drivers
  /\ dir \in Drivers \cup {Nobody} /\ files \subseteq {"fan", "startup"}
  /\ script \in [doing : {"load", "unload"}, at : Nat \ {0}]
  /\ pc \in [Threads -> {"idle", "lock", "enter", "access", "exit", "create", "ret"}]
  /\ got \in [Threads -> [Bits -> 0 .. 1]] /\ strayed \in BOOLEAN /\ torn \in BOOLEAN

\* Whoever uses the ports holds their region, so that no two threads, of
\* whatever drivers, are in the configuration mode together; and none keeps it
\* when its call or init ends, refused or not (superio_enter, superio_exit).
\* Except for fan_read: of a device that is not active it keeps the ports (its
\* label "err" is past superio_exit), and when it was refused it gives them back
\* all the same, after which nothing is claimed.
PortsExclusive ==
  \/ strayed
  \/ /\ \A t \in Threads : pc[t] = "access" => region = t /\ config
     /\ region \in Threads => pc[region] \in {"access", "exit"} \/ ~machine.active

\* Once a call has left the ports, every fan that fan_read shows as a system fan
\* (as the CPU fan) turns as the last set_fan (set_cpu_fan) has said: the two
\* choices by product in the code fit each other, and no call sees half of
\* another.  The one-fan models are shown a CPU fan that they do not have.
\* Nothing is claimed after a stray release or a torn directory (see asked).
FansAsShown ==
  \A d \in Drivers, kind \in {"set", "cpu"} :
    /\ dir = d /\ region = Nobody /\ asked[kind] # Unset
    /\ ~(kind = "cpu" /\ machine.product \in OneFan)
    => \A f \in Shows(machine.product, d)[kind] : reg[f] = asked[kind]

\* startup_read shows the setting that the last set_bios has made.
ReadsBack(t) ==
  pc[t] = "exit" /\ call[t].op = "startup" /\ asked.bios # "unset"
    => Status(t) = asked.bios

\* ... for every driver and BIOS, but for "off" on the old BIOS.
StartupReadsBack ==
  \A t \in Users : (IsOld(call[t].drv) /\ asked.bios = "off") \/ ReadsBack(t)

\* The code 0x02 is read as off ("case 0x02: // off", ug_it86x-sio-dh2600.c),
\* so "off" on the old BIOS ought to be read back as off too.
OldOffReadsBack == \A t \in Users : ReadsBack(t)

\* One driver is loaded after another one, and unloaded before it: the driver e
\* after d, where e's unloading is the k-th.
Overtakes(e, d, k) ==
  \E i, j \in DOMAIN machine.loads, l \in DOMAIN machine.unloads :
    /\ i < j /\ machine.loads[i] = d /\ machine.loads[j] = e
    /\ k < l /\ machine.unloads[k] = e /\ machine.unloads[l] = d

Overtaken(d) ==
  /\ script.doing = "unload"
  /\ \E e \in Drivers, k \in DOMAIN machine.unloads : k < script.at /\ Overtakes(e, d, k)

\* A driver's nas_dir is the directory that there is, unless a driver that was
\* loaded later has left before it: two inits never share the directory, and a
\* failed one does not lose it (procfs_create, it87x_exit).  So only where the
\* scripts unload a later driver first is a directory ever removed under its
\* owner: as it is when the boot service has loaded cpufan, load-modules.sh adds
\* sio and unload-modules.sh removes sio first, never when load-modules.sh has
\* loaded both.
DirectoryOwn ==
  /\ \A d \in nas : dir = d \/ Overtaken(d)
  /\ torn => \E e, d \in Drivers, k \in DOMAIN machine.unloads : Overtakes(e, d, k)

=============================================================================
