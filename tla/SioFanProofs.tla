---------------------------- MODULE SioFanProofs ----------------------------
(***************************************************************************)
(* Theorems about SioFan, for any users, machines and operations that they *)
(* call: the ports of the chip belong to one thread at a time, only the    *)
(* unloading of a later driver takes its directory from another one, the   *)
(* fans turn as they are shown, the power-on setting is read back as it    *)
(* was made, and only ports that fan_read has kept make a call wait for    *)
(* good.                                                                   *)
(***************************************************************************)
EXTENDS SioFan, SequenceTheorems, TLAPS

Steps == {"idle", "lock", "enter", "access", "exit", "create", "ret"}

\* A step is one of the names that the module uses, for every thread.
PcType == pc \in [Threads -> Steps]

IInv == PcType /\ PortsExclusive

----------------------------------------------------------------------------
LEMMA Strangers == Nobody \notin Threads /\ Foreign \notin Threads /\ Nobody # Foreign
BY SioFanAssumption DEF Threads

LEMMA InvInit == Init => IInv
BY Strangers DEF Init, IInv, PcType, PortsExclusive, Steps

\* A step of t that leaves the ports alone.
LEMMA PortsAlone ==
  ASSUME IInv, NEW t \in Threads, NEW p \in Steps, Goto(t, p),
         UNCHANGED <<machine, config, region, strayed>>,
         p = "access" => strayed \/ (region = t /\ config),
         region = t => strayed \/ pc[t] \notin {"access", "exit"} \/ p \in {"access", "exit"}
                       \/ ~machine.active
  PROVE  IInv'
BY DEF IInv, PcType, PortsExclusive, Goto

\* A step of no thread.
LEMMA NoThread ==
  ASSUME IInv, UNCHANGED <<machine, config, pc, strayed>>,
         region' = region \/ (region = Nobody /\ region' = Foreign)
           \/ (region = Foreign /\ region' = Nobody)
  PROVE  IInv'
BY Strangers DEF IInv, PcType, PortsExclusive

\* A thread that gets to the ports, and one that gives them back.
LEMMA EnterStep == ASSUME IInv, NEW t \in Threads, Enter(t) PROVE IInv'
BY Strangers DEF IInv, PcType, PortsExclusive, Enter, Goto, Steps

LEMMA ExitStep ==
  ASSUME IInv, NEW t \in Threads, Exit(t) PROVE IInv'
  <1>1. PcType'
    BY DEF IInv, PcType, Exit, Goto, Steps
  <1>2. CASE region # t
    BY <1>1, <1>2 DEF IInv, PortsExclusive, Exit
  <1>3. CASE strayed
    BY <1>1, <1>3 DEF IInv, PortsExclusive, Exit
  <1>4. CASE region = t /\ ~strayed
    <2>1. \A u \in Threads : pc[u] = "access" => u = t
      BY <1>4 DEF IInv, PortsExclusive
    <2>2. \A u \in Threads : pc'[u] # "access"
      BY <2>1 DEF IInv, PcType, Exit, Goto
    <2>3. region' \notin Threads
      BY Strangers DEF Exit
    <2> QED
      BY <1>1, <2>2, <2>3 DEF IInv, PortsExclusive
  <1> QED
    BY <1>2, <1>3, <1>4

LEMMA InvStep == IInv /\ [Next]_vars => IInv'
  <1> SUFFICES ASSUME IInv, [Next]_vars PROVE IInv'
    OBVIOUS
  <1> USE DEF chipVars, procVars, threadVars, hvars
  <1>1. Script \in Threads /\ \A t \in Users : t \in Threads
    BY DEF Threads
  <1>2. ASSUME NEW t \in Users, NEW d \in Drivers, File(t, d) PROVE IInv'
    <2>1. Goto(t, "lock") /\ pc[t] = "idle" /\ UNCHANGED <<machine, config, region, strayed>>
      BY <1>2 DEF File, FanWrite, StartupWrite, FanRead, StartupRead, Begin
    <2> QED
      BY <1>1, <2>1, PortsAlone DEF Steps
  <1>3. ASSUME NEW t \in Users, Lock(t) \/ Interrupted(t) PROVE IInv'
    <2>1. /\ Goto(t, "enter") \/ Goto(t, "idle")
          /\ pc[t] = "lock" /\ UNCHANGED <<machine, config, region, strayed>>
      BY <1>3 DEF Lock, Interrupted
    <2> QED
      BY <1>1, <2>1, PortsAlone DEF Steps
  <1>4. ASSUME NEW t \in Threads, Proceed(t) PROVE IInv'
    <2>1. CASE Refused(t)
      BY <2>1, Strangers, PortsAlone DEF Refused, Steps
    <2>2. CASE Write(t) \/ WriteNothing(t) \/ ReadBits(t)
      <3>1. /\ Goto(t, "exit") \/ Goto(t, "access")
            /\ pc[t] = "access" /\ UNCHANGED <<machine, config, region, strayed>>
        BY <2>2 DEF Write, WriteNothing, ReadBits
      <3>2. strayed \/ (region = t /\ config)
        BY <3>1 DEF IInv, PortsExclusive
      <3> QED
        BY <3>1, <3>2, PortsAlone DEF Steps
    <2>3. CASE ReadSpeeds(t)
      <3>1. pc[t] = "access" /\ UNCHANGED <<machine, config, region, strayed>>
        BY <2>3 DEF ReadSpeeds
      <3>2. strayed \/ config
        BY <3>1 DEF IInv, PortsExclusive
      <3> QED
        BY <2>3, <3>1, <3>2, PortsAlone DEF ReadSpeeds, Steps
    <2>4. CASE Exit(t)
      BY <2>4, ExitStep
    <2>5. CASE Return(t)
      BY <2>5, PortsAlone DEF Return, Steps
    <2> QED
      BY <1>4, <2>1, <2>2, <2>3, <2>4, <2>5 DEF Proceed
  <1>5. CASE ItInit \/ ProcfsCreate \/ InitFails
    <2>1. /\ Goto(Script, "enter") \/ Goto(Script, "idle")
          /\ pc[Script] \in {"idle", "create", "ret"}
          /\ UNCHANGED <<machine, config, region, strayed>>
      BY <1>5 DEF ItInit, ProcfsCreate, InitFails, Loaded
    <2> QED
      BY <1>1, <2>1, PortsAlone DEF Steps
  <1>6. CASE ReadId
    <2>1. strayed \/ (region = Script /\ config)
      BY <1>1, <1>6 DEF IInv, PortsExclusive, ReadId
    <2> QED
      BY <1>1, <1>6, <2>1, PortsAlone DEF ReadId, Steps
  <1>7. CASE \/ StartUnload \/ SkipUnload \/ ItExit \/ ForeignTakes \/ ForeignLeaves
             \/ \E file \in {"fan", "startup"} : RemoveFile(file)
    BY <1>7, NoThread DEF StartUnload, SkipUnload, ItExit, ForeignTakes, ForeignLeaves,
       RemoveFile
  <1>8. CASE UNCHANGED vars
    BY <1>8, NoThread DEF vars
  <1> QED
    BY <1>2, <1>3, <1>4, <1>5, <1>6, <1>7, <1>8, EnterStep DEF Next, ScriptStep

----------------------------------------------------------------------------
\* On any machine, with any number of users and in any order of loading, the
\* ports and the configuration mode are one thread's at a time, up to the first
\* fan_read that gives back what it was refused (superio_enter, superio_exit).
THEOREM PortsAreExclusive == Spec => []PortsExclusive
  <1>1. IInv => PortsExclusive
    BY DEF IInv
  <1> QED
    BY InvInit, InvStep, <1>1, PTL DEF Spec
----------------------------------------------------------------------------
(* The values of the variables, whatever the scripts are.                  *)

Ops == {"set", "cpu", "bios", "speeds", "startup"}
Writings == [to : Fans, val : 0 .. 255] \cup [to : Bits, val : 0 .. 1]
Calls == [op : Ops \cup {"none", "load"}, drv : Drivers \cup {"none"},
          arg : 0 .. 255 \cup {"on", "off", "last"}]

\* Inits run while the script loads, and write nothing.
ScriptInv ==
  /\ pc[Script] # "idle" => script.doing = "load" /\ script.at <= Len(machine.loads)
  /\ todo[Script] = <<>>
  /\ call[Script].op = IF pc[Script] = "idle" THEN "none" ELSE "load"

Shapes ==
  /\ TypeOK
  /\ call \in [Threads -> Calls] /\ todo \in [Threads -> Seq(Writings)]
  /\ \A b \in Bits : reg[b] \in 0 .. 1
  /\ ScriptInv

----------------------------------------------------------------------------
(* The tables.                                                             *)

Elems(s) == {s[i] : i \in DOMAIN s}
Write1(r, v) == [to |-> r, val |-> v]

LEMMA ThreeBits ==
  ASSUME NEW a \in 0 .. 1, NEW b \in 0 .. 1, NEW c \in 0 .. 1
  PROVE  /\ BitWrites(a, b, c) \in Seq(Writings)
         /\ Elems(BitWrites(a, b, c)) =
              {Write1("F2.5", a), Write1("F4.5", b), Write1("F4.6", c)}
  <1>1. \A r \in Bits, v \in 0 .. 1 : [to |-> r, val |-> v] \in Writings
    BY DEF Writings
  <1> QED
    BY <1>1 DEF BitWrites, Elems, Write1, Bits

LEMMA TwoBits ==
  /\ SubSeq(BitWrites(0, 0, 0), 1, 2) \in Seq(Writings)
  /\ Elems(SubSeq(BitWrites(0, 0, 0), 1, 2)) = {Write1("F2.5", 0), Write1("F4.5", 0)}
  <1> DEFINE s == SubSeq(BitWrites(0, 0, 0), 1, 2)
             S == Writings
  <1>1. \A i \in 1 .. 2 : BitWrites(0, 0, 0)[i] \in S
    BY DEF BitWrites, Bits, Writings
  <1>2. s \in Seq(S) /\ Len(s) = 2 /\ \A i \in 1 .. 2 : s[i] = BitWrites(0, 0, 0)[i]
    BY <1>1, SubSeqProperties
  <1>3. Elems(s) = {s[1], s[2]}
    BY <1>2 DEF Elems
  <1> QED
    BY <1>2, <1>3 DEF BitWrites, Write1

Codes(old, cmd) == IF old THEN OldBios(cmd) ELSE NewBios(cmd)
Coded(a, b, c) == {Write1("F2.5", a), Write1("F4.5", b), Write1("F4.6", c)}

LEMMA BiosWritten ==
  /\ \A cmd \in {"on", "off", "last"} :
       OldBios(cmd) \in Seq(Writings) /\ NewBios(cmd) \in Seq(Writings)
  /\ Elems(Codes(FALSE, "on")) = Coded(0, 1, 0) /\ Elems(Codes(FALSE, "off")) = Coded(0, 1, 1)
  /\ Elems(Codes(FALSE, "last")) = Coded(1, 1, 1)
  /\ Elems(Codes(TRUE, "on")) = Coded(0, 1, 0) /\ Elems(Codes(TRUE, "last")) = Coded(1, 0, 0)
  /\ Elems(Codes(TRUE, "off")) = {Write1("F2.5", 0), Write1("F4.5", 0)}
BY ThreeBits, TwoBits DEF Codes, Coded, OldBios, NewBios

\* The first write of a list, and the rest of them.
LEMMA FirstWrite ==
  ASSUME NEW s \in Seq(Writings), s # <<>>
  PROVE  /\ Head(s) \in Writings /\ Tail(s) \in Seq(Writings)
         /\ Elems(s) = {Head(s)} \cup Elems(Tail(s))
         /\ Len(s) = 1 => Elems(Tail(s)) = {}
  <1>1. /\ Head(s) \in Writings /\ Tail(s) \in Seq(Writings) /\ Len(Tail(s)) = Len(s) - 1
        /\ \A i \in 1 .. Len(Tail(s)) : Tail(s)[i] = s[i + 1]
    BY HeadTailProperties
  <1>2. Len(s) \in Nat \ {0} /\ Head(s) = s[1] /\ DOMAIN s = 1 .. Len(s)
        /\ DOMAIN Tail(s) = 1 .. Len(s) - 1
    BY <1>1
  <1>3. \A i \in DOMAIN s : i = 1 \/ (i - 1 \in DOMAIN Tail(s) /\ s[i] = Tail(s)[i - 1])
    BY <1>1, <1>2
  <1>4. \A i \in DOMAIN Tail(s) : i + 1 \in DOMAIN s /\ Tail(s)[i] = s[i + 1]
    BY <1>1, <1>2
  <1> QED
    BY <1>1, <1>2, <1>3, <1>4 DEF Elems

LEMMA FansWritten ==
  ASSUME NEW s \in Seq(Fans), NEW p \in 0 .. 255
  PROVE  /\ FanWrites(s, p) \in Seq(Writings)
         /\ Elems(FanWrites(s, p)) = {Write1(f, p) : f \in Elems(s)}
         /\ DOMAIN FanWrites(s, p) = DOMAIN s
  <1>1. Len(s) \in Nat /\ DOMAIN s = 1 .. Len(s) /\ \A i \in 1 .. Len(s) : s[i] \in Fans
    OBVIOUS
  <1>2. FanWrites(s, p) \in [1 .. Len(s) -> Writings]
    BY <1>1 DEF FanWrites, Writings
  <1> QED
    BY <1>1, <1>2, SeqDef DEF FanWrites, Elems, Write1

LEMMA WrittenFans ==
  ASSUME NEW product, NEW d, NEW op
  PROVE  Written(product, d, op) \in Seq(Fans)
  <1>1. Written(product, d, op) \in {<<>>, <<"fan2">>, <<"fan3">>, <<"fan3", "fan4">>, <<"fan2", "fan4">>}
    BY DEF Written, CpufanSet, CpufanSetCpu, SioSet, DhSet, DhSetCpu
  <1>2. /\ <<>> \in Seq(Fans) /\ <<"fan2">> \in Seq(Fans) /\ <<"fan3">> \in Seq(Fans)
        /\ <<"fan3", "fan4">> \in Seq(Fans) /\ <<"fan2", "fan4">> \in Seq(Fans)
    BY DEF Fans
  <1> QED
    BY <1>1, <1>2

LEMMA FanLists ==
  /\ Elems(<<>>) = {}
  /\ Elems(<<"fan2">>) = {"fan2"} /\ Elems(<<"fan3">>) = {"fan3"}
  /\ Elems(<<"fan3", "fan4">>) = {"fan3", "fan4"} /\ Elems(<<"fan2", "fan4">>) = {"fan2", "fan4"}
BY DEF Elems

\* What cpufan writes, group by group of the products.
LEMMA CpufanWrites ==
  ASSUME NEW product
  PROVE
  /\ product \in OneFan =>
       Written(product, "cpufan", "set") = <<"fan3">> /\ Written(product, "cpufan", "cpu") = <<>>
  /\ product \in Plus =>
       Written(product, "cpufan", "set") = <<"fan3">> /\ Written(product, "cpufan", "cpu") = <<"fan2">>
  /\ product \in Large =>
       Written(product, "cpufan", "set") = <<"fan3", "fan4">> /\ Written(product, "cpufan", "cpu") = <<"fan2">>
  /\ product = "DXP480T Plus" =>
       Written(product, "cpufan", "set") = <<"fan2", "fan4">> /\ Written(product, "cpufan", "cpu") = <<"fan3">>
  /\ product \notin OneFan \cup Plus \cup Large \cup {"DXP480T Plus"} =>
       Written(product, "cpufan", "set") = <<>> /\ Written(product, "cpufan", "cpu") = <<>>
BY DEF Written, CpufanSet, CpufanSetCpu, OneFan, Plus, Large

LEMMA OthersWrite ==
  ASSUME NEW product
  PROVE
  /\ Written(product, "sio", "set") = <<"fan3">> /\ Written(product, "sio", "cpu") = <<>>
  /\ Written(product, "dh2600", "set") = <<"fan2">> /\ Written(product, "dh2600", "cpu") = <<"fan3">>
BY DEF Written, SioSet, DhSet, DhSetCpu

\* What the files show, of the fans that a product has.
LEMMA ShownFans ==
  ASSUME NEW product
  PROVE
  /\ product \in OneFan \cup Plus => Shows(product, "cpufan")["set"] = {"fan3"}
  /\ product \in Large => Shows(product, "cpufan")["set"] = {"fan3", "fan4"}
  /\ product \in Plus \cup Large => Shows(product, "cpufan")["cpu"] = {"fan2"}
  /\ product = "DXP480T Plus" =>
       Shows(product, "cpufan")["set"] = {"fan2", "fan4"} /\ Shows(product, "cpufan")["cpu"] = {"fan3"}
  /\ Shows(product, "sio")["set"] = {"fan3"} /\ Shows(product, "sio")["cpu"] = {}
  /\ Shows(product, "dh2600")["set"] = {"fan2"} /\ Shows(product, "dh2600")["cpu"] = {"fan3"}
BY DEF Shows, CpufanShows, SioShows, DhShows, OneFan, Plus, Large

LEMMA ShownWritten ==
  ASSUME NEW product, NEW d \in Drivers, NEW kind \in {"set", "cpu"},
         d = "cpufan" => product \in OneFan \cup Plus \cup Large \cup {"DXP480T Plus"},
         ~(kind = "cpu" /\ product \in OneFan)
  PROVE  Shows(product, d)[kind] \subseteq Elems(Written(product, d, kind))
  <1>1. CASE d # "cpufan"
    BY <1>1, FanLists, OthersWrite, ShownFans DEF Drivers
  <1>2. CASE d = "cpufan" /\ product \in OneFan \cup Plus
    <2>1. /\ Written(product, "cpufan", "set") = <<"fan3">>
          /\ Shows(product, "cpufan")["set"] = {"fan3"}
      BY <1>2, CpufanWrites, ShownFans
    <2>2. product \in Plus => /\ Written(product, "cpufan", "cpu") = <<"fan2">>
                              /\ Shows(product, "cpufan")["cpu"] = {"fan2"}
      BY CpufanWrites, ShownFans
    <2> QED
      BY <1>2, <2>1, <2>2, FanLists
  <1>3. CASE d = "cpufan" /\ product \in Large
    <2>1. /\ Written(product, "cpufan", "set") = <<"fan3", "fan4">>
          /\ Shows(product, "cpufan")["set"] = {"fan3", "fan4"}
          /\ Written(product, "cpufan", "cpu") = <<"fan2">>
          /\ Shows(product, "cpufan")["cpu"] = {"fan2"}
      BY <1>3, CpufanWrites, ShownFans
    <2> QED
      BY <1>3, <2>1, FanLists
  <1>4. CASE d = "cpufan" /\ product = "DXP480T Plus"
    BY <1>4, FanLists, CpufanWrites, ShownFans
  <1> QED
    BY <1>1, <1>2, <1>3, <1>4

\* The fans of the system and of the CPU are not the same ones.
LEMMA SetNotCpu ==
  ASSUME NEW product, NEW d \in Drivers
  PROVE  Elems(Written(product, d, "set")) \cap Elems(Written(product, d, "cpu")) = {}
  <1>1. CASE d # "cpufan"
    BY <1>1, FanLists, OthersWrite DEF Drivers
  <1>2. CASE d = "cpufan"
    BY <1>2, FanLists, CpufanWrites
  <1> QED
    BY <1>1, <1>2

----------------------------------------------------------------------------
LEMMA ShapesInit == Init => Shapes
  <1> SUFFICES ASSUME Init PROVE Shapes
    OBVIOUS
  <1>1. reg \in [Fans \cup Bits -> Unset .. 255] /\ \A b \in Bits : reg[b] \in 0 .. 1
    BY DEF Init, Unset, Fans, Bits
  <1>2. NoCall \in Calls /\ <<>> \in Seq(Writings) /\ [b \in Bits |-> 0] \in [Bits -> 0 .. 1]
    BY DEF NoCall, Calls
  <1>3. TypeOK
    <2>1. /\ machine \in Machines /\ config \in BOOLEAN /\ lock \in [Drivers -> Users \cup {Nobody}]
          /\ region \in Threads \cup {Foreign, Nobody}
      BY DEF Init
    <2>2. /\ loaded \subseteq Drivers /\ nas \subseteq Drivers
          /\ dir \in Drivers \cup {Nobody} /\ files \subseteq {"fan", "startup"}
          /\ script \in [doing : {"load", "unload"}, at : Nat \ {0}]
      BY DEF Init
    <2>3. /\ pc \in [Threads -> {"idle", "lock", "enter", "access", "exit", "create", "ret"}]
          /\ got \in [Threads -> [Bits -> 0 .. 1]] /\ strayed \in BOOLEAN /\ torn \in BOOLEAN
      BY <1>2 DEF Init
    <2> QED
      BY <1>1, <2>1, <2>2, <2>3 DEF TypeOK
  <1>4. call \in [Threads -> Calls] /\ todo \in [Threads -> Seq(Writings)]
    BY <1>2 DEF Init
  <1>5. ScriptInv
    BY DEF Init, ScriptInv, Threads, NoCall
  <1> QED
    BY <1>1, <1>3, <1>4, <1>5 DEF Shapes

LEMMA CurrentDriver ==
  ASSUME Shapes, script.at <= Len(machine.loads), script.doing = "load"
  PROVE  Current \in Drivers
BY SioFanAssumption DEF Shapes, TypeOK, Current

\* The steps of a call.
LEMMA ShapesBegin ==
  ASSUME Shapes, NEW t \in Users, NEW d \in Drivers, File(t, d)
  PROVE  Shapes'
  <1>1. PICK op \in Ops, arg \in 0 .. 255 \cup {"on", "off", "last"}, w \in Seq(Writings) :
          Begin(t, d, op, arg, w)
    <2>1. {0, 127} \cup Pwms \subseteq 0 .. 255
      BY SioFanAssumption
    <2>2. <<>> \in Seq(Writings)
      OBVIOUS
    <2>3. \A o : \A p \in 0 .. 255 : FanWrites(Written(machine.product, d, o), p) \in Seq(Writings)
      BY FansWritten, WrittenFans
    <2>4. CASE FanWrite(t, d)
      BY <2>1, <2>3, <2>4 DEF FanWrite, Ops
    <2>5. CASE StartupWrite(t, d)
      BY <2>5, BiosWritten DEF StartupWrite, Ops
    <2>6. CASE FanRead(t, d) \/ StartupRead(t, d)
      <3>1. Begin(t, d, "speeds", 0, <<>>) \/ Begin(t, d, "startup", 0, <<>>)
        BY <2>6 DEF FanRead, StartupRead
      <3>2. 0 \in 0 .. 255 \cup {"on", "off", "last"} /\ {"speeds", "startup"} \subseteq Ops
        BY DEF Ops
      <3> QED
        BY <2>2, <3>1, <3>2, Zenon
    <2> QED
      BY <2>4, <2>5, <2>6 DEF File
  <1>2. t # Script /\ t \in Threads
    BY SioFanAssumption DEF Threads
  <1>3. [op |-> op, drv |-> d, arg |-> arg] \in Calls
    BY DEF Calls
  <1> USE DEF Begin, Goto, Shapes, chipVars, procVars, hvars
  <1>4. TypeOK'
    BY <1>1 DEF TypeOK
  <1>5. call' \in [Threads -> Calls] /\ todo' \in [Threads -> Seq(Writings)]
    BY <1>1, <1>3
  <1>6. ScriptInv'
    BY <1>1, <1>2 DEF ScriptInv, TypeOK
  <1> QED
    BY <1>1, <1>4, <1>5, <1>6

\* A thread that goes on in its call changes neither it nor the list of its writes.
LEMMA ShapesMove ==
  ASSUME Shapes, NEW t \in Threads, NEW p \in Steps \ {"idle"}, pc[t] # "idle", Goto(t, p),
         UNCHANGED <<machine, reg, procVars, script, call, todo>>,
         config' \in BOOLEAN, strayed' \in BOOLEAN, torn' \in BOOLEAN,
         lock' \in [Drivers -> Users \cup {Nobody}],
         region' \in Threads \cup {Foreign, Nobody}, got' \in [Threads -> [Bits -> 0 .. 1]]
  PROVE  Shapes'
  <1> USE DEF Goto, Shapes, procVars
  <1>1. pc' \in [Threads -> Steps] /\ pc'[Script] = IF t = Script THEN p ELSE pc[Script]
    BY DEF TypeOK, Steps, Threads
  <1>2. TypeOK'
    BY <1>1 DEF TypeOK, Steps
  <1>3. ScriptInv'
    BY <1>1 DEF ScriptInv
  <1> QED
    BY <1>2, <1>3

LEMMA ShapesThread ==
  ASSUME Shapes, NEW t \in Threads,
         (t \in Users /\ (Lock(t) \/ Interrupted(t))) \/ Enter(t) \/ Proceed(t)
  PROVE  Shapes'
  <1> USE DEF chipVars, procVars, hvars
  <1>1. NoCall \in Calls /\ <<>> \in Seq(Writings) /\ [b \in Bits |-> 0] \in [Bits -> 0 .. 1]
    BY DEF NoCall, Calls
  <1>2. \A u \in Users : u # Script
    BY SioFanAssumption
  <1>3. /\ config \in BOOLEAN /\ strayed \in BOOLEAN /\ torn \in BOOLEAN
        /\ lock \in [Drivers -> Users \cup {Nobody}]
        /\ region \in Threads \cup {Foreign, Nobody} /\ got \in [Threads -> [Bits -> 0 .. 1]]
    BY DEF Shapes, TypeOK
  <1>4. CASE t \in Users /\ Lock(t)
    BY <1>3, <1>4, ShapesMove DEF Lock, Steps
  <1>5. CASE Enter(t)
    BY <1>3, <1>5, ShapesMove DEF Enter, Steps
  <1>6. CASE Refused(t)
    BY <1>3, <1>6, ShapesMove DEF Refused, Steps
  <1>7. CASE WriteNothing(t)
    BY <1>3, <1>7, ShapesMove DEF WriteNothing, Steps
  <1>8. CASE ReadSpeeds(t)
    BY <1>3, <1>8, ShapesMove DEF ReadSpeeds, Steps
  <1>9. CASE ReadBits(t)
    <2>1. [b \in Bits |-> IF config THEN reg[b] ELSE 1] \in [Bits -> 0 .. 1]
      BY DEF Shapes
    <2> QED
      BY <1>3, <1>9, <2>1, ShapesMove DEF ReadBits, Steps
  <1>10. CASE Exit(t)
    <2>1. PICK p \in Steps \ {"idle"} : Goto(t, p)
      BY <1>10 DEF Exit, Steps
    <2> QED
      BY <1>3, <1>10, <2>1, ShapesMove DEF Exit
  <1>11. CASE Write(t)
    <2>1. todo[t] \in Seq(Writings) /\ todo[t] # <<>>
      BY <1>11 DEF Write, Shapes
    <2>2. Head(todo[t]) \in Writings /\ Tail(todo[t]) \in Seq(Writings)
      BY <2>1, FirstWrite
    <2> DEFINE w == Head(todo[t])
    <2>3. /\ w.to \in Fans \cup Bits /\ w.val \in Unset .. 255
          /\ w.to \in Bits => w.val \in 0 .. 1
      BY <2>2 DEF Writings, Fans, Bits, Unset
    <2>4. reg' = reg \/ reg' = [reg EXCEPT ![w.to] = w.val]
      BY <1>11 DEF Write
    <2>5. reg' \in [Fans \cup Bits -> Unset .. 255] /\ \A b \in Bits : reg'[b] \in 0 .. 1
      <3>1. /\ reg \in [Fans \cup Bits -> Unset .. 255]
            /\ \A b \in Bits : reg[b] \in 0 .. 1 /\ b \in Fans \cup Bits
        BY DEF Shapes, TypeOK
      <3>2. reg' \in [Fans \cup Bits -> Unset .. 255]
        BY <2>3, <2>4, <3>1
      <3>3. ASSUME NEW b \in Bits PROVE reg'[b] \in 0 .. 1
        <4>1. CASE reg' = reg \/ b # w.to
          BY <2>4, <3>1, <4>1
        <4>2. CASE reg' # reg /\ b = w.to
          BY <2>3, <2>4, <3>1, <4>2
        <4> QED
          BY <4>1, <4>2
      <3> QED
        BY <3>2, <3>3
    <2>6. todo' \in [Threads -> Seq(Writings)] /\ t # Script
      BY <1>11, <2>2 DEF Write, ScriptInv, Shapes
    <2>7. TypeOK'
      BY <1>11, <2>5 DEF Write, Shapes, TypeOK, Goto
    <2>8. ScriptInv'
      BY <1>11, <2>6 DEF Write, Shapes, TypeOK, ScriptInv, Goto
    <2> QED
      BY <1>11, <2>5, <2>6, <2>7, <2>8 DEF Write, Shapes
  <1>12. CASE t \in Users /\ (Interrupted(t) \/ Return(t))
    <2>1. /\ Goto(t, "idle") /\ call' = [call EXCEPT ![t] = NoCall]
          /\ todo' = todo \/ todo' = [todo EXCEPT ![t] = <<>>]
          /\ got' = got \/ got' = [got EXCEPT ![t] = [b \in Bits |-> 0]]
          /\ UNCHANGED <<machine, reg, config, region, procVars, script, strayed, torn>>
      BY <1>12 DEF Interrupted, Return
    <2>2. lock' \in [Drivers -> Users \cup {Nobody}]
      BY <1>3, <1>12 DEF Interrupted, Return
    <2>3. pc' \in [Threads -> Steps] /\ got' \in [Threads -> [Bits -> 0 .. 1]]
      <3>1. pc \in [Threads -> Steps]
        BY DEF Shapes, TypeOK, Steps
      <3>2. pc' \in [Threads -> Steps]
        BY <2>1, <3>1 DEF Goto, Steps
      <3>3. got' \in [Threads -> [Bits -> 0 .. 1]]
        BY <1>1, <1>3, <2>1
      <3> QED
        BY <3>2, <3>3
    <2>4. call' \in [Threads -> Calls] /\ todo' \in [Threads -> Seq(Writings)]
      BY <1>1, <2>1 DEF Shapes
    <2>5. TypeOK'
      BY <2>1, <2>2, <2>3 DEF Shapes, TypeOK, Steps
    <2>6. ScriptInv'
      <3>1. /\ pc \in [Threads -> Steps] /\ call \in [Threads -> Calls]
            /\ todo \in [Threads -> Seq(Writings)] /\ t # Script /\ ScriptInv
        BY <1>2, <1>12 DEF Shapes, TypeOK, Steps
      <3>2. pc'[Script] = pc[Script] /\ call'[Script] = call[Script] /\ todo'[Script] = todo[Script]
        BY <2>1, <3>1 DEF Goto, Threads
      <3> QED
        BY <2>1, <3>1, <3>2 DEF ScriptInv
    <2> QED
      BY <2>1, <2>4, <2>5, <2>6 DEF Shapes
  <1> QED
    BY <1>4, <1>5, <1>6, <1>7, <1>8, <1>9, <1>10, <1>11, <1>12 DEF Proceed, Return

LEMMA ShapesScript ==
  ASSUME Shapes, ScriptStep \/ ForeignTakes \/ ForeignLeaves
  PROVE  Shapes'
  <1> USE DEF Goto, Shapes, chipVars, procVars, hvars, threadVars, Step
  <1>1. Script \in Threads /\ NoCall \in Calls /\ [b \in Bits |-> 0] \in [Bits -> 0 .. 1]
    BY DEF NoCall, Calls, Threads
  <1>2. CASE ItInit
    <2>1. [op |-> "load", drv |-> Current, arg |-> 0] \in Calls
      BY <1>2, CurrentDriver DEF ItInit, Calls
    <2>2. TypeOK'
      BY <1>2 DEF TypeOK, ItInit
    <2> QED
      BY <1>1, <1>2, <2>1, <2>2 DEF ScriptInv, TypeOK, ItInit
  <1>3. CASE ReadId
    <2>1. [b \in Bits |-> IF config THEN 0 ELSE 1] \in [Bits -> 0 .. 1]
      OBVIOUS
    <2> QED
      BY <1>1, <1>3, <2>1, ShapesMove DEF TypeOK, ReadId, Steps
  <1>4. CASE ProcfsCreate \/ InitFails
    <2>1. pc[Script] # "idle"
      BY <1>4 DEF ProcfsCreate, InitFails
    <2>2. Current \in Drivers
      BY <2>1, CurrentDriver DEF ScriptInv
    <2>3. /\ script' \in [doing : {"load", "unload"}, at : Nat \ {0}]
          /\ pc' \in [Threads -> Steps] /\ call' \in [Threads -> Calls]
          /\ got' \in [Threads -> [Bits -> 0 .. 1]]
      <3>1. Loaded
        BY <1>4 DEF ProcfsCreate, InitFails
      <3> QED
        BY <1>1, <3>1 DEF Loaded, TypeOK, Steps
    <2>4. /\ loaded' \subseteq Drivers /\ nas' \subseteq Drivers
          /\ dir' \in Drivers \cup {Nobody} /\ files' \subseteq {"fan", "startup"}
      BY <1>4, <2>2 DEF ProcfsCreate, InitFails, TypeOK
    <2>5. UNCHANGED <<machine, reg, config, region, lock, todo, strayed, torn>>
      BY <1>4 DEF ProcfsCreate, InitFails
    <2>6. TypeOK'
      BY <2>3, <2>4, <2>5 DEF TypeOK, Steps
    <2>7. ScriptInv'
      BY <1>1, <1>4, <2>5 DEF ScriptInv, TypeOK, ProcfsCreate, InitFails, Loaded, NoCall
    <2> QED
      BY <2>3, <2>5, <2>6, <2>7
  <1>5. CASE StartUnload \/ SkipUnload \/ ItExit
    <2>1. TypeOK'
      <3>1. torn' \in BOOLEAN
        BY <1>5 DEF TypeOK, StartUnload, SkipUnload, ItExit
      <3>2. CASE StartUnload \/ SkipUnload
        <4>1. UNCHANGED <<machine, reg, config, region, lock, loaded, nas, dir, files, pc, got,
                          strayed, torn>>
          BY <3>2 DEF StartUnload, SkipUnload
        <4>2. script' \in [doing : {"load", "unload"}, at : Nat \ {0}]
          BY <3>2 DEF TypeOK, StartUnload, SkipUnload
        <4> QED
          BY <4>1, <4>2 DEF TypeOK
      <3>3. CASE ItExit
        BY <3>1, <3>3 DEF TypeOK, ItExit
      <3> QED
        BY <1>5, <3>2, <3>3
    <2>2. ScriptInv'
      BY <1>5 DEF TypeOK, ScriptInv, StartUnload, SkipUnload, ItExit
    <2> QED
      BY <1>5, <2>1, <2>2 DEF StartUnload, SkipUnload, ItExit
  <1>6. CASE \E file \in {"fan", "startup"} : RemoveFile(file)
    <2>1. TypeOK'
      BY <1>6 DEF TypeOK, RemoveFile
    <2> QED
      BY <1>6, <2>1 DEF ScriptInv, RemoveFile
  <1>7. CASE ForeignTakes \/ ForeignLeaves
    <2>1. TypeOK'
      BY <1>7 DEF TypeOK, ForeignTakes, ForeignLeaves
    <2> QED
      BY <1>7, <2>1 DEF ScriptInv, ForeignTakes, ForeignLeaves
  <1> QED
    BY <1>2, <1>3, <1>4, <1>5, <1>6, <1>7 DEF ScriptStep

LEMMA ShapesStep == Shapes /\ [Next]_vars => Shapes'
  <1>1. \A t \in Users : t \in Threads
    BY DEF Threads
  <1>2. CASE UNCHANGED vars
    BY <1>2 DEF Shapes, TypeOK, ScriptInv, vars, chipVars, procVars, hvars, threadVars
  <1> QED
    BY <1>1, <1>2, ShapesBegin, ShapesThread, ShapesScript DEF Next

\* The variables have their types: what has been written into a bit is a bit, and
\* an init that has started is of a driver of the list that is being loaded.
THEOREM Types == Spec => []TypeOK
  <1>1. Shapes => TypeOK
    BY DEF Shapes
  <1> QED
    BY ShapesInit, ShapesStep, <1>1, PTL DEF Spec

----------------------------------------------------------------------------
(* The directory, and the calls inside its files.                          *)

\* The drivers that are loaded come before the place that the script has reached
\* (load), or are yet to be unloaded; none of them comes before the owner of the
\* directory.
LoadedAt(i) ==
  /\ i \in DOMAIN machine.loads
  /\ IF script.doing = "load" THEN i < script.at
     ELSE \A k \in DOMAIN machine.unloads :
            machine.unloads[k] = machine.loads[i] => k >= script.at
  /\ dir # Nobody => \A j \in DOMAIN machine.loads : machine.loads[j] = dir => j <= i

OwnInv ==
  /\ dir = Nobody => files = {} /\ \A d \in nas : Overtaken(d)
  /\ dir # Nobody => nas = {dir}
  /\ torn => \E e, d \in Drivers, k \in DOMAIN machine.unloads : Overtakes(e, d, k)

DirInv ==
  /\ OwnInv
  /\ nas \subseteq loaded
  /\ \A d \in loaded : \E i \in DOMAIN machine.loads : machine.loads[i] = d /\ LoadedAt(i)
  /\ script.doing = "load" /\ loaded # {} => dir # Nobody

FileOf(op) == IF op \in {"bios", "startup"} THEN "startup" ELSE "fan"

\* A call is in a file of the driver that has the directory.
CallsIn ==
  \A t \in Users :
    IF pc[t] = "idle" THEN call[t] = NoCall
    ELSE /\ call[t].op \in Ops /\ call[t].drv = dir /\ dir # Nobody
         /\ FileOf(call[t].op) \in files

CallInv == torn \/ CallsIn

----------------------------------------------------------------------------
(* The settings.                                                           *)

\* The registers that a call writes, with their values.
OnOld(m) == m.oldBios /\ "dh2600" \in LoadsOf(m)
Writes(m, d, op, arg) ==
  CASE op \in {"set", "cpu"} -> FanWrites(Written(m.product, d, op), arg)
    [] op = "bios" -> Codes(OnOld(m), arg)
    [] OTHER -> <<>>

Args(op) == IF op = "bios" THEN {"on", "off", "last"} ELSE {0, 127} \cup Pwms
Unasked(op) == IF op = "bios" THEN "unset" ELSE Unset
Settings == {"set", "cpu", "bios"}

Listed(t) ==
  /\ call[t].op \notin Settings => todo[t] = <<>>
  /\ call[t].op \in Settings =>
       /\ call[t].arg \in Args(call[t].op)
       /\ Elems(todo[t]) \subseteq Elems(Writes(machine, call[t].drv, call[t].op, call[t].arg))
       /\ pc[t] \in {"lock", "enter"} =>
            todo[t] = Writes(machine, call[t].drv, call[t].op, call[t].arg)

TodoInv == \A t \in Users : Listed(t)

AskedInv ==
  /\ asked \in [set : Args("set") \cup {Unset}, cpu : Args("cpu") \cup {Unset},
                bios : Args("bios") \cup {"unset"}]
  /\ strayed \/ torn => asked = NothingAsked
  /\ dir = Nobody => asked.set = Unset /\ asked.cpu = Unset

Asking(t) ==
  pc[t] = "access" /\ region = t /\ ~strayed /\ ~torn /\ call[t].op \in Settings

ExitHolds ==
  \A t \in Threads : pc[t] = "exit" /\ call[t].op # "speeds" => strayed \/ region = t

\* What was asked for last is in the registers, or is about to be written.
Done(op) ==
  asked[op] # Unasked(op) => \A w \in Elems(Writes(machine, dir, op, asked[op])) :
    \/ reg[w.to] = w.val
    \/ \E t \in Users : Asking(t) /\ call[t].op = op /\ w \in Elems(todo[t])

DoneInv ==
  /\ \A t \in Users : Asking(t) => asked[call[t].op] = call[t].arg
  /\ \A op \in Settings : Done(op)

ReadInv ==
  \A t \in Users : pc[t] = "exit" /\ call[t].op = "startup" /\ ~strayed =>
    got[t] = [b \in Bits |-> reg[b]]

SInv ==
  /\ IInv /\ Shapes /\ DirInv /\ CallInv /\ TodoInv /\ AskedInv /\ ExitHolds
  /\ DoneInv /\ ReadInv


----------------------------------------------------------------------------
(* The directory.                                                          *)

LEMMA MachineOf ==
  ASSUME Shapes
  PROVE  /\ machine \in Machines /\ machine.loads \in Seq(Drivers)
         /\ machine.unloads \in Seq(Drivers)
         /\ Len(machine.loads) \in Nat /\ DOMAIN machine.loads = 1 .. Len(machine.loads)
         /\ Len(machine.unloads) \in Nat /\ DOMAIN machine.unloads = 1 .. Len(machine.unloads)
         /\ script.at \in Nat \ {0} /\ script.doing \in {"load", "unload"}
         /\ script = [doing |-> script.doing, at |-> script.at]
BY SioFanAssumption DEF Shapes, TypeOK

\* A driver that is loaded stands once in the list, and is unloaded some time.
LEMMA OneIndex ==
  ASSUME Shapes, NEW i \in DOMAIN machine.loads, NEW j \in DOMAIN machine.loads,
         machine.loads[i] = machine.loads[j]
  PROVE  i = j
BY MachineOf, ScriptsAssumption

LEMMA LeavesOnce ==
  ASSUME Shapes, NEW i \in DOMAIN machine.loads
  PROVE  \E k \in DOMAIN machine.unloads : machine.unloads[k] = machine.loads[i]
BY MachineOf, ScriptsAssumption

\* Whoever leaves while another one has the directory was loaded after it.
LEMMA LeavesBefore ==
  ASSUME Shapes, DirInv, ItExit, dir # Nobody, dir # Current
  PROVE  /\ script.at \in DOMAIN machine.unloads /\ dir \in Drivers /\ Current \in Drivers
         /\ Overtakes(Current, dir, script.at)
  <1>1. /\ script.doing = "unload" /\ script.at \in DOMAIN machine.unloads
        /\ Current = machine.unloads[script.at] /\ Current \in loaded
    BY MachineOf DEF ItExit, Current
  <1>2. PICK j \in DOMAIN machine.loads : machine.loads[j] = Current /\ LoadedAt(j)
    BY <1>1 DEF DirInv
  <1>3. dir \in loaded
    BY DEF DirInv, OwnInv
  <1>4. PICK i \in DOMAIN machine.loads : machine.loads[i] = dir /\ LoadedAt(i)
    BY <1>3 DEF DirInv
  <1>5. i < j
    BY <1>2, <1>4, MachineOf DEF LoadedAt
  <1>6. PICK l \in DOMAIN machine.unloads : machine.unloads[l] = dir
    BY <1>4, LeavesOnce
  <1>7. script.at < l
    BY <1>1, <1>4, <1>6, MachineOf DEF LoadedAt
  <1>8. dir \in Drivers /\ Current \in Drivers
    BY <1>1, <1>3 DEF Shapes, TypeOK
  <1> QED
    BY <1>1, <1>2, <1>4, <1>5, <1>6, <1>7, <1>8 DEF Overtakes

LEMMA DirSame ==
  ASSUME DirInv, UNCHANGED <<machine, loaded, nas, dir, files, script, torn>> PROVE DirInv'
BY DEF DirInv, OwnInv, Overtaken, Overtakes, LoadedAt

LEMMA DirCreate ==
  ASSUME Shapes, DirInv, ProcfsCreate
  PROVE  DirInv'
  <1>1. /\ script.doing = "load" /\ script.at \in DOMAIN machine.loads
        /\ Current = machine.loads[script.at] /\ Current \in Drivers
    BY MachineOf, CurrentDriver DEF ProcfsCreate, Shapes, ScriptInv, Current
  <1> PICK n \in DOMAIN machine.loads : n = script.at
    BY <1>1
  <1>2. /\ script'.doing = "load" /\ script'.at = script.at + 1 /\ machine' = machine
        /\ loaded' = loaded \cup {Current} /\ Current # Nobody /\ torn' = torn
    BY <1>1, SioFanAssumption DEF ProcfsCreate, Loaded, Step, hvars
  <1>3. torn' => \E e, d \in Drivers, k \in DOMAIN machine'.unloads : Overtakes(e, d, k)'
    BY <1>2 DEF DirInv, OwnInv, Overtakes
  <1>4. CASE dir = Nobody
    <2>1. loaded = {} /\ nas = {}
      BY <1>1, <1>4 DEF DirInv
    <2>2. dir' = Current /\ nas' = {Current} /\ loaded' = {Current}
      BY <1>1, <1>2, <1>4, <2>1 DEF ProcfsCreate
    <2>3. LoadedAt(n)'
      <3>1. \A j \in DOMAIN machine.loads : machine.loads[j] = Current => j = n
        BY <1>1, OneIndex
      <3> QED
        BY <1>1, <1>2, <2>2, <3>1, MachineOf DEF LoadedAt
    <2> QED
      BY <1>1, <1>2, <1>3, <2>2, <2>3 DEF DirInv, OwnInv
  <1>5. CASE dir # Nobody
    <2>1. dir' = dir /\ nas' = nas /\ files' = files
      BY <1>5 DEF ProcfsCreate
    <2>2. \A i : LoadedAt(i) => LoadedAt(i)'
      BY <1>1, <1>2, <2>1, MachineOf DEF LoadedAt
    <2>3. PICK i \in DOMAIN machine.loads : machine.loads[i] = dir /\ LoadedAt(i)
      BY <1>5 DEF DirInv, OwnInv
    <2>4. \A j \in DOMAIN machine.loads : machine.loads[j] = dir => j <= n
      BY <1>1, <2>3, MachineOf, OneIndex DEF LoadedAt
    <2>5. LoadedAt(n)'
      BY <1>1, <1>2, <2>1, <2>4, MachineOf DEF LoadedAt
    <2> QED
      BY <1>1, <1>2, <1>3, <1>5, <2>1, <2>2, <2>5 DEF DirInv, OwnInv
  <1> QED
    BY <1>4, <1>5

LEMMA DirExit ==
  ASSUME Shapes, DirInv, ItExit
  PROVE  DirInv'
  <1>1. /\ script.doing = "unload" /\ script.at \in DOMAIN machine.unloads
        /\ Current = machine.unloads[script.at]
        /\ machine' = machine /\ loaded' = loaded \ {Current} /\ nas' = nas \ {Current}
        /\ dir' = Nobody /\ files' = {} /\ script'.doing = "unload"
        /\ script'.at = script.at + 1
    BY MachineOf DEF ItExit, Current, Step
  <1>2. ASSUME NEW d \in nas' PROVE Overtaken(d)'
    <2>1. CASE dir = Nobody
      <3>1. Overtaken(d)
        BY <1>1, <1>2, <2>1 DEF DirInv, OwnInv
      <3> QED
        BY <1>1, <3>1, MachineOf DEF Overtaken, Overtakes
    <2>2. CASE dir # Nobody
      <3>1. d = dir /\ d # Current
        BY <1>1, <1>2, <2>2 DEF DirInv, OwnInv
      <3>2. Overtakes(Current, d, script.at) /\ Current \in Drivers
        BY <2>2, <3>1, LeavesBefore
      <3> QED
        BY <1>1, <3>2, MachineOf DEF Overtaken, Overtakes
    <2> QED
      BY <2>1, <2>2
  <1>3. torn' => \E e, d \in Drivers, k \in DOMAIN machine'.unloads : Overtakes(e, d, k)'
    <2>1. CASE dir \in {Current, Nobody}
      <3>1. torn' = torn
        BY <2>1 DEF ItExit
      <3>2. \A e, d, k : Overtakes(e, d, k)' <=> Overtakes(e, d, k)
        BY <1>1 DEF Overtakes
      <3> QED
        BY <1>1, <3>1, <3>2 DEF DirInv, OwnInv
    <2>2. CASE dir \notin {Current, Nobody}
      BY <1>1, <2>2, LeavesBefore DEF Overtakes
    <2> QED
      BY <2>1, <2>2
  <1>4. ASSUME NEW d \in loaded'
        PROVE  \E i \in DOMAIN machine.loads : machine.loads[i] = d /\ LoadedAt(i)'
    <2>1. PICK i \in DOMAIN machine.loads : machine.loads[i] = d /\ LoadedAt(i)
      BY <1>1, <1>4 DEF DirInv
    <2>2. machine.unloads[script.at] # machine.loads[i]
      BY <1>1, <1>4, <2>1
    <2> QED
      BY <1>1, <2>1, <2>2, MachineOf DEF LoadedAt
  <1> QED
    BY <1>1, <1>2, <1>3, <1>4 DEF DirInv, OwnInv

\* The other steps of the script.
LEMMA DirMoves ==
  ASSUME Shapes, DirInv, InitFails \/ StartUnload \/ SkipUnload
  PROVE  DirInv'
  <1>1. UNCHANGED <<machine, loaded, nas, dir, files, torn>>
    BY DEF InitFails, StartUnload, SkipUnload, procVars, hvars
  <1>2. torn' => \E e, d \in Drivers, k \in DOMAIN machine'.unloads : Overtakes(e, d, k)'
    BY <1>1 DEF DirInv, OwnInv, Overtakes
  <1>3. CASE InitFails
    <2>1. script.doing = "load" /\ script'.doing = "load" /\ script'.at = script.at + 1
      BY <1>3 DEF InitFails, Loaded, Step, Shapes, ScriptInv
    <2>2. dir = Nobody => nas = {}
      BY <2>1 DEF DirInv
    <2> QED
      BY <1>1, <1>2, <2>1, <2>2, MachineOf DEF DirInv, OwnInv, LoadedAt
  <1>4. CASE StartUnload
    <2>1. script.doing = "load" /\ script'.doing = "unload" /\ script'.at = 1
      BY <1>4 DEF StartUnload, Step
    <2>2. dir = Nobody => nas = {}
      BY <2>1 DEF DirInv
    <2>3. \A i : LoadedAt(i) => LoadedAt(i)'
      BY <1>1, <2>1, MachineOf DEF LoadedAt
    <2> QED
      BY <1>1, <1>2, <2>1, <2>2, <2>3 DEF DirInv, OwnInv
  <1>5. CASE SkipUnload /\ script.at <= Len(machine.unloads)
    <2>1. /\ script.doing = "unload" /\ script'.doing = "unload" /\ script'.at = script.at + 1
          /\ machine.unloads[script.at] \notin loaded
      BY <1>5 DEF SkipUnload, Current, Step
    <2>2. ASSUME NEW i \in DOMAIN machine.loads, machine.loads[i] \in loaded, LoadedAt(i)
          PROVE  LoadedAt(i)'
      BY <1>1, <2>1, <2>2, MachineOf DEF LoadedAt
    <2>3. ASSUME NEW d, Overtaken(d) PROVE Overtaken(d)'
      BY <1>1, <2>1, <2>3, MachineOf DEF Overtaken, Overtakes
    <2> QED
      BY <1>1, <1>2, <2>1, <2>2, <2>3 DEF DirInv, OwnInv
  <1>6. CASE SkipUnload /\ ~(script.at <= Len(machine.unloads))
    <2>1. script.doing = "unload" /\ script.at > Len(machine.unloads)
      BY <1>6, MachineOf DEF SkipUnload
    <2>2. \A i \in DOMAIN machine.loads : ~LoadedAt(i)
      BY <2>1, LeavesOnce, MachineOf DEF LoadedAt
    <2>3. loaded = {} /\ nas = {} /\ dir = Nobody
      BY <2>2 DEF DirInv, OwnInv
    <2> QED
      BY <1>1, <1>2, <2>3 DEF DirInv, OwnInv
  <1> QED
    BY <1>3, <1>4, <1>5, <1>6

LEMMA DirStep == Shapes /\ DirInv /\ [Next]_vars => DirInv'
  <1> SUFFICES ASSUME Shapes, DirInv, [Next]_vars PROVE DirInv'
    OBVIOUS
  <1> USE DEF chipVars, procVars, threadVars, hvars
  <1>1. ASSUME NEW file \in {"fan", "startup"}, RemoveFile(file) PROVE DirInv'
    <2>1. UNCHANGED <<machine, loaded, nas, dir, script, torn>> /\ dir # Nobody
      BY <1>1 DEF RemoveFile, DirInv, OwnInv
    <2> QED
      BY <2>1 DEF DirInv, OwnInv, LoadedAt, Overtakes
  <1>2. ASSUME NEW t \in Users, NEW d \in Drivers, File(t, d) PROVE DirInv'
    BY <1>2, DirSame DEF File, FanWrite, StartupWrite, FanRead, StartupRead, Begin
  <1>3. ASSUME NEW t \in Threads, Lock(t) \/ Interrupted(t) \/ Enter(t) \/ Proceed(t)
        PROVE  DirInv'
    BY <1>3, DirSame DEF Lock, Interrupted, Enter, Proceed, Refused, Write, WriteNothing,
       ReadBits, ReadSpeeds, Exit, Return
  <1>4. CASE ItInit \/ ReadId \/ ForeignTakes \/ ForeignLeaves \/ UNCHANGED vars
    BY <1>4, DirSame DEF ItInit, ReadId, ForeignTakes, ForeignLeaves, vars
  <1> QED
    BY <1>1, <1>2, <1>3, <1>4, DirCreate, DirExit, DirMoves DEF Next, ScriptStep, Threads

\* In whatever order the scripts load and unload, the directory is the one that
\* its owner has made, and no other driver has a nas_dir (procfs_create,
\* it87x_exit), but for an owner that a driver loaded after it has left behind;
\* and only an order in which a later driver leaves first tears a directory.
THEOREM DirectoryIsOwn == Spec => []DirectoryOwn
  <1>1. Init => DirInv
    BY DEF Init, DirInv, OwnInv
  <1>2. DirInv => DirectoryOwn
    BY DEF DirInv, OwnInv, DirectoryOwn
  <1> QED
    BY ShapesInit, ShapesStep, DirStep, <1>1, <1>2, PTL DEF Spec

----------------------------------------------------------------------------
(* The calls.                                                              *)

LEMMA ThreadTypes ==
  ASSUME Shapes
  PROVE  /\ pc \in [Threads -> Steps] /\ call \in [Threads -> Calls]
         /\ todo \in [Threads -> Seq(Writings)] /\ got \in [Threads -> [Bits -> 0 .. 1]]
         /\ Script \in Threads /\ \A t \in Users : t \in Threads /\ t # Script
BY SioFanAssumption DEF Shapes, TypeOK, Threads, Steps

\* Steps that leave the directory and the calls of the users alone, but for t's.
LEMMA CallOfOne ==
  ASSUME Shapes, CallsIn, NEW t \in Threads, NEW p \in Steps, Goto(t, p),
         UNCHANGED <<dir, files>>,
         \A u \in Users \ {t} : call'[u] = call[u],
         t \in Users => IF p = "idle" THEN call'[t] = NoCall
                        ELSE call'[t] = call[t] /\ pc[t] # "idle"
  PROVE  CallsIn'
  <1>1. ASSUME NEW u \in Users, u # t PROVE pc'[u] = pc[u] /\ call'[u] = call[u]
    BY <1>1, ThreadTypes DEF Goto
  <1>2. pc'[t] = p
    BY ThreadTypes DEF Goto
  <1> QED
    BY <1>1, <1>2 DEF CallsIn

LEMMA CallBegin ==
  ASSUME Shapes, CallsIn, NEW t \in Users, NEW d \in Drivers, File(t, d)
  PROVE  CallsIn'
  <1>1. PICK op, arg, w : /\ Begin(t, d, op, arg, w) /\ op \in Ops
                          /\ FileOf(op) \in files /\ dir = d
    BY DEF File, FanWrite, StartupWrite, FanRead, StartupRead, Ops, FileOf
  <1>2. d # Nobody
    BY SioFanAssumption
  <1>3. /\ pc'[t] = "lock" /\ call'[t].op = op /\ call'[t].drv = d
        /\ UNCHANGED <<dir, files>>
        /\ \A u \in Users \ {t} : pc'[u] = pc[u] /\ call'[u] = call[u]
    BY <1>1, ThreadTypes DEF Begin, Goto, procVars
  <1> QED
    BY <1>1, <1>2, <1>3 DEF CallsIn

LEMMA CallScript ==
  ASSUME Shapes, DirInv, CallsIn, ~torn',
         ScriptStep \/ ForeignTakes \/ ForeignLeaves
  PROVE  CallsIn'
  <1>1. \A t \in Users : pc'[t] = pc[t] /\ call'[t] = call[t]
    BY ThreadTypes DEF ScriptStep, ItInit, ReadId, ProcfsCreate, InitFails, Loaded, StartUnload,
       SkipUnload, ItExit, RemoveFile, ForeignTakes, ForeignLeaves, Goto, threadVars
  <1>2. CASE ProcfsCreate
    <2>1. dir = Nobody \/ UNCHANGED <<dir, files>>
      BY <1>2 DEF ProcfsCreate
    <2> QED
      BY <1>1, <2>1 DEF CallsIn
  <1>3. CASE ItExit
    <2>1. dir # Nobody => files = {}
      BY <1>3 DEF ItExit, DirInv, OwnInv
    <2>2. \A t \in Users : pc[t] = "idle"
      BY <2>1 DEF CallsIn
    <2> QED
      BY <1>1, <2>2 DEF CallsIn
  <1>4. ASSUME NEW file \in {"fan", "startup"}, RemoveFile(file) PROVE CallsIn'
    <2>1. /\ dir' = dir /\ files' = files \ {file} /\ dir = Current
          /\ \A t \in Users : call[t].drv = Current =>
               call[t].op \notin (IF file = "fan" THEN {"set", "cpu", "speeds"}
                                                  ELSE {"bios", "startup"})
      BY <1>4 DEF RemoveFile
    <2>2. \A t \in Users : pc[t] # "idle" => FileOf(call[t].op) # file
      BY <2>1 DEF CallsIn, Ops, FileOf
    <2> QED
      BY <1>1, <2>1, <2>2 DEF CallsIn
  <1>5. UNCHANGED <<dir, files>> => CallsIn'
    BY <1>1 DEF CallsIn
  <1> QED
    BY <1>2, <1>3, <1>4, <1>5 DEF ScriptStep, ItInit, ReadId, InitFails, StartUnload, SkipUnload,
       ForeignTakes, ForeignLeaves, procVars

LEMMA TornStays == torn /\ [Next]_vars => torn'
BY DEF Next, File, FanWrite, StartupWrite, FanRead, StartupRead, Begin, Lock, Interrupted, Enter,
   Proceed, Refused, Write, WriteNothing, ReadBits, ReadSpeeds, Exit, Return, ScriptStep, ItInit,
   ReadId, ProcfsCreate, InitFails, StartUnload, SkipUnload, ItExit, RemoveFile, ForeignTakes,
   ForeignLeaves, vars, hvars

LEMMA CallStep == Shapes /\ DirInv /\ CallInv /\ [Next]_vars => CallInv'
  <1> SUFFICES ASSUME Shapes, DirInv, CallsIn, [Next]_vars, ~torn' PROVE CallsIn'
    BY TornStays DEF CallInv
  <1> USE DEF procVars, hvars
  <1>1. ASSUME NEW t \in Users, Interrupted(t) \/ Return(t) PROVE CallsIn'
    <2>1. /\ Goto(t, "idle") /\ call' = [call EXCEPT ![t] = NoCall] /\ UNCHANGED <<dir, files>>
      BY <1>1 DEF Interrupted, Return
    <2>2. call'[t] = NoCall /\ \A u \in Users \ {t} : call'[u] = call[u]
      BY <2>1, ThreadTypes
    <2> QED
      BY <2>1, <2>2, ThreadTypes, CallOfOne DEF Steps
  <1>2. ASSUME NEW t \in Threads, Enter(t) \/ Lock(t) \/ Refused(t) \/ Write(t) \/ WriteNothing(t)
                 \/ ReadBits(t) \/ ReadSpeeds(t) \/ Exit(t)
        PROVE  CallsIn'
    <2>1. PICK p \in Steps \ {"idle"} : Goto(t, p) /\ pc[t] # "idle"
      BY <1>2 DEF Enter, Lock, Refused, Write, WriteNothing, ReadBits, ReadSpeeds, Exit, Steps
    <2>2. UNCHANGED <<call, dir, files>>
      BY <1>2 DEF Enter, Lock, Refused, Write, WriteNothing, ReadBits, ReadSpeeds, Exit
    <2> QED
      BY <2>1, <2>2, CallOfOne
  <1>3. CASE UNCHANGED vars
    BY <1>3 DEF vars, threadVars, CallsIn
  <1> QED
    BY <1>1, <1>2, <1>3, CallBegin, CallScript, ThreadTypes DEF Next, Proceed, Return

----------------------------------------------------------------------------
(* What the calls have to write.                                           *)

\* The driver that has the directory uses the codes of the machine.
LEMMA CodesOfOwner ==
  ASSUME OneBios, Shapes, DirInv, dir # Nobody
  PROVE  IsOld(dir) <=> OnOld(machine)
  <1>1. dir \in LoadsOf(machine)
    BY DEF DirInv, OwnInv, LoadsOf
  <1> QED
    BY <1>1, MachineOf DEF OneBios, OnOld, IsOld

LEMMA BeginAs ==
  ASSUME OneBios, Shapes, DirInv, NEW t \in Users, NEW d \in Drivers, File(t, d)
  PROVE  \E op, arg :
           /\ op \in Ops /\ Begin(t, d, op, arg, Writes(machine, d, op, arg))
           /\ op \in Settings => arg \in Args(op)
  <1>1. dir = d /\ d # Nobody
    BY SioFanAssumption DEF File, FanWrite, StartupWrite, FanRead, StartupRead
  <1>2. CASE FanWrite(t, d)
    <2>1. PICK p \in {0, 127} \cup Pwms, op \in {"set", "cpu"} :
            Begin(t, d, op, p, FanWrites(Written(machine.product, d, op), p))
      BY <1>2 DEF FanWrite
    <2>2. /\ FanWrites(Written(machine.product, d, op), p) = Writes(machine, d, op, p)
          /\ op \in Ops /\ p \in Args(op)
      BY DEF Writes, Ops, Args
    <2> QED
      BY <2>1, <2>2
  <1>3. CASE StartupWrite(t, d)
    <2>1. PICK cmd \in {"on", "off", "last"} :
            Begin(t, d, "bios", cmd, IF IsOld(d) THEN OldBios(cmd) ELSE NewBios(cmd))
      BY <1>3 DEF StartupWrite
    <2>2. /\ (IF IsOld(d) THEN OldBios(cmd) ELSE NewBios(cmd)) = Writes(machine, d, "bios", cmd)
          /\ "bios" \in Ops /\ cmd \in Args("bios")
      BY <1>1, CodesOfOwner DEF Writes, Codes, Ops, Args
    <2> QED
      BY <2>1, <2>2
  <1>4. CASE FanRead(t, d) \/ StartupRead(t, d)
    <2>1. PICK op \in {"speeds", "startup"} : Begin(t, d, op, 0, <<>>)
      BY <1>4 DEF FanRead, StartupRead
    <2>2. op \in Ops /\ op \notin Settings /\ Writes(machine, d, op, 0) = <<>>
      BY DEF Ops, Settings, Writes
    <2> QED
      BY <2>1, <2>2
  <1> QED
    BY <1>2, <1>3, <1>4 DEF File

LEMMA ListedSame ==
  ASSUME NEW t, Listed(t), machine' = machine, call'[t] = call[t], todo'[t] = todo[t],
         pc'[t] \in {"lock", "enter"} => pc[t] \in {"lock", "enter"}
  PROVE  Listed(t)'
BY DEF Listed

LEMMA TodoStep == OneBios /\ Shapes /\ DirInv /\ TodoInv /\ [Next]_vars => TodoInv'
  <1> SUFFICES ASSUME OneBios, Shapes, DirInv, TodoInv, [Next]_vars PROVE TodoInv'
    OBVIOUS
  <1> USE DEF chipVars, procVars, threadVars, hvars
  <1>1. ASSUME NEW t \in Users, NEW d \in Drivers, File(t, d) PROVE TodoInv'
    <2>1. PICK op, arg : /\ op \in Ops /\ Begin(t, d, op, arg, Writes(machine, d, op, arg))
                         /\ op \in Settings => arg \in Args(op)
      BY <1>1, BeginAs
    <2>2. /\ call'[t] = [op |-> op, drv |-> d, arg |-> arg]
          /\ todo'[t] = Writes(machine, d, op, arg)
          /\ \A u \in Users \ {t} :
               pc'[u] = pc[u] /\ call'[u] = call[u] /\ todo'[u] = todo[u]
          /\ machine' = machine
      BY <2>1, ThreadTypes DEF Begin, Goto
    <2>3. Listed(t)'
      BY <2>1, <2>2 DEF Listed, Writes, Settings
    <2> QED
      BY <2>2, <2>3, ListedSame DEF TodoInv
  <1>2. ASSUME NEW t \in Users, Interrupted(t) \/ Return(t) PROVE TodoInv'
    <2>1. /\ machine' = machine /\ call'[t] = NoCall
          /\ \A u \in Users \ {t} :
               pc'[u] = pc[u] /\ call'[u] = call[u] /\ todo'[u] = todo[u]
      BY <1>2, ThreadTypes DEF Interrupted, Return, Goto
    <2>2. todo'[t] = <<>>
      BY <1>2, ThreadTypes DEF Interrupted, Return, TodoInv, Listed, Settings
    <2>3. Listed(t)'
      BY <2>1, <2>2 DEF Listed, NoCall, Settings
    <2> QED
      BY <2>1, <2>3, ListedSame DEF TodoInv
  <1>3. ASSUME NEW t \in Threads, Write(t) PROVE TodoInv'
    <2>1. todo[t] \in Seq(Writings) /\ todo[t] # <<>> /\ t \in Users
      BY <1>3, ThreadTypes DEF Write, Shapes, ScriptInv, Threads
    <2>2. /\ machine' = machine /\ call' = call /\ pc'[t] \in {"access", "exit"}
          /\ todo'[t] = Tail(todo[t])
          /\ \A u \in Users \ {t} : pc'[u] = pc[u] /\ todo'[u] = todo[u]
      BY <1>3, <2>1, ThreadTypes DEF Write, Goto
    <2>3. Elems(todo'[t]) \subseteq Elems(todo[t]) /\ call[t].op \in Settings
      BY <2>1, <2>2, FirstWrite DEF TodoInv, Listed
    <2>4. Listed(t)'
      BY <2>1, <2>2, <2>3 DEF TodoInv, Listed
    <2> QED
      BY <2>2, <2>4, ListedSame DEF TodoInv
  <1>4. ASSUME NEW t \in Threads, Enter(t) \/ Lock(t) \/ Refused(t) \/ WriteNothing(t)
                 \/ ReadBits(t) \/ ReadSpeeds(t) \/ Exit(t)
        PROVE  TodoInv'
    <2>1. /\ UNCHANGED <<machine, call, todo>>
          /\ \A u \in Users : pc'[u] \in {"lock", "enter"} => pc[u] \in {"lock", "enter"}
      BY <1>4, ThreadTypes DEF Enter, Lock, Refused, WriteNothing, ReadBits, ReadSpeeds, Exit, Goto
    <2> QED
      BY <2>1, ListedSame DEF TodoInv
  <1>5. CASE ScriptStep \/ ForeignTakes \/ ForeignLeaves \/ UNCHANGED vars
    <2>1. machine' = machine /\ todo' = todo
      BY <1>5 DEF ScriptStep, ItInit, ReadId, ProcfsCreate, InitFails, StartUnload, SkipUnload,
         ItExit, RemoveFile, ForeignTakes, ForeignLeaves, vars
    <2>2. \A u \in Users : pc'[u] = pc[u] /\ call'[u] = call[u]
      BY <1>5, ThreadTypes DEF ScriptStep, ItInit, ReadId, ProcfsCreate, InitFails, Loaded,
         StartUnload, SkipUnload, ItExit, RemoveFile, ForeignTakes, ForeignLeaves, Goto, vars
    <2> QED
      BY <2>1, <2>2, ListedSame DEF TodoInv
  <1> QED
    BY <1>1, <1>2, <1>3, <1>4, <1>5, ThreadTypes DEF Next, Proceed, Return

----------------------------------------------------------------------------
(* What is asked for, and who holds the ports at the end of a call.        *)

\* A call of a user that enters the ports asks for its own setting only.
LEMMA EnterAsks ==
  ASSUME Shapes, CallInv, TodoInv, AskedInv, NEW t \in Threads, Enter(t)
  PROVE  /\ AskedInv'
         /\ strayed \/ torn \/ call[t].op \notin Settings => asked' = asked
         /\ ~strayed /\ ~torn /\ call[t].op \in Settings =>
              /\ t \in Users /\ asked'[call[t].op] = call[t].arg
              /\ \A op \in Settings \ {call[t].op} : asked'[op] = asked[op]
  <1>1. asked' = AskedBy(t) /\ UNCHANGED <<dir, strayed, torn, call>>
    BY DEF Enter, procVars
  <1>2. CASE strayed \/ torn \/ call[t].op \notin Settings
    <2>1. asked' = asked
      <3>1. CASE strayed \/ torn
        BY <1>1, <3>1 DEF AskedBy
      <3>2. CASE ~strayed /\ ~torn /\ call[t].op \notin Settings
        BY <1>1, <3>2 DEF AskedBy, Settings
      <3> QED
        BY <1>2, <3>1, <3>2
    <2> QED
      BY <1>1, <1>2, <2>1 DEF AskedInv
  <1>3. CASE ~strayed /\ ~torn /\ call[t].op \in Settings
    <2>1. t \in Users /\ call[t].arg \in Args(call[t].op) /\ dir # Nobody
      <3>1. t # Script
        BY <1>3 DEF Shapes, ScriptInv, Settings
      <3>2. pc[t] # "idle"
        BY DEF Enter
      <3> QED
        BY <1>3, <3>1, <3>2 DEF Threads, TodoInv, Listed, CallInv, CallsIn
    <2>2. asked' = [asked EXCEPT ![call[t].op] = call[t].arg]
      BY <1>1, <1>3 DEF AskedBy, Settings
    <2>3. AskedInv'
      BY <1>1, <1>3, <2>1, <2>2 DEF AskedInv, Settings
    <2> QED
      BY <1>3, <2>1, <2>2, <2>3 DEF AskedInv, Settings
  <1> QED
    BY <1>2, <1>3

LEMMA AskedStep ==
  Shapes /\ DirInv /\ CallInv /\ TodoInv /\ AskedInv /\ [Next]_vars => AskedInv'
  <1> SUFFICES ASSUME Shapes, DirInv, CallInv, TodoInv, AskedInv, [Next]_vars
               PROVE  AskedInv'
    OBVIOUS
  <1> USE DEF chipVars, procVars, threadVars, hvars
  <1>1. UNCHANGED <<asked, strayed, torn, dir>> => AskedInv'
    BY DEF AskedInv
  <1>2. ASSUME NEW t \in Users, NEW d \in Drivers, File(t, d) PROVE AskedInv'
    BY <1>1, <1>2 DEF File, FanWrite, StartupWrite, FanRead, StartupRead, Begin
  <1>3. ASSUME NEW t \in Threads, Exit(t) PROVE AskedInv'
    <2>1. dir' = dir /\ (UNCHANGED <<asked, strayed, torn>> \/ asked' = NothingAsked)
      BY <1>3 DEF Exit
    <2> QED
      BY <1>1, <2>1 DEF AskedInv, NothingAsked
  <1>4. ASSUME NEW t \in Threads, Lock(t) \/ Interrupted(t) \/ Refused(t) \/ Write(t)
                 \/ WriteNothing(t) \/ ReadBits(t) \/ ReadSpeeds(t) \/ Return(t)
        PROVE  AskedInv'
    BY <1>1, <1>4 DEF Lock, Interrupted, Refused, Write, WriteNothing, ReadBits, ReadSpeeds, Return
  <1>5. CASE ProcfsCreate
    <2>1. UNCHANGED <<asked, strayed, torn>> /\ (dir' = dir \/ dir' # Nobody)
      BY <1>5, CurrentDriver, SioFanAssumption DEF ProcfsCreate, Shapes, ScriptInv
    <2> QED
      BY <2>1 DEF AskedInv
  <1>6. CASE ItExit
    <2>1. CASE dir \in {Current, Nobody}
      <3>1. asked' = [asked EXCEPT !.set = Unset, !.cpu = Unset] /\ UNCHANGED <<strayed, torn>>
        BY <1>6, <2>1 DEF ItExit
      <3>2. asked' = [set |-> Unset, cpu |-> Unset, bios |-> asked.bios]
        BY <3>1 DEF AskedInv
      <3>3. strayed \/ torn => asked.bios = "unset"
        BY DEF AskedInv, NothingAsked
      <3> QED
        BY <3>1, <3>2, <3>3 DEF AskedInv, NothingAsked
    <2>2. CASE dir \notin {Current, Nobody}
      BY <1>6, <2>2 DEF ItExit, AskedInv, NothingAsked
    <2> QED
      BY <2>1, <2>2
  <1>7. CASE \/ ItInit \/ ReadId \/ InitFails \/ StartUnload \/ SkipUnload
             \/ \E file \in {"fan", "startup"} : RemoveFile(file)
             \/ ForeignTakes \/ ForeignLeaves \/ UNCHANGED vars
    BY <1>1, <1>7 DEF ItInit, ReadId, InitFails, StartUnload, SkipUnload, RemoveFile,
       ForeignTakes, ForeignLeaves, vars
  <1> QED
    BY <1>2, <1>3, <1>4, <1>5, <1>6, <1>7, EnterAsks, ThreadTypes DEF Next, Proceed, ScriptStep

LEMMA HoldsStep == IInv /\ Shapes /\ ExitHolds /\ [Next]_vars => ExitHolds'
  <1> SUFFICES ASSUME IInv, Shapes, ExitHolds, [Next]_vars, NEW u \in Threads,
                      pc'[u] = "exit", call'[u].op # "speeds", ~strayed'
               PROVE  region' = u
    BY DEF ExitHolds
  <1> USE DEF chipVars, procVars, threadVars, hvars
  <1>1. ASSUME pc[u] = "exit", call'[u] = call[u], strayed' = strayed, region' = region
        PROVE  region' = u
    BY <1>1 DEF ExitHolds
  <1>2. ASSUME NEW t \in Users, NEW d \in Drivers, File(t, d) PROVE region' = u
    <2>1. t # u /\ pc[u] = "exit" /\ call'[u] = call[u] /\ UNCHANGED <<strayed, region>>
      BY <1>2, ThreadTypes DEF File, FanWrite, StartupWrite, FanRead, StartupRead, Begin, Goto
    <2> QED
      BY <1>1, <2>1
  <1>3. ASSUME NEW t \in Users, Lock(t) \/ Interrupted(t) \/ Return(t) PROVE region' = u
    <2>1. pc[u] = "exit" /\ call'[u] = call[u] /\ UNCHANGED <<strayed, region>>
      BY <1>3, ThreadTypes DEF Lock, Interrupted, Return, Goto
    <2> QED
      BY <1>1, <2>1
  <1>4. ASSUME NEW t \in Threads, Enter(t) PROVE region' = u
    <2>1. pc[u] = "exit" /\ call'[u] = call[u] /\ strayed' = strayed /\ region = Nobody
      BY <1>4, ThreadTypes DEF Enter, Goto
    <2> QED
      BY <2>1, Strangers DEF ExitHolds
  <1>5. ASSUME NEW t \in Threads, Refused(t) PROVE region' = u
    <2>1. pc[u] = "exit" /\ call'[u] = call[u] /\ UNCHANGED <<strayed, region>>
      BY <1>5, ThreadTypes DEF Refused, Goto
    <2> QED
      BY <1>1, <2>1
  <1>6. ASSUME NEW t \in Threads, \/ Write(t) \/ WriteNothing(t) \/ ReadBits(t) \/ ReadSpeeds(t)
                                  \/ (t = Script /\ ReadId)
        PROVE  region' = u
    <2>1. /\ (pc[t] = "access" /\ u = t) \/ pc[u] = "exit"
          /\ call'[u] = call[u] /\ UNCHANGED <<strayed, region>>
      BY <1>6, ThreadTypes DEF Write, WriteNothing, ReadBits, ReadSpeeds, ReadId, Goto
    <2>2. pc[u] = "access" => region = u
      BY <2>1 DEF IInv, PortsExclusive
    <2> QED
      BY <1>1, <2>1, <2>2
  <1>7. ASSUME NEW t \in Threads, Exit(t) PROVE region' = u
    <2>1. t # u /\ pc[u] = "exit" /\ call'[u] = call[u] /\ ~strayed /\ region = t
      BY <1>7, ThreadTypes DEF Exit, Goto
    <2> QED
      BY <2>1 DEF ExitHolds
  <1>8. CASE ItInit \/ ProcfsCreate \/ InitFails \/ StartUnload \/ SkipUnload \/ ItExit
          \/ \E file \in {"fan", "startup"} : RemoveFile(file)
    <2>1. pc[u] = "exit" /\ call'[u] = call[u] /\ UNCHANGED <<strayed, region>>
      BY <1>8, ThreadTypes DEF ItInit, ProcfsCreate, InitFails, Loaded, StartUnload, SkipUnload,
         ItExit, RemoveFile, Goto
    <2> QED
      BY <1>1, <2>1
  <1>9. CASE ForeignTakes \/ ForeignLeaves
    <2>1. pc[u] = "exit" /\ call[u] = call'[u] /\ strayed' = strayed /\ region \notin Threads
      BY <1>9, Strangers DEF ForeignTakes, ForeignLeaves
    <2> QED
      BY <2>1 DEF ExitHolds
  <1>10. CASE UNCHANGED vars
    BY <1>1, <1>10 DEF vars
  <1> QED
    BY <1>2, <1>3, <1>4, <1>5, <1>6, <1>7, <1>8, <1>9, <1>10, ThreadTypes
    DEF Next, Proceed, ScriptStep, Return

----------------------------------------------------------------------------
(* The registers that the settings write.                                  *)

LEMMA FanSetting ==
  ASSUME NEW m, NEW d, NEW op \in {"set", "cpu"}, NEW arg \in Args(op)
  PROVE  /\ \A f \in Elems(Written(m.product, d, op)) :
              Write1(f, arg) \in Elems(Writes(m, d, op, arg))
         /\ \A v \in Elems(Writes(m, d, op, arg)) :
              v.to \in Elems(Written(m.product, d, op)) /\ v.to \in Fans
         /\ \A v \in Elems(Writes(m, d, op, arg)) : v = Write1(v.to, arg)
  <1>1. arg \in 0 .. 255
    <2>1. arg \in {0, 127} \cup Pwms
      BY DEF Args
    <2> QED
      BY <2>1, SioFanAssumption
  <1>2. Written(m.product, d, op) \in Seq(Fans)
    BY WrittenFans
  <1>3. Writes(m, d, op, arg) = FanWrites(Written(m.product, d, op), arg)
    BY DEF Writes
  <1>4. Elems(Written(m.product, d, op)) \subseteq Fans
    BY <1>2 DEF Elems
  <1>5. Elems(Writes(m, d, op, arg)) = {Write1(f, arg) : f \in Elems(Written(m.product, d, op))}
    BY <1>1, <1>2, <1>3, FansWritten
  <1> QED
    BY <1>4, <1>5 DEF Write1

LEMMA BiosSetting ==
  ASSUME NEW m, NEW d, NEW arg \in Args("bios")
  PROVE  /\ Writes(m, d, "bios", arg) = Codes(OnOld(m), arg)
         /\ \A v \in Elems(Writes(m, d, "bios", arg)) : v.to \in Bits
         /\ \A v, w \in Elems(Writes(m, d, "bios", arg)) : v.to = w.to => v = w
  <1>1. Writes(m, d, "bios", arg) = Codes(OnOld(m), arg) /\ OnOld(m) \in BOOLEAN
    BY DEF Writes, OnOld
  <1>2. /\ arg \in {"on", "off", "last"}
        /\ OnOld(m) = TRUE \/ OnOld(m) = FALSE
    BY <1>1 DEF Args
  <1>3. \/ \E a, b, c \in 0 .. 1 : Elems(Codes(OnOld(m), arg)) = Coded(a, b, c)
        \/ Elems(Codes(OnOld(m), arg)) = {Write1("F2.5", 0), Write1("F4.5", 0)}
    <2>1. \A old \in {TRUE, FALSE}, cmd \in {"on", "off", "last"} :
            \/ \E a, b, c \in 0 .. 1 : Elems(Codes(old, cmd)) = Coded(a, b, c)
            \/ Elems(Codes(old, cmd)) = {Write1("F2.5", 0), Write1("F4.5", 0)}
      <3>1. 0 \in 0 .. 1 /\ 1 \in 0 .. 1
        OBVIOUS
      <3> QED
        BY <3>1, BiosWritten, Zenon
    <2>2. OnOld(m) \in {TRUE, FALSE} /\ arg \in {"on", "off", "last"}
      BY <1>2
    <2> QED
      BY <1>2, <2>1, <2>2
  <1> QED
    BY <1>1, <1>3 DEF Coded, Write1, Bits

\* No setting writes a register twice, and no two write the same one.
LEMMA OneValue ==
  ASSUME NEW m, NEW d, NEW op \in Settings, NEW arg \in Args(op),
         NEW v \in Elems(Writes(m, d, op, arg)), NEW w \in Elems(Writes(m, d, op, arg)),
         v.to = w.to
  PROVE  v = w
  <1>1. CASE op = "bios"
    BY <1>1, BiosSetting
  <1>2. CASE op \in {"set", "cpu"}
    <2>1. \A x \in Elems(Writes(m, d, op, arg)) : x = Write1(x.to, arg)
      BY <1>2, FanSetting
    <2>2. v = Write1(v.to, arg) /\ w = Write1(w.to, arg)
      BY <2>1
    <2> QED
      BY <2>2
  <1> QED
    BY <1>1, <1>2 DEF Settings

LEMMA Apart ==
  ASSUME NEW m, NEW d \in Drivers, NEW op \in Settings, NEW other \in Settings, op # other,
         NEW arg \in Args(op), NEW brg \in Args(other),
         NEW v \in Elems(Writes(m, d, op, arg)), NEW w \in Elems(Writes(m, d, other, brg))
  PROVE  v.to # w.to
  <1>1. CASE op \in {"set", "cpu"} /\ other \in {"set", "cpu"}
    <2>1. v.to \in Elems(Written(m.product, d, op)) /\ w.to \in Elems(Written(m.product, d, other))
      BY <1>1, FanSetting
    <2> QED
      BY <1>1, <2>1, SetNotCpu
  <1>2. CASE op = "bios" /\ other \in {"set", "cpu"}
    <2>1. v.to \in Bits
      BY <1>2, BiosSetting
    <2>2. w.to \in Fans
      BY <1>2, FanSetting
    <2> QED
      BY <2>1, <2>2 DEF Bits, Fans
  <1>3. CASE other = "bios" /\ op \in {"set", "cpu"}
    <2>1. w.to \in Bits
      BY <1>3, BiosSetting
    <2>2. v.to \in Fans
      BY <1>3, FanSetting
    <2> QED
      BY <2>1, <2>2 DEF Bits, Fans
  <1> QED
    BY <1>1, <1>2, <1>3 DEF Settings

----------------------------------------------------------------------------
(* The settings are in the registers.                                      *)

LEMMA DoneSame ==
  ASSUME DoneInv, UNCHANGED <<machine, dir, reg, asked>>,
         \A u \in Users : /\ Asking(u)' => Asking(u)
                          /\ Asking(u) => /\ Asking(u)' /\ call'[u] = call[u]
                                          /\ todo'[u] = todo[u]
  PROVE  DoneInv'
  <1>1. ASSUME NEW op \in Settings PROVE Done(op)'
    BY DEF DoneInv, Done
  <1> QED
    BY <1>1 DEF DoneInv

\* A setting that is asked for is one of those that there are.
LEMMA AskedArg ==
  ASSUME AskedInv, NEW op \in Settings, asked[op] # Unasked(op) PROVE asked[op] \in Args(op)
BY DEF AskedInv, Settings, Unasked

LEMMA DoneEnter ==
  ASSUME Shapes, CallInv, TodoInv, AskedInv, DoneInv, NEW t \in Threads, Enter(t)
  PROVE  DoneInv'
  <1>1. /\ UNCHANGED <<machine, dir, reg, call, todo, strayed, torn>> /\ region = Nobody /\ region' = t
        /\ pc[t] = "enter" /\ pc'[t] = "access" /\ \A u \in Threads \ {t} : pc'[u] = pc[u]
    BY ThreadTypes DEF Enter, Goto, procVars
  <1>2. \A u \in Users : ~Asking(u)
    BY <1>1, Strangers, ThreadTypes DEF Asking
  <1>3. \A u \in Users \ {t} : ~Asking(u)'
    BY <1>1 DEF Asking
  <1>4. CASE strayed \/ torn \/ call[t].op \notin Settings
    <2>1. asked' = asked /\ \A u \in Users : ~Asking(u)'
      BY <1>1, <1>3, <1>4, EnterAsks DEF Asking
    <2> QED
      BY <1>1, <1>2, <2>1, DoneSame
  <1>5. CASE ~strayed /\ ~torn /\ call[t].op \in Settings
    <2>1. /\ t \in Users /\ asked'[call[t].op] = call[t].arg
          /\ \A op \in Settings \ {call[t].op} : asked'[op] = asked[op]
      BY <1>5, EnterAsks
    <2>2. Asking(t)' /\ call[t].drv = dir
          /\ todo[t] = Writes(machine, dir, call[t].op, call[t].arg)
      BY <1>1, <1>5, <2>1 DEF Asking, TodoInv, Listed, CallInv, CallsIn
    <2>3. ASSUME NEW op \in Settings PROVE Done(op)'
      <3>1. CASE op = call[t].op
        BY <1>1, <2>1, <2>2, <3>1 DEF Done
      <3>2. CASE op # call[t].op
        <4>1. asked'[op] = asked[op] /\ Done(op)
          BY <2>1, <3>2 DEF DoneInv
        <4> QED
          BY <1>1, <1>2, <4>1 DEF Done
      <3> QED
        BY <3>1, <3>2
    <2> QED
      BY <1>1, <1>3, <2>1, <2>3 DEF DoneInv
  <1> QED
    BY <1>4, <1>5

LEMMA DoneWrite ==
  ASSUME IInv, Shapes, CallInv, TodoInv, AskedInv, DoneInv, NEW t \in Threads, Write(t)
  PROVE  DoneInv'
  <1>1. /\ UNCHANGED <<machine, dir, call, strayed, torn, region, asked>>
        /\ pc[t] = "access" /\ todo[t] # <<>> /\ todo'[t] = Tail(todo[t])
        /\ \A u \in Threads \ {t} : pc'[u] = pc[u] /\ todo'[u] = todo[u]
    BY ThreadTypes DEF Write, Goto, procVars, hvars
  <1>2. CASE strayed \/ torn
    BY <1>1, <1>2 DEF DoneInv, Done, Asking, AskedInv, NothingAsked, Settings, Unasked
  <1>3. CASE ~strayed /\ ~torn
    <2>1. region = t /\ config
      BY <1>1, <1>3 DEF IInv, PortsExclusive
    <2>2. /\ todo[t] \in Seq(Writings) /\ t \in Users
      BY <1>1, ThreadTypes DEF Shapes, ScriptInv, Threads
    <2> DEFINE h == Head(todo[t])
               own == call[t].op
               arg == call[t].arg
    <2>3. /\ h \in Writings /\ Elems(todo[t]) = {h} \cup Elems(Tail(todo[t]))
          /\ Len(todo[t]) = 1 => Elems(Tail(todo[t])) = {}
      BY <1>1, <2>2, FirstWrite
    <2>4. /\ own \in Settings /\ arg \in Args(own) /\ call[t].drv = dir /\ dir \in Drivers
          /\ h \in Elems(Writes(machine, dir, own, arg))
      BY <1>1, <1>3, <2>2, <2>3 DEF TodoInv, Listed, CallInv, CallsIn, Shapes, TypeOK
    <2>5. Asking(t) /\ asked[own] = arg
      BY <1>1, <1>3, <2>1, <2>2, <2>4 DEF Asking, DoneInv
    <2>6. \A u \in Users \ {t} : ~Asking(u) /\ ~Asking(u)'
      BY <1>1, <2>1 DEF Asking
    <2>7. /\ h.to \in Fans \cup Bits /\ reg'[h.to] = h.val
          /\ \A r \in (Fans \cup Bits) \ {h.to} : reg'[r] = reg[r]
      BY <2>1, <2>3 DEF Write, Shapes, TypeOK, Writings
    <2>8. Len(todo[t]) # 1 => Asking(t)'
      BY <1>1, <2>5, ThreadTypes DEF Write, Goto, Asking
    <2>9. ASSUME NEW op \in Settings, asked[op] # Unasked(op),
                 NEW w \in Elems(Writes(machine, dir, op, asked[op]))
          PROVE  \/ reg'[w.to] = w.val
                 \/ Asking(t)' /\ own = op /\ w \in Elems(todo'[t])
      <3>1. asked[op] \in Args(op)
        BY <2>9, AskedArg
      <3>2. \/ reg[w.to] = w.val
            \/ own = op /\ w \in Elems(todo[t])
        BY <2>6, <2>9 DEF DoneInv, Done
      <3>3. CASE op = own
        <4>1. w.to = h.to => w = h
          BY <2>4, <2>5, <2>9, <3>1, <3>3, OneValue
        <4>2. reg[w.to] = w.val => reg'[w.to] = w.val
          BY <1>1, <2>1, <2>7, <4>1 DEF Write
        <4>3. w \in Elems(todo[t]) =>
                reg'[w.to] = w.val \/ (Asking(t)' /\ w \in Elems(todo'[t]))
          BY <1>1, <2>3, <2>7, <2>8
        <4> QED
          BY <3>2, <3>3, <4>2, <4>3
      <3>4. CASE op # own
        <4>1. w.to # h.to
          BY <2>4, <2>9, <3>1, <3>4, Apart
        <4> QED
          BY <2>1, <3>2, <3>4, <4>1 DEF Write, Shapes, TypeOK
      <3> QED
        BY <3>3, <3>4
    <2>10. ASSUME NEW op \in Settings PROVE Done(op)'
      BY <1>1, <2>2, <2>9 DEF Done
    <2> QED
      BY <1>1, <2>5, <2>6, <2>10 DEF DoneInv
  <1> QED
    BY <1>2, <1>3

LEMMA DoneExit ==
  ASSUME Shapes, DoneInv, NEW t \in Threads, Exit(t)
  PROVE  DoneInv'
  <1>1. /\ UNCHANGED <<machine, dir, reg, call, todo>> /\ pc[t] = "exit" /\ region' = Nobody
        /\ \A u \in Threads \ {t} : pc'[u] = pc[u]
    BY ThreadTypes DEF Exit, Goto, procVars
  <1>2. \A u \in Users : ~Asking(u)'
    BY <1>1, Strangers, ThreadTypes DEF Asking
  <1>3. CASE region = t
    <2>1. \A u \in Users : ~Asking(u)
      BY <1>1, <1>3, ThreadTypes DEF Asking
    <2> QED
      BY <1>1, <1>2, <1>3, <2>1, DoneSame DEF Exit
  <1>4. CASE region # t
    <2>1. asked' = NothingAsked
      BY <1>4 DEF Exit
    <2> QED
      BY <1>2, <2>1 DEF DoneInv, Done, NothingAsked, Settings, Unasked
  <1> QED
    BY <1>3, <1>4

\* The owner of the directory changes when there is no setting of the fans.
LEMMA DoneOwner ==
  ASSUME Shapes, DirInv, CallInv, AskedInv, DoneInv, ProcfsCreate \/ ItExit
  PROVE  DoneInv'
  <1>1. /\ UNCHANGED <<machine, reg, region, todo, strayed>>
        /\ \A u \in Users : pc'[u] = pc[u] /\ call'[u] = call[u]
    BY ThreadTypes DEF ProcfsCreate, ItExit, Loaded, Goto, chipVars, threadVars, hvars
  <1>2. CASE torn' = TRUE
    <2>1. torn => asked = NothingAsked
      BY DEF AskedInv
    <2>2. ASSUME ProcfsCreate PROVE asked' = NothingAsked
      BY <1>2, <2>1, <2>2 DEF ProcfsCreate, hvars
    <2>3. ASSUME ItExit, dir \in {Current, Nobody} PROVE asked' = NothingAsked
      <3>1. torn' = torn /\ asked' = [asked EXCEPT !.set = Unset, !.cpu = Unset]
        BY <2>3 DEF ItExit
      <3>2. asked = NothingAsked
        BY <1>2, <2>1, <3>1
      <3> QED
        BY <3>1, <3>2 DEF NothingAsked
    <2>4. ASSUME ItExit, dir \notin {Current, Nobody} PROVE asked' = NothingAsked
      BY <2>4 DEF ItExit
    <2>5. asked' = NothingAsked
      BY <2>2, <2>3, <2>4
    <2>6. \A u \in Users : ~Asking(u)'
      BY <1>2 DEF Asking
    <2> QED
      BY <2>5, <2>6 DEF DoneInv, Done, NothingAsked, Settings, Unasked
  <1> SUFFICES ASSUME torn' # TRUE PROVE DoneInv'
    BY <1>2
  <1>3. torn' = torn /\ torn = FALSE /\ \A u \in Users : Asking(u)' <=> Asking(u)
    BY <1>1 DEF ProcfsCreate, ItExit, Shapes, TypeOK, Asking, hvars
  <1>4. CASE ProcfsCreate /\ dir # Nobody
    BY <1>1, <1>3, <1>4, DoneSame DEF ProcfsCreate, hvars
  <1>5. CASE ItExit \/ dir = Nobody
    <2>1. dir # Nobody => files = {}
      BY <1>5 DEF ItExit, DirInv, OwnInv
    <2>2. \A u \in Users : ~Asking(u)
      BY <1>3, <2>1 DEF Asking, CallInv, CallsIn
    <2>3. ItExit => dir \in {Current, Nobody}
      BY <1>3 DEF ItExit
    <2>4. /\ asked'.bios = asked.bios /\ asked'.set = Unset /\ asked'.cpu = Unset
      BY <1>5, <2>3 DEF ProcfsCreate, ItExit, AskedInv, hvars
    <2>5. Done("set")' /\ Done("cpu")'
      BY <2>4 DEF Done, Unasked
    <2>6. Done("bios")'
      <3>1. Done("bios")
        BY DEF DoneInv, Settings
      <3>2. \A d, e, arg : Writes(machine, d, "bios", arg) = Writes(machine, e, "bios", arg)
        BY DEF Writes
      <3> QED
        BY <1>1, <2>2, <2>4, <3>1, <3>2 DEF Done
    <2> QED
      BY <1>3, <2>2, <2>5, <2>6 DEF DoneInv, Settings
  <1> QED
    BY <1>4, <1>5

LEMMA DoneStep ==
  /\ IInv /\ Shapes /\ DirInv /\ CallInv /\ TodoInv /\ AskedInv /\ DoneInv
  /\ [Next]_vars
  => DoneInv'
  <1> SUFFICES ASSUME IInv, Shapes, DirInv, CallInv, TodoInv, AskedInv, DoneInv,
                      [Next]_vars
               PROVE  DoneInv'
    OBVIOUS
  <1> USE DEF chipVars, procVars, threadVars, hvars
  \* A step of a call that is not, and does not get, at the ports.
  <1>1. ASSUME NEW t \in Users, UNCHANGED <<machine, dir, reg, asked, region, strayed, torn>>,
               ~Asking(t), pc'[t] # "access",
               \A u \in Users \ {t} : pc'[u] = pc[u] /\ call'[u] = call[u] /\ todo'[u] = todo[u]
        PROVE  DoneInv'
    BY <1>1, DoneSame DEF Asking
  <1>2. ASSUME NEW t \in Users, NEW d \in Drivers, File(t, d) PROVE DoneInv'
    <2>1. /\ UNCHANGED <<machine, dir, reg, asked, region, strayed, torn>>
          /\ pc[t] = "idle" /\ pc'[t] = "lock"
          /\ \A u \in Users \ {t} : pc'[u] = pc[u] /\ call'[u] = call[u] /\ todo'[u] = todo[u]
      BY <1>2, ThreadTypes DEF File, FanWrite, StartupWrite, FanRead, StartupRead, Begin, Goto
    <2> QED
      BY <1>1, <2>1 DEF Asking
  <1>3. ASSUME NEW t \in Users, Lock(t) \/ Interrupted(t) \/ Refused(t) \/ Return(t)
        PROVE  DoneInv'
    <2>1. /\ UNCHANGED <<machine, dir, reg, asked, region, strayed, torn>>
          /\ pc[t] # "access" /\ pc'[t] # "access"
          /\ \A u \in Users \ {t} : pc'[u] = pc[u] /\ call'[u] = call[u] /\ todo'[u] = todo[u]
      BY <1>3, ThreadTypes DEF Lock, Interrupted, Refused, Return, Goto
    <2> QED
      BY <1>1, <2>1 DEF Asking
  <1>4. ASSUME NEW t \in Users, ReadBits(t) \/ ReadSpeeds(t) PROVE DoneInv'
    <2>1. /\ UNCHANGED <<machine, dir, reg, asked, region, strayed, torn>>
          /\ call[t].op \notin Settings /\ pc'[t] # "access"
          /\ \A u \in Users \ {t} : pc'[u] = pc[u] /\ call'[u] = call[u] /\ todo'[u] = todo[u]
      BY <1>4, ThreadTypes DEF ReadBits, ReadSpeeds, Goto, Settings
    <2> QED
      BY <1>1, <2>1 DEF Asking
  <1>5. ASSUME NEW t \in Users, WriteNothing(t) PROVE DoneInv'
    <2>1. /\ UNCHANGED <<machine, dir, reg, asked, region, strayed, torn, call, todo>>
          /\ todo[t] = <<>> /\ pc'[t] # "access"
          /\ \A u \in Users \ {t} : pc'[u] = pc[u]
      BY <1>5, ThreadTypes DEF WriteNothing, Goto
    <2>2. ASSUME NEW op \in Settings PROVE Done(op)'
      <3>1. Elems(todo[t]) = {}
        BY <2>1 DEF Elems
      <3>2. \A u \in Users \ {t} : Asking(u) => Asking(u)'
        BY <2>1 DEF Asking
      <3> QED
        BY <2>1, <3>1, <3>2 DEF DoneInv, Done
    <2>3. \A u \in Users : Asking(u)' => Asking(u)
      BY <2>1 DEF Asking
    <2> QED
      BY <2>1, <2>2, <2>3 DEF DoneInv
  <1>6. ASSUME Refused(Script) \/ WriteNothing(Script) \/ ReadBits(Script) \/ ReadSpeeds(Script)
               \/ ItInit \/ ReadId \/ InitFails \/ StartUnload \/ SkipUnload
               \/ \E file \in {"fan", "startup"} : RemoveFile(file)
        PROVE  DoneInv'
    <2>1. /\ UNCHANGED <<machine, dir, reg, asked, region, strayed, torn, todo>>
          /\ \A u \in Users : pc'[u] = pc[u] /\ call'[u] = call[u]
      BY <1>6, ThreadTypes DEF Refused, WriteNothing, ReadBits, ReadSpeeds, ItInit, ReadId,
         InitFails, Loaded, StartUnload, SkipUnload, RemoveFile, Goto
    <2> QED
      BY <2>1, DoneSame DEF Asking
  <1>7. CASE ForeignTakes \/ ForeignLeaves
    <2>1. /\ UNCHANGED <<machine, dir, reg, asked, strayed, torn, pc, call, todo>>
          /\ region \notin Threads /\ region' \notin Threads
      BY <1>7, Strangers DEF ForeignTakes, ForeignLeaves
    <2>2. \A u \in Users : ~Asking(u) /\ ~Asking(u)'
      BY <2>1, ThreadTypes DEF Asking
    <2> QED
      BY <2>1, <2>2, DoneSame
  <1>8. CASE UNCHANGED vars
    BY <1>8, DoneSame DEF vars, Asking
  <1>9. \A t \in Threads : t \in Users \/ t = Script
    BY DEF Threads
  <1> QED
    BY <1>2, <1>3, <1>4, <1>5, <1>6, <1>7, <1>8, <1>9, DoneEnter, DoneWrite, DoneExit, DoneOwner,
       ThreadTypes DEF Next, Proceed, ScriptStep, Return

----------------------------------------------------------------------------
(* What has been read is what the registers hold.                          *)

LEMMA ReadStep ==
  IInv /\ Shapes /\ CallInv /\ TodoInv /\ ExitHolds /\ ReadInv /\ [Next]_vars => ReadInv'
  <1> SUFFICES ASSUME IInv, Shapes, CallInv, TodoInv, ExitHolds, ReadInv, [Next]_vars,
                      NEW u \in Users, pc'[u] = "exit", call'[u].op = "startup", ~strayed'
               PROVE  got'[u] = [b \in Bits |-> reg'[b]]
    BY DEF ReadInv
  <1> USE DEF chipVars, procVars, threadVars, hvars
  <1>1. ASSUME pc[u] = "exit", call'[u] = call[u], got'[u] = got[u], reg' = reg, ~strayed
        PROVE  got'[u] = [b \in Bits |-> reg'[b]]
    BY <1>1 DEF ReadInv
  <1>2. ASSUME NEW t \in Users, NEW d \in Drivers, File(t, d)
        PROVE  got'[u] = [b \in Bits |-> reg'[b]]
    <2>1. pc[u] = "exit" /\ call'[u] = call[u] /\ UNCHANGED <<got, reg, strayed>>
      BY <1>2, ThreadTypes DEF File, FanWrite, StartupWrite, FanRead, StartupRead, Begin, Goto
    <2> QED
      BY <1>1, <2>1
  <1>3. ASSUME NEW t \in Threads, \/ t \in Users /\ (Lock(t) \/ Interrupted(t) \/ Return(t))
                                  \/ Enter(t) \/ Exit(t)
        PROVE  got'[u] = [b \in Bits |-> reg'[b]]
    <2>1. pc[u] = "exit" /\ call'[u] = call[u] /\ got'[u] = got[u] /\ reg' = reg /\ ~strayed
      BY <1>3, ThreadTypes DEF Lock, Interrupted, Return, Enter, Exit, Goto
    <2> QED
      BY <1>1, <2>1
  <1>4. ASSUME NEW t \in Threads, Refused(t) \/ WriteNothing(t) \/ ReadSpeeds(t)
        PROVE  got'[u] = [b \in Bits |-> reg'[b]]
    <2>1. pc[u] = "exit" /\ call'[u] = call[u] /\ UNCHANGED <<got, reg, strayed>>
      BY <1>4, ThreadTypes DEF Refused, WriteNothing, ReadSpeeds, Goto
    <2> QED
      BY <1>1, <2>1
  <1>5. ASSUME NEW t \in Threads, Write(t) PROVE got'[u] = [b \in Bits |-> reg'[b]]
    <2>1. /\ pc[t] = "access" /\ todo[t] # <<>> /\ UNCHANGED <<call, strayed, region>>
          /\ u # t => pc[u] = "exit"
      BY <1>5, ThreadTypes DEF Write, Goto
    <2>2. CASE u = t
      BY <2>1, <2>2 DEF TodoInv, Listed, Settings
    <2>3. CASE u # t
      <3>1. region = t
        BY <2>1 DEF IInv, PortsExclusive
      <3>2. region = u
        BY <2>1, <2>3, ThreadTypes DEF ExitHolds
      <3> QED
        BY <2>3, <3>1, <3>2
    <2> QED
      BY <2>2, <2>3
  <1>6. ASSUME NEW t \in Threads, ReadBits(t) PROVE got'[u] = [b \in Bits |-> reg'[b]]
    <2>1. CASE u = t
      <3>1. config /\ reg' = reg
        BY <1>6, <2>1 DEF ReadBits, IInv, PortsExclusive
      <3> QED
        BY <1>6, <2>1, <3>1, ThreadTypes DEF ReadBits
    <2>2. CASE u # t
      <3>1. pc[u] = "exit" /\ got'[u] = got[u] /\ UNCHANGED <<call, reg, strayed>>
        BY <1>6, <2>2, ThreadTypes DEF ReadBits, Goto
      <3> QED
        BY <1>1, <3>1
    <2> QED
      BY <2>1, <2>2
  <1>7. CASE ScriptStep
    <2>1. /\ UNCHANGED <<reg, strayed>>
          /\ pc[u] = "exit" /\ call'[u] = call[u] /\ got'[u] = got[u]
      BY <1>7, ThreadTypes DEF ScriptStep, ItInit, ReadId, ProcfsCreate, InitFails, Loaded,
         StartUnload, SkipUnload, ItExit, RemoveFile, Goto
    <2> QED
      BY <1>1, <2>1
  <1>8. CASE ForeignTakes \/ ForeignLeaves \/ UNCHANGED vars
    BY <1>1, <1>8 DEF ForeignTakes, ForeignLeaves, vars
  <1> QED
    BY <1>2, <1>3, <1>4, <1>5, <1>6, <1>7, <1>8, ThreadTypes DEF Next, Proceed, Return

----------------------------------------------------------------------------
LEMMA SInvInit == Init => SInv
  <1> SUFFICES ASSUME Init PROVE SInv
    OBVIOUS
  <1>1. IInv /\ Shapes
    BY InvInit, ShapesInit
  <1>2. DirInv
    BY DEF Init, DirInv, OwnInv
  <1>3. \A t \in Threads : pc[t] = "idle" /\ call[t] = NoCall /\ todo[t] = <<>>
    BY DEF Init
  <1>4. CallInv /\ TodoInv /\ ExitHolds /\ ReadInv
    BY <1>3, ThreadTypes, <1>1 DEF CallInv, CallsIn, TodoInv, Listed, NoCall, Settings, ExitHolds, ReadInv
  <1>5. AskedInv
    BY DEF Init, AskedInv, NothingAsked
  <1>6. DoneInv
    BY <1>1, <1>3, ThreadTypes DEF Init, DoneInv, Done, Asking, NothingAsked, Settings, Unasked
  <1> QED
    BY <1>1, <1>2, <1>4, <1>5, <1>6 DEF SInv

LEMMA SInvStep ==
  ASSUME OneBios PROVE SInv /\ [Next]_vars => SInv'
BY InvStep, ShapesStep, DirStep, CallStep, TodoStep, AskedStep, HoldsStep, DoneStep, ReadStep
   DEF SInv

LEMMA FansInv ==
  ASSUME KnownProducts, SInv PROVE FansAsShown
  <1> SUFFICES ASSUME NEW d \in Drivers, NEW kind \in {"set", "cpu"},
                      dir = d, region = Nobody, asked[kind] # Unset,
                      ~(kind = "cpu" /\ machine.product \in OneFan),
                      NEW f \in Shows(machine.product, d)[kind]
               PROVE  reg[f] = asked[kind]
    BY DEF FansAsShown
  <1>1. d # Nobody /\ d \in LoadsOf(machine) /\ machine \in Machines
    BY SioFanAssumption, MachineOf DEF SInv, DirInv, OwnInv, LoadsOf
  <1>2. d = "cpufan" => machine.product \in OneFan \cup Plus \cup Large \cup {"DXP480T Plus"}
    BY <1>1 DEF KnownProducts
  <1>3. f \in Elems(Written(machine.product, d, kind))
    BY <1>2, ShownWritten
  <1>4. asked[kind] # Unasked(kind) /\ kind \in Settings
    BY DEF Unasked, Settings
  <1>5. asked[kind] \in Args(kind)
    BY <1>4, AskedArg DEF SInv
  <1>6. Write1(f, asked[kind]) \in Elems(Writes(machine, d, kind, asked[kind]))
    BY <1>3, <1>5, FanSetting
  <1>7. \A u \in Users : ~Asking(u)
    BY Strangers, ThreadTypes DEF SInv, Asking
  <1> QED
    BY <1>4, <1>6, <1>7 DEF SInv, DoneInv, Done, Write1

LEMMA CodedValue ==
  ASSUME NEW bits, NEW a \in 0 .. 1, NEW b \in 0 .. 1, NEW c \in 0 .. 1,
         \A w \in Coded(a, b, c) : bits[w.to] = w.val
  PROVE  Value(bits) = 4 * a + b + 2 * c
  <1>1. bits["F2.5"] = a /\ bits["F4.5"] = b /\ bits["F4.6"] = c
    BY DEF Coded, Write1
  <1> QED
    BY <1>1 DEF Value

\* The tables that read the codes are inverse to those that write them.
LEMMA StatusOf ==
  ASSUME NEW bits, NEW old \in BOOLEAN, NEW cmd \in {"on", "off", "last"},
         ~(old = TRUE /\ cmd = "off"),
         \A w \in Elems(Codes(old, cmd)) : bits[w.to] = w.val
  PROVE  /\ old = FALSE => NewStatus(bits) = cmd
         /\ old = TRUE => OldStatus(bits) = cmd
  <1>1. CASE old = FALSE /\ cmd = "on"
    <2>1. Elems(Codes(old, cmd)) = Coded(0, 1, 0)
      BY <1>1, BiosWritten
    <2>2. Value(bits) = 1
      BY <2>1, CodedValue
    <2> QED
      BY <1>1, <2>2 DEF NewStatus
  <1>2. CASE old = FALSE /\ cmd = "off"
    <2>1. Elems(Codes(old, cmd)) = Coded(0, 1, 1)
      BY <1>2, BiosWritten
    <2>2. Value(bits) = 3
      BY <2>1, CodedValue
    <2> QED
      BY <1>2, <2>2 DEF NewStatus
  <1>3. CASE old = FALSE /\ cmd = "last"
    <2>1. Elems(Codes(old, cmd)) = Coded(1, 1, 1)
      BY <1>3, BiosWritten
    <2>2. Value(bits) = 7
      BY <2>1, CodedValue
    <2> QED
      BY <1>3, <2>2 DEF NewStatus
  <1>4. CASE old = TRUE /\ cmd = "on"
    <2>1. Elems(Codes(old, cmd)) = Coded(0, 1, 0)
      BY <1>4, BiosWritten
    <2>2. Value(bits) = 1
      BY <2>1, CodedValue
    <2> QED
      BY <1>4, <2>2 DEF OldStatus
  <1>5. CASE old = TRUE /\ cmd = "last"
    <2>1. Elems(Codes(old, cmd)) = Coded(1, 0, 0)
      BY <1>5, BiosWritten
    <2>2. Value(bits) = 4
      BY <2>1, CodedValue
    <2> QED
      BY <1>5, <2>2 DEF OldStatus
  <1> QED
    BY <1>1, <1>2, <1>3, <1>4, <1>5

LEMMA StartupInv ==
  ASSUME OneBios, SInv PROVE StartupReadsBack
  <1> SUFFICES ASSUME NEW t \in Users, ~(IsOld(call[t].drv) /\ asked.bios = "off"),
                      pc[t] = "exit", call[t].op = "startup", asked.bios # "unset"
               PROVE  Status(t) = asked.bios
    BY DEF StartupReadsBack, ReadsBack
  <1>1. ~strayed /\ ~torn
    BY DEF SInv, AskedInv, NothingAsked
  <1>2. got[t] = [b \in Bits |-> reg[b]] /\ region = t
    BY <1>1, ThreadTypes DEF SInv, ReadInv, ExitHolds
  <1>3. \A u \in Users : ~Asking(u)
    BY <1>2 DEF Asking
  <1>4. asked.bios \in {"on", "off", "last"}
    BY DEF SInv, AskedInv, Args
  <1>5. \A w \in Elems(Writes(machine, dir, "bios", asked.bios)) :
          reg[w.to] = w.val /\ w.to \in Bits
    BY <1>3, <1>4, BiosSetting DEF SInv, DoneInv, Done, Settings, Unasked, Args
  <1>6. \A w \in Elems(Codes(OnOld(machine), asked.bios)) : got[t][w.to] = w.val
    BY <1>2, <1>4, <1>5, BiosSetting DEF Args
  <1>7. IsOld(call[t].drv) <=> OnOld(machine)
    BY <1>1, CodesOfOwner DEF SInv, CallInv, CallsIn
  <1>8. CASE IsOld(call[t].drv)
    BY <1>4, <1>6, <1>7, <1>8, StatusOf DEF Status, OnOld
  <1>9. CASE ~IsOld(call[t].drv)
    BY <1>4, <1>6, <1>7, <1>9, StatusOf DEF Status, OnOld
  <1> QED
    BY <1>8, <1>9

\* On the products that cpufan knows, and up to the first stray release or torn
\* directory, every fan that fan_read shows turns as the last set_fan or
\* set_cpu_fan has said, with any number of users whose calls interleave, and in
\* whatever order the drivers come and go: no call is between the first
\* and the last fan of another (superio_enter), and the fans that a product is
\* shown are the ones that are written for it.
THEOREM FansAreAsShown ==
  ASSUME OneBios, KnownProducts PROVE Spec => []FansAsShown
BY SInvInit, SInvStep, FansInv, PTL DEF Spec

\* startup_read tells the setting that the last set_bios has made, on the new BIOS
\* and, but for "off", on the old one: the codes that are written and the tables
\* that read them are inverse to each other, and none of the three bits is written
\* between their reads (set_bios, startup_read).
THEOREM StartupIsReadBack ==
  ASSUME OneBios PROVE Spec => []StartupReadsBack
BY SInvInit, SInvStep, StartupInv, PTL DEF Spec

----------------------------------------------------------------------------
(* Nobody waits for good, but for ports that fan_read has kept.            *)

\* Where the calls are: a user's in one of the files, init past no mutex.
CallsInside ==
  /\ pc[Script] # "lock"
  /\ \A t \in Users : IF pc[t] = "idle" THEN call[t] = NoCall
                      ELSE pc[t] # "create" /\ call[t].op \in Ops /\ call[t].drv \in Drivers

\* Who holds the mutex of a driver is in a call of it, and who holds the ports is
\* at them, or was in a fan_read that has kept them.
HoldersInside ==
  /\ \A d \in Drivers : lock[d] # Nobody => /\ pc[lock[d]] \in {"enter", "access", "exit", "ret"}
                                            /\ call[lock[d]].drv = d
  /\ region \in Threads => pc[region] \in {"access", "exit"} \/ ~machine.active

\* A step of t has its guard.
Goes(t) ==
  \/ pc[t] = "lock" /\ (lock[call[t].drv] = Nobody \/ call[t].op = "speeds")
  \/ pc[t] = "enter" /\ region \in {Nobody, Foreign}
  \/ pc[t] = "access" /\ (todo[t] # <<>> \/ t = Script \/ call[t].op \in Ops)
  \/ pc[t] \in {"exit", "ret"}
  \/ pc[t] = "create" /\ t = Script

\* fan_read of a device that is not active has left without superio_exit.
PortsKept == ~machine.active /\ region \in Threads /\ pc[region] \notin {"access", "exit"}

WaitsForPorts(t) ==
  pc[t] = "enter" /\ (PortsKept \/ (region \in Threads \ {t} /\ Goes(region)))

\* A file of the driver can be removed: no call is in it, and fan goes first.
Removable(file) ==
  /\ file = "startup" => "fan" \notin files
  /\ \A t \in Users : call[t].drv = Current =>
       call[t].op \notin (IF file = "fan" THEN {"set", "cpu", "speeds"} ELSE {"bios", "startup"})

\* Between two inits the script goes on, but for an unload that waits for a call.
ScriptGoesOn ==
  \/ script.doing = "load" \/ script.at > Len(machine.unloads) \/ Current \notin loaded
  \/ Current \in nas /\ dir = Current => files = {}
  \/ \E file \in files : Removable(file)
  \/ \E t \in Users : pc[t] # "idle" /\ call[t].drv = Current

\* Who has begun goes on; or waits for the ports; or for the mutex of its driver,
\* whose holder goes on or waits for the ports.
CallsGoOn ==
  /\ pc[Script] = "idle" => ScriptGoesOn
  /\ \A t \in Threads : pc[t] # "idle" =>
       \/ Goes(t) \/ WaitsForPorts(t)
       \/ /\ pc[t] = "lock" /\ lock[call[t].drv] \in Users \ {t}
          /\ Goes(lock[call[t].drv]) \/ WaitsForPorts(lock[call[t].drv])

LEMMA InsideInit == Init => CallsInside /\ HoldersInside
BY Strangers DEF Init, CallsInside, HoldersInside, Threads

\* A step of t that leaves the holders alone, and does not end its call.
LEMMA StaysInside ==
  ASSUME Shapes, CallsInside, HoldersInside, NEW t \in Threads, NEW p \in Steps \ {"idle"},
         Goto(t, p), UNCHANGED <<machine, lock, region, call>>,
         pc[t] \in {"enter", "access", "exit", "ret"},
         p \in {"access", "exit", "ret"} \/ (t = Script /\ p = "create"),
         region = t => p \in {"access", "exit"} \/ ~machine.active
  PROVE  CallsInside' /\ HoldersInside'
  <1>1. /\ pc'[t] = p /\ \A u \in Threads \ {t} : pc'[u] = pc[u]
        /\ \A u \in Users : u \in Threads /\ u # Script
        /\ lock \in [Drivers -> Users \cup {Nobody}]
    BY ThreadTypes DEF Goto, Shapes, TypeOK
  <1>2. CallsInside'
    BY <1>1 DEF CallsInside, Threads
  <1>3. \A d \in Drivers : lock[d] # Script
    BY <1>1, SioFanAssumption
  <1>4. HoldersInside'
    BY <1>1, <1>3 DEF HoldersInside
  <1> QED
    BY <1>2, <1>4

LEMMA InsideBegin ==
  ASSUME Shapes, CallsInside, HoldersInside, NEW t \in Users, NEW d \in Drivers, File(t, d)
  PROVE  CallsInside' /\ HoldersInside'
  <1>1. PICK op, arg, w : Begin(t, d, op, arg, w) /\ op \in Ops
    BY DEF File, FanWrite, StartupWrite, FanRead, StartupRead, Ops
  <1>2. /\ pc[t] = "idle" /\ pc'[t] = "lock" /\ \A u \in Threads \ {t} : pc'[u] = pc[u]
        /\ call'[t].op = op /\ call'[t].drv = d /\ op \in Ops
        /\ \A u \in Threads \ {t} : call'[u] = call[u]
        /\ UNCHANGED <<machine, lock, region>>
        /\ t \in Threads /\ t # Script /\ Script \in Threads
        /\ \A u \in Users : u \in Threads
        /\ lock \in [Drivers -> Users \cup {Nobody}]
    BY <1>1, ThreadTypes DEF Begin, Goto, chipVars, Shapes, TypeOK
  <1>3. CallsInside'
    BY <1>2 DEF CallsInside
  <1>4. HoldersInside'
    BY <1>2 DEF HoldersInside
  <1> QED
    BY <1>3, <1>4

LEMMA InsideThread ==
  ASSUME Shapes, CallsInside, HoldersInside, NEW t \in Threads,
         (t \in Users /\ (Lock(t) \/ Interrupted(t))) \/ Enter(t) \/ Proceed(t)
  PROVE  CallsInside' /\ HoldersInside'
  <1>1. /\ \A p : Goto(t, p) => pc'[t] = p /\ \A u \in Threads \ {t} : pc'[u] = pc[u]
        /\ \A u \in Users : u \in Threads /\ u # Script
        /\ lock \in [Drivers -> Users \cup {Nobody}]
        /\ Script \in Threads
    BY ThreadTypes DEF Goto, Shapes, TypeOK
  <1>2. CASE t \in Users /\ Lock(t)
    <2>1. /\ pc[t] = "lock" /\ pc'[t] = "enter" /\ \A u \in Threads \ {t} : pc'[u] = pc[u]
          /\ lock[call[t].drv] = Nobody /\ lock' = [lock EXCEPT ![call[t].drv] = t]
          /\ UNCHANGED <<machine, region, call>>
      BY <1>1, <1>2 DEF Lock, chipVars
    <2>2. CallsInside'
      BY <1>1, <1>2, <2>1 DEF CallsInside
    <2>3. ASSUME NEW d \in Drivers, lock'[d] # Nobody
          PROVE  pc'[lock'[d]] \in {"enter", "access", "exit", "ret"} /\ call'[lock'[d]].drv = d
      <3>1. CASE d = call[t].drv
        BY <1>1, <2>1, <3>1
      <3>2. CASE d # call[t].drv
        BY <1>1, <2>1, <2>3, <3>2 DEF HoldersInside
      <3> QED
        BY <3>1, <3>2
    <2>4. region' \in Threads => pc'[region'] \in {"access", "exit"} \/ ~machine'.active
      BY <2>1 DEF HoldersInside
    <2> QED
      BY <2>2, <2>3, <2>4 DEF HoldersInside
  <1>3. CASE Interrupted(t) /\ t \in Users
    <2>1. /\ pc[t] = "lock" /\ pc'[t] = "idle" /\ \A u \in Threads \ {t} : pc'[u] = pc[u]
          /\ call'[t] = NoCall /\ \A u \in Threads \ {t} : call'[u] = call[u]
          /\ UNCHANGED <<machine, lock, region>>
      BY <1>1, <1>3, ThreadTypes DEF Interrupted, chipVars
    <2> QED
      BY <1>1, <1>3, <2>1 DEF CallsInside, HoldersInside
  <1>4. CASE Return(t)
    <2>1. /\ pc[t] = "ret" /\ pc'[t] = "idle" /\ \A u \in Threads \ {t} : pc'[u] = pc[u]
          /\ t \in Users /\ call'[t] = NoCall /\ \A u \in Threads \ {t} : call'[u] = call[u]
          /\ lock' = [lock EXCEPT ![call[t].drv] = Nobody]
          /\ UNCHANGED <<machine, region>>
      BY <1>1, <1>4, ThreadTypes DEF Return, chipVars
    <2>2. CallsInside'
      BY <1>1, <2>1 DEF CallsInside
    <2>3. ASSUME NEW d \in Drivers, lock'[d] # Nobody
          PROVE  pc'[lock'[d]] \in {"enter", "access", "exit", "ret"} /\ call'[lock'[d]].drv = d
      <3>1. lock'[d] = lock[d] /\ d # call[t].drv
        BY <1>1, <2>1, <2>3
      <3>2. lock[d] \in Threads /\ lock[d] # t
        BY <1>1, <2>3, <3>1 DEF HoldersInside
      <3> QED
        BY <2>1, <2>3, <3>1, <3>2 DEF HoldersInside
    <2>4. region' \in Threads => pc'[region'] \in {"access", "exit"} \/ ~machine'.active
      BY <2>1 DEF HoldersInside
    <2> QED
      BY <2>2, <2>3, <2>4 DEF HoldersInside
  <1>5. CASE Enter(t) \/ Exit(t)
    <2>1. /\ pc[t] \in {"enter", "exit"} /\ UNCHANGED <<machine, lock, call>>
          /\ pc'[t] \in {"access", "ret", "create"} /\ \A u \in Threads \ {t} : pc'[u] = pc[u]
          /\ pc'[t] = "create" => t = Script
          /\ region' = Nobody \/ (region' = t /\ pc'[t] = "access")
      BY <1>1, <1>5 DEF Enter, Exit
    <2>2. CallsInside'
      BY <1>1, <2>1 DEF CallsInside
    <2>3. \A d \in Drivers : lock[d] # Script
      BY <1>1, SioFanAssumption
    <2>4. HoldersInside'
      BY <1>1, <2>1, <2>3, Strangers DEF HoldersInside
    <2> QED
      BY <2>2, <2>4
  <1>6. CASE Refused(t)
    <2>1. pc[t] = "enter" /\ region = Foreign
      BY <1>6 DEF Refused
    <2> QED
      BY <1>6, <2>1, Strangers, StaysInside DEF Refused, Steps, chipVars
  <1>7. CASE Write(t) \/ WriteNothing(t) \/ ReadBits(t)
    BY <1>7, StaysInside DEF Write, WriteNothing, ReadBits, Steps, chipVars
  <1>8. CASE ReadSpeeds(t)
    BY <1>8, StaysInside DEF ReadSpeeds, Steps, chipVars
  <1> QED
    BY <1>2, <1>3, <1>4, <1>5, <1>6, <1>7, <1>8 DEF Proceed

LEMMA InsideScript ==
  ASSUME Shapes, CallsInside, HoldersInside, ScriptStep \/ ForeignTakes \/ ForeignLeaves
  PROVE  CallsInside' /\ HoldersInside'
  <1>1. /\ \A t \in Users : pc'[t] = pc[t] /\ call'[t] = call[t]
        /\ UNCHANGED <<machine, lock>> /\ pc'[Script] # "lock"
        /\ region' = region \/ region' \in {Nobody, Foreign}
        /\ region = Script => pc'[Script] \in {"access", "exit"} \/ ~machine.active
    BY ThreadTypes DEF ScriptStep, ItInit, ReadId, ProcfsCreate, InitFails, Loaded, StartUnload,
       SkipUnload, ItExit, RemoveFile, ForeignTakes, ForeignLeaves, Goto, threadVars, chipVars,
       CallsInside, HoldersInside
  <1>2. lock \in [Drivers -> Users \cup {Nobody}]
    BY DEF Shapes, TypeOK
  <1>3. CallsInside'
    BY <1>1 DEF CallsInside
  <1>4. HoldersInside'
    BY <1>1, <1>2, Strangers DEF HoldersInside, Threads
  <1> QED
    BY <1>3, <1>4

LEMMA InsideStep ==
  Shapes /\ CallsInside /\ HoldersInside /\ [Next]_vars => (CallsInside /\ HoldersInside)'
  <1>1. \A t \in Users : t \in Threads
    BY DEF Threads
  <1>2. CASE UNCHANGED vars
    BY <1>2 DEF vars, threadVars, chipVars, CallsInside, HoldersInside
  <1> QED
    BY <1>1, <1>2, InsideBegin, InsideThread, InsideScript DEF Next

\* Who is past the mutex goes on, or waits for the ports.
LEMMA PastTheMutex ==
  ASSUME Shapes, CallsInside, HoldersInside, NEW t \in Threads, pc[t] \notin {"idle", "lock"}
  PROVE  Goes(t) \/ WaitsForPorts(t)
  <1>1. /\ region \in Threads \cup {Foreign, Nobody} /\ pc[t] \in Steps
        /\ \A u \in Threads : u \in Users \/ u = Script
    BY ThreadTypes DEF Shapes, TypeOK, Threads
  <1>2. \A u \in Threads : pc[u] \in {"access", "exit"} => Goes(u)
    BY <1>1 DEF CallsInside, Goes
  <1>3. CASE pc[t] # "enter"
    BY <1>1, <1>2, <1>3 DEF Goes, CallsInside, Steps
  <1>4. CASE pc[t] = "enter"
    BY <1>1, <1>2, <1>4 DEF Goes, WaitsForPorts, PortsKept, HoldersInside
  <1> QED
    BY <1>3, <1>4

LEMMA ScriptWaits ==
  ASSUME Shapes, CallsInside PROVE ScriptGoesOn
  <1>1. SUFFICES ASSUME Current \in nas, dir = Current, files # {},
                        \A t \in Users : call[t].drv = Current => pc[t] = "idle"
                 PROVE  \E file \in files : Removable(file)
    BY DEF ScriptGoesOn
  <1>2. \A t \in Users : call[t].drv = Current => call[t].op = "none"
    BY <1>1 DEF CallsInside, NoCall
  <1>3. files \subseteq {"fan", "startup"}
    BY DEF Shapes, TypeOK
  <1>4. CASE "fan" \in files
    BY <1>2, <1>4 DEF Removable
  <1>5. CASE "fan" \notin files
    <2>1. "startup" \in files
      BY <1>1, <1>3, <1>5
    <2> QED
      BY <1>2, <1>5, <2>1 DEF Removable
  <1> QED
    BY <1>4, <1>5

\* No call, init or exit waits for good, however the drivers' calls interleave
\* and whatever a foreign driver does, unless fan_read has kept the ports of a
\* device that is not active (its label "err"): each mutex is taken before the
\* ports, and both are given back on every other path.
THEOREM OnlyKeptPortsHang == Spec => []CallsGoOn
  <1>1. Shapes /\ CallsInside /\ HoldersInside => CallsGoOn
    <2> SUFFICES ASSUME Shapes, CallsInside, HoldersInside, NEW t \in Threads, pc[t] = "lock",
                        ~Goes(t)
                 PROVE  /\ lock[call[t].drv] \in Users \ {t}
                        /\ Goes(lock[call[t].drv]) \/ WaitsForPorts(lock[call[t].drv])
      BY PastTheMutex, ScriptWaits DEF CallsGoOn
    <2>1. t \in Users /\ lock[call[t].drv] # Nobody
      BY DEF Goes, CallsInside, Threads
    <2>2. /\ lock[call[t].drv] \in Users /\ lock[call[t].drv] \in Threads
          /\ pc[lock[call[t].drv]] \in {"enter", "access", "exit", "ret"}
      BY <2>1 DEF CallsInside, HoldersInside, Shapes, TypeOK, Threads
    <2> QED
      BY <2>2, PastTheMutex
  <1> QED
    BY ShapesInit, ShapesStep, InsideInit, InsideStep, <1>1, PTL DEF Spec
=============================================================================
