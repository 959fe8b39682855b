------------------------- MODULE NetdevTrigProofs -------------------------
(* Theorems about NetdevTrig, for any devices, callers, names and bounds.  *)
EXTENDS NetdevTrig, TLAPS

----------------------------------------------------------------------------
(* What the network core leaves alone, and what it may announce.           *)

LEMMA LookupType ==
  ASSUME NEW i \in Slots
  PROVE  /\ Lookup(i) \in Devs \cup {NULL}
         /\ Lookup(i) # NULL => net[Lookup(i)] = "listed"
  BY DEF Lookup

\* An event is announced or it is not.
Announced(d) ==
  \/ /\ evt' \in [ev : Events, dev : {d}] /\ npc' = "cancel"
     /\ overlap' = (overlap \/ \E c \in Callers : Inside(c))
     /\ phase # "off" /\ phase # "left"
  \/ UNCHANGED <<evt, npc, overlap>>

LEMMA AnnounceEffect ==
  ASSUME NEW d \in Devs, NEW e \in Events, NEW n, Announce(e, d, n)
  PROVE  Announced(d) /\ (port' = port \/ port' = port \ {d})
  BY DEF Announce, Announced, LeaveBridge

\* One step of the core about device d.
CoreStep(d) ==
  /\ UNCHANGED <<refs, phase, todo, slot, dev_stat, mode, last_activity, pending,
                 wpc, wdev, new_activity, led, pc, req, up>>
  /\ Announced(d)
  /\ evt' # evt =>
       /\ evt = NoEvt /\ phase # "leaving"
       /\ net'[d] # "none" \/ (net' = net /\ \E i \in Slots : slot[i] = d)
  /\ \/ UNCHANGED net
     \/ /\ RtnlFree
        /\ \/ net' = [net EXCEPT ![d] = "listed"]
           \/ net' = [net EXCEPT ![d] = "leaving"]
     \/ /\ RtnlFree /\ net' = [net EXCEPT ![d] = "none"] /\ refs[d] \leq 0
        /\ UNCHANGED evt

LEMMA CoreEffect ==
  ASSUME TypeOK, NEW d \in Devs, Core(d)
  PROVE  CoreStep(d)
<1> USE DEF CoreStep, netFrame, trigVars, workVars, callVars, RtnlFree, TypeOK
<1>1. ASSUME NEW n \in Names, Register(d, n) PROVE CoreStep(d)
  BY <1>1, AnnounceEffect DEF Register, Events
<1>2. ASSUME NEW n \in Names, Rename(d, n) PROVE CoreStep(d)
  BY <1>2, AnnounceEffect DEF Rename, Events
<1>3. CASE Open(d)
  BY <1>3, AnnounceEffect DEF Open, Events
<1>4. CASE Close(d)
  BY <1>4, AnnounceEffect DEF Close, Events
<1>5. CASE CarrierChange(d)
  BY <1>5 DEF CarrierChange, Announced
<1>6. CASE LinkWatch(d)
  <2>1. UNCHANGED evt \/ \E i \in Slots : slot[i] = d
    BY <1>6 DEF LinkWatch, Announce, Passes
  <2> QED
    BY <1>6, <2>1, AnnounceEffect DEF LinkWatch, Events
<1>7. CASE BridgePort(d)
  BY <1>7 DEF BridgePort, Announced
<1>8. ASSUME NEW k \in Directions, Traffic(d, k) PROVE CoreStep(d)
  BY <1>8 DEF Traffic, Announced
<1>9. CASE Unregister(d)
  BY <1>9, AnnounceEffect DEF Unregister, Events
<1>10. CASE Rebroadcast(d)
  BY <1>10, AnnounceEffect DEF Rebroadcast, Events
<1>11. CASE Freed(d)
  BY <1>11 DEF Freed, Announced
<1> QED
  BY <1>1, <1>2, <1>3, <1>4, <1>5, <1>6, <1>7, <1>8, <1>9, <1>10, <1>11 DEF Core

----------------------------------------------------------------------------
(* Types.                                                                  *)

LEMMA CoreType ==
  ASSUME NetdevAssumption, TypeOK, NEW d \in Devs, Core(d)
  PROVE  TypeOK'
<1> USE DEF TypeOK
<1>1. CoreStep(d)
  BY CoreEffect
<1>2. evt' \in [ev : Events, dev : Devs] \cup {NoEvt} /\ npc' \in {"idle", "cancel", "lock"}
      /\ (npc' = "idle" <=> evt' = NoEvt) /\ overlap' \in BOOLEAN
  <2>1. CASE evt' \in [ev : Events, dev : {d}] /\ npc' = "cancel"
             /\ overlap' = (overlap \/ \E c \in Callers : Inside(c))
    <3>1. evt' # NoEvt
      BY <2>1 DEF NoEvt, Events
    <3>2. evt' \in [ev : Events, dev : Devs]
      BY <2>1
    <3>3. overlap' \in BOOLEAN
      BY <2>1
    <3> QED
      BY <2>1, <3>1, <3>2, <3>3
  <2>2. CASE UNCHANGED <<evt, npc, overlap>>
    BY <2>2
  <2> QED
    BY <1>1, <2>1, <2>2 DEF CoreStep, Announced
<1>3. net' \in [Devs -> {"none", "listed", "leaving"}]
  BY <1>1 DEF CoreStep
<1>4. /\ name' \in [Devs -> Names \cup {"other"}]
      /\ link' \in [Devs -> {"closed", "nocarrier", "carrier"}]
      /\ port' \subseteq Devs /\ vlan' \subseteq Devs /\ changed' \subseteq Devs
      /\ sent' \in [Devs -> [Directions -> 0 .. MaxTraffic]]
  <2>1. ASSUME NEW n \in Names, Register(d, n) PROVE <1>4!:
    BY <2>1, AnnounceEffect DEF Register, Events
  <2>6. ASSUME NEW n \in Names, Rename(d, n) PROVE <1>4!:
    BY <2>6, AnnounceEffect DEF Rename, Events
  <2>2. CASE Open(d) \/ Close(d) \/ LinkWatch(d) \/ Unregister(d) \/ Rebroadcast(d)
    BY <2>2, AnnounceEffect DEF Open, Close, LinkWatch, Unregister, Rebroadcast, Events
  <2>3. CASE CarrierChange(d) \/ BridgePort(d)
    BY <2>3 DEF CarrierChange, BridgePort
  <2>4. ASSUME NEW k \in Directions, Traffic(d, k) PROVE <1>4!:
    BY <2>4, NetdevAssumption DEF Traffic, NetdevAssumption
  <2>5. CASE Freed(d)
    BY <2>5, NetdevAssumption DEF Freed, NetdevAssumption
  <2> QED
    BY <2>1, <2>2, <2>3, <2>4, <2>5, <2>6 DEF Core
<1> QED
  BY <1>1, <1>2, <1>3, <1>4 DEF CoreStep

LEMMA CallerType ==
  ASSUME NetdevAssumption, TypeOK, NEW c \in Callers,
         CallerStep(c) \/ \E r \in Requests \cup Bits \cup {"interval"} : Store(c, r)
  PROVE  TypeOK'
<1> USE DEF TypeOK, netVars, trigVars, workVars, callVars
<1>1. ASSUME NEW r \in Requests \cup Bits \cup {"interval"}, Store(c, r) PROVE TypeOK'
  <2>1. /\ pc' \in [Callers -> {"idle", "name", "bit", "baseline"}]
        /\ req' \in [Callers -> Requests \cup Bits \cup {"interval"}]
        /\ \A b \in Callers : pc'[b] = "bit" => req'[b] \in Bits \cup {"interval"}
    BY <1>1 DEF Store
  <2>2. overlap' \in BOOLEAN /\ pending' \in BOOLEAN
    BY <1>1 DEF Store
  <2> QED
    BY <1>1, <2>1, <2>2 DEF Store
<1>2. CASE DeviceNameStore(c)
  <2>1. pending' \in BOOLEAN /\ led' \in {"off", "on"}
    <3>1. Baseline(mode', "linkup" \in mode')
      BY <1>2 DEF DeviceNameStore
    <3> QED
      BY <3>1 DEF Baseline, Shown, Polls
  <2>2. slot' \in [Slots -> Devs \cup {NULL}] /\ dev_stat' \subseteq Slots
        /\ refs' \in [Devs -> Int]
    <3>1. Lookup(0) \in Devs \cup {NULL} /\ Lookup(1) \in Devs \cup {NULL}
      BY LookupType DEF Slots
    <3>2. CASE KeepOnly(0)
      BY <3>1, <3>2 DEF KeepOnly, Slots, One
    <3>3. CASE KeepOnly(1)
      BY <3>1, <3>3 DEF KeepOnly, Slots, One
    <3>4. CASE KeepBoth
      BY <3>1, <3>4 DEF KeepBoth, Slots, One
    <3> QED
      BY <1>2, <3>2, <3>3, <3>4 DEF DeviceNameStore
  <2>3. mode' \subseteq {"link", "tx", "rx", "linkup"}
    BY <1>2 DEF DeviceNameStore
  <2>4. pc' \in [Callers -> {"idle", "name", "bit", "baseline"}]
        /\ req' \in [Callers -> Requests \cup Bits \cup {"interval"}]
        /\ up' \in [Callers -> BOOLEAN]
        /\ \A b \in Callers : pc'[b] = "bit" => req'[b] \in Bits \cup {"interval"}
    BY <1>2 DEF DeviceNameStore, Leave
  <2> QED
    BY <1>2, <2>1, <2>2, <2>3, <2>4 DEF DeviceNameStore
<1>3. CASE LedAttrStore(c)
  <2>1. mode' \subseteq {"link", "tx", "rx", "linkup"}
    <3>1. req[c] \in Requests \cup Bits \cup {"interval"}
      OBVIOUS
    <3>2. pc[c] = "bit"
      BY <1>3 DEF LedAttrStore
    <3> QED
      BY <1>3, <3>1, <3>2, NetdevAssumption DEF LedAttrStore, NetdevAssumption
  <2> QED
    BY <1>3, <2>1 DEF LedAttrStore
<1>4. CASE BaselineState(c)
  <2>1. pending' \in BOOLEAN /\ led' \in {"off", "on"}
    BY <1>4 DEF BaselineState, Baseline, Shown, Polls
  <2> QED
    BY <1>4, <2>1 DEF BaselineState, Leave
<1> QED
  BY <1>1, <1>2, <1>3, <1>4 DEF CallerStep

LEMMA NotifierType ==
  ASSUME NetdevAssumption, TypeOK, NotifyStep
  PROVE  TypeOK'
<1> USE DEF TypeOK, netVars, trigVars, workVars, callVars
<1>1. CASE NotifyCancel
  BY <1>1 DEF NotifyCancel
<1>2. CASE NotifyLocked
  <2>1. evt \in [ev : Events, dev : Devs]
    BY <1>2 DEF NotifyLocked
  <2>2. evt.dev \in Devs
    BY <2>1
  <2>3. /\ pending' \in BOOLEAN /\ led' \in {"off", "on"}
    <3>1. Baseline(mode', "linkup" \in mode')
      BY <1>2 DEF NotifyLocked
    <3> QED
      BY <3>1 DEF Baseline, Shown, Polls
  <2>4. mode' \subseteq {"link", "tx", "rx", "linkup"}
    <3>1. mode' \in {Cleared(evt.dev), mode \cup {"linkup"}, mode \ {"linkup"}}
      BY <1>2 DEF NotifyLocked
    <3> QED
      BY <3>1 DEF Cleared
  <2>5. slot' \in [Slots -> Devs \cup {NULL}] /\ refs' \in [Devs -> Int]
    <3>1. CASE Hold(evt.dev)
      BY <2>2, <3>1 DEF Hold
    <3>2. CASE Release(evt.dev)
      <4>1. ASSUME NEW i \in Slots, slot' = [slot EXCEPT ![i] = NULL],
                   refs' = [e \in Devs |-> refs[e] - One(e, slot[i])]
            PROVE  <2>5!:
        <5>1. slot' \in [Slots -> Devs \cup {NULL}]
          BY <4>1
        <5>2. \A e \in Devs : refs[e] - One(e, slot[i]) \in Int
          BY DEF One
        <5> QED
          BY <4>1, <5>1, <5>2
      <4>2. CASE UNCHANGED <<slot, refs>>
        BY <4>2
      <4> HIDE DEF TypeOK
      <4> QED
        BY <3>2, <4>1, <4>2 DEF Release
    <3>3. CASE UNCHANGED <<slot, refs>>
      BY <3>3
    <3> QED
      BY <1>2, <3>1, <3>2, <3>3 DEF NotifyLocked
  <2>6. port' \subseteq Devs /\ evt' = NoEvt /\ npc' = "idle"
    BY <1>2 DEF NotifyLocked, Delivered, LeaveBridge
  <2> QED
    BY <1>2, <2>3, <2>4, <2>5, <2>6 DEF NotifyLocked
<1> QED
  BY <1>1, <1>2 DEF NotifyStep

LEMMA CountedType ==
  ASSUME NetdevAssumption, TypeOK, wdev \in Devs
  PROVE  Counted(wdev) \in Nat
  BY DEF Counted, TypeOK, Directions, NetdevAssumption

LEMMA NextType ==
  ASSUME TypeOK, WorkNext
  PROVE  /\ wpc' \in {"stats1", "show"} /\ wdev' \in Devs \cup {NULL}
         /\ wpc' = "stats1" => wdev' # NULL
  BY DEF WorkNext, Monitored, TypeOK, Slots

LEMMA WorkType ==
  ASSUME NetdevAssumption, TypeOK, WorkStep
  PROVE  TypeOK'
<1> USE DEF TypeOK, netVars, trigVars, workVars, callVars
<1>1. CASE WorkStart
  <2>1. CASE UNCHANGED workVars
    BY <1>1, <2>1 DEF WorkStart
  <2>2. CASE new_activity' \in Garbage /\ WorkNext
    <3>1. new_activity' \in Nat
      BY <2>2, NetdevAssumption DEF NetdevAssumption
    <3> QED
      BY <1>1, <2>2, <3>1, NextType DEF WorkStart
  <2>3. CASE new_activity' \in Garbage /\ wpc' = "stats0" /\ wdev' = slot[0] /\ Monitored(0)
    <3>1. new_activity' \in Nat
      BY <2>3, NetdevAssumption DEF NetdevAssumption
    <3>2. wdev' \in Devs \cup {NULL} /\ wdev' # NULL
      BY <2>3 DEF Monitored, Slots
    <3> QED
      BY <1>1, <2>3, <3>1, <3>2 DEF WorkStart
  <2> QED
    BY <1>1, <2>1, <2>2, <2>3 DEF WorkStart
<1>2. CASE WorkStats0
  <2>1. Counted(wdev) \in Nat
    BY <1>2, CountedType DEF WorkStats0
  <2> QED
    BY <1>2, <2>1, NextType DEF WorkStats0
<1>3. CASE WorkStats1
  <2>1. new_activity + Counted(wdev) \in Nat
    BY <1>3, CountedType DEF WorkStats1
  <2> QED
    BY <1>3, <2>1 DEF WorkStats1
<1>4. CASE WorkShow
  <2>1. led' \in {"off", "on", "blink"}
    BY <1>4 DEF WorkShow
  <2> QED
    BY <1>4, <2>1 DEF WorkShow, WorkIdle
<1> QED
  BY <1>1, <1>2, <1>3, <1>4 DEF WorkStep

LEMMA ActivationType ==
  ASSUME TypeOK, Activate \/ DeactivateStart \/ Deactivating
  PROVE  TypeOK'
<1> USE DEF TypeOK, netVars, trigVars, workVars, callVars
<1>1. CASE Activate
  BY <1>1 DEF Activate
<1>2. CASE DeactivateStart
  BY <1>2 DEF DeactivateStart
<1>3. ASSUME NEW e \in {"DOWN", "UNREGISTER"}, NEW d \in Devs, DeactivateNotify(e, d) PROVE TypeOK'
  <2>1. Announced(d) /\ port' \subseteq Devs
    BY <1>3, AnnounceEffect DEF DeactivateNotify, Events
  <2>2. CASE UNCHANGED <<evt, npc, overlap>>
    BY <1>3, <2>1, <2>2 DEF DeactivateNotify
  <2>3. CASE evt' \in [ev : Events, dev : {d}] /\ npc' = "cancel"
             /\ overlap' = (overlap \/ \E c \in Callers : Inside(c))
    <3>1. evt' # NoEvt /\ evt' \in [ev : Events, dev : Devs]
      BY <2>3 DEF NoEvt, Events
    <3>2. overlap' \in BOOLEAN
      BY <2>3
    <3> QED
      BY <1>3, <2>1, <2>3, <3>1, <3>2 DEF DeactivateNotify
  <2> QED
    BY <2>1, <2>2, <2>3 DEF Announced
<1>4. CASE DeactivateNotified
  BY <1>4 DEF DeactivateNotified
<1>5. CASE DeactivateEnd
  <2>1. refs' \in [Devs -> Int]
    BY <1>5 DEF DeactivateEnd, Held, One
  <2> QED
    BY <1>5, <2>1 DEF DeactivateEnd
<1> QED
  BY <1>1, <1>2, <1>3, <1>4, <1>5 DEF Deactivating

\* The variables keep their types, whatever devices, callers and names there
\* are.
THEOREM TypeCorrect == Spec => []TypeOK
<1>1. Init => TypeOK
  <2> SUFFICES ASSUME Init PROVE TypeOK
    OBVIOUS
  <2>1. sent \in [Devs -> [Directions -> 0 .. MaxTraffic]]
    BY NetdevAssumption DEF Init, NetdevAssumption
  <2>2. slot \in [Slots -> Devs \cup {NULL}] /\ refs \in [Devs -> Int]
    BY DEF Init
  <2>3. evt = NoEvt /\ npc = "idle"
    BY DEF Init
  <2> QED
    BY <2>1, <2>2, <2>3 DEF Init, TypeOK
<1>2. TypeOK /\ [Next]_vars => TypeOK'
  <2> SUFFICES ASSUME TypeOK, [Next]_vars PROVE TypeOK'
    OBVIOUS
  <2>1. CASE UNCHANGED vars
    BY <2>1 DEF vars, TypeOK
  <2>2. CASE Next
    BY <2>2, NetdevAssumption, CoreType, CallerType, NotifierType, WorkType,
       ActivationType DEF Next
  <2> QED
    BY <2>1, <2>2
<1> QED
  BY <1>1, <1>2, PTL DEF Spec

----------------------------------------------------------------------------
(* Phases.                                                                 *)

\* Stores are made and events delivered only while the trigger is there; what
\* is freed has nothing queued and holds nothing.
PhaseOK ==
  /\ \A c \in Callers : Inside(c) => phase = "active"
  /\ evt # NoEvt => phase \in {"active", "leaving"}
  /\ phase = "off" => NoDevice /\ ~pending /\ wpc = "idle"

LEMMA PhaseStep ==
  ASSUME TypeOK, PhaseOK, [Next]_vars
  PROVE  PhaseOK'
<1> USE DEF TypeOK, PhaseOK, Inside, NoDevice, netVars, trigVars, workVars, callVars
<1>1. CASE UNCHANGED vars
  BY <1>1 DEF vars
<1>2. ASSUME NEW c \in Callers, NEW r \in Requests \cup Bits \cup {"interval"}, Store(c, r)
      PROVE PhaseOK'
  BY <1>2 DEF Store
<1>3. ASSUME NEW c \in Callers, CallerStep(c) PROVE PhaseOK'
  BY <1>3 DEF CallerStep, DeviceNameStore, LedAttrStore, BaselineState, Leave
<1>4. CASE NotifyStep
  BY <1>4 DEF NotifyStep, NotifyCancel, NotifyLocked, Delivered
<1>5. CASE WorkStep
  BY <1>5 DEF WorkStep, WorkStart, WorkStats0, WorkStats1, WorkShow
<1>6. ASSUME NEW d \in Devs, Core(d) PROVE PhaseOK'
  <2>1. CoreStep(d)
    BY <1>6, CoreEffect
  <2> QED
    BY <2>1 DEF CoreStep, Announced
<1>7. CASE Activate
  BY <1>7 DEF Activate
<1>8. CASE DeactivateStart
  BY <1>8 DEF DeactivateStart
<1>9. ASSUME NEW e \in {"DOWN", "UNREGISTER"}, NEW d \in Devs, DeactivateNotify(e, d) PROVE PhaseOK'
  <2>1. Announced(d)
    BY <1>9, AnnounceEffect DEF DeactivateNotify, Events
  <2> QED
    BY <1>9, <2>1 DEF DeactivateNotify, Announced
<1>10. CASE DeactivateNotified
  BY <1>10 DEF DeactivateNotified
<1>11. CASE DeactivateEnd
  BY <1>11 DEF DeactivateEnd
<1> QED
  BY <1>1, <1>2, <1>3, <1>4, <1>5, <1>6, <1>7, <1>8, <1>9, <1>10, <1>11
     DEF Next, Deactivating

----------------------------------------------------------------------------
(* References.                                                             *)

\* A slot is filled only while its bit of dev_stat is set.
StatOK == \A i \in Slots : slot[i] # NULL => i \in dev_stat

LEMMA KeepOnlyRefs ==
  ASSUME NetdevAssumption, TypeOK, StatOK, RefsBalanced, NEW i \in Slots, KeepOnly(i)
  PROVE  StatOK' /\ RefsBalanced'
<1> DEFINE got == IF i \in dev_stat THEN NULL ELSE Lookup(i)
           j == 1 - i
<1>1. j \in Slots /\ i # j /\ Slots = {i, j} /\ NULL \notin Devs
  BY NetdevAssumption DEF Slots, NetdevAssumption
<1>2. got \in Devs \cup {NULL}
  BY LookupType
<1>3. slot'[i] = (IF i \in dev_stat THEN slot[i] ELSE got) /\ slot'[j] = NULL
      /\ dev_stat' = {i}
  BY <1>1 DEF KeepOnly, TypeOK
<1>4. ASSUME NEW d \in Devs PROVE refs'[d] = Held(d)'
  <2>1. refs'[d] = refs[d] + One(d, got) - One(d, slot[j])
    BY DEF KeepOnly
  <2>2. refs[d] = One(d, slot[i]) + One(d, slot[j])
    BY <1>1 DEF RefsBalanced, Held, Slots, One
  <2>3. Held(d)' = One(d, slot'[i]) + One(d, slot'[j])
    BY <1>1 DEF Held, Slots, One
  <2>4. CASE i \in dev_stat
    BY <1>1, <1>3, <2>1, <2>2, <2>3, <2>4 DEF One
  <2>5. CASE i \notin dev_stat
    <3>1. slot[i] = NULL
      BY <2>5 DEF StatOK
    <3> QED
      BY <1>1, <1>3, <2>1, <2>2, <2>3, <2>5, <3>1 DEF One
  <2> QED
    BY <2>4, <2>5
<1>5. StatOK'
  BY <1>1, <1>3 DEF StatOK
<1> QED
  BY <1>4, <1>5 DEF RefsBalanced

LEMMA KeepBothRefs ==
  ASSUME NetdevAssumption, TypeOK, StatOK, RefsBalanced, KeepBoth
  PROVE  StatOK' /\ RefsBalanced'
<1> DEFINE kept == 0 \in dev_stat /\ slot[0] # NULL
           got0 == IF kept THEN NULL ELSE Lookup(0)
<1>1. NULL \notin Devs
  BY NetdevAssumption DEF NetdevAssumption
<1>2. slot'[1] = Lookup(1) /\ slot'[0] = (IF kept THEN slot[0] ELSE got0)
  BY DEF KeepBoth, Slots, TypeOK
<1>3. ~kept => slot[0] = NULL
  BY DEF StatOK, Slots
<1>4. ASSUME NEW d \in Devs PROVE refs'[d] = Held(d)'
  <2>1. refs'[d] = refs[d] + One(d, got0) + One(d, Lookup(1)) - One(d, slot[1])
    BY DEF KeepBoth
  <2>2. refs[d] = One(d, slot[0]) + One(d, slot[1])
    BY DEF RefsBalanced, Held
  <2> QED
    BY <1>1, <1>2, <1>3, <2>1, <2>2 DEF Held, One
<1>5. StatOK'
  BY DEF KeepBoth, StatOK
<1> QED
  BY <1>4, <1>5 DEF RefsBalanced

LEMMA NameStoreRefs ==
  ASSUME NetdevAssumption, TypeOK, StatOK, RefsBalanced, NEW c \in Callers,
         DeviceNameStore(c)
  PROVE  StatOK' /\ RefsBalanced'
<1>1. CASE UNCHANGED <<slot, dev_stat, refs>>
  BY <1>1 DEF StatOK, RefsBalanced, Held
<1> QED
  BY <1>1, KeepOnlyRefs, KeepBothRefs DEF DeviceNameStore, Slots

LEMMA LockedRefs ==
  ASSUME NetdevAssumption, TypeOK, StatOK, RefsBalanced, NotifyLocked
  PROVE  StatOK' /\ RefsBalanced'
<1> DEFINE d == evt.dev
<1>1. d \in Devs /\ UNCHANGED dev_stat /\ NULL \notin Devs
  <2>1. evt \in [ev : Events, dev : Devs]
    BY DEF NotifyLocked, TypeOK
  <2> QED
    BY <2>1, NetdevAssumption DEF NotifyLocked, NetdevAssumption
<1>2. ASSUME NEW i \in Slots, Takes(i, d), slot' = [slot EXCEPT ![i] = d],
             refs' = [refs EXCEPT ![d] = @ + 1]
      PROVE StatOK' /\ RefsBalanced'
  <2>1. StatOK'
    BY <1>1, <1>2 DEF Takes, StatOK, TypeOK
  <2>2. ASSUME NEW e \in Devs PROVE refs'[e] = Held(e)'
    <3>1. refs[e] = One(e, slot[0]) + One(e, slot[1]) /\ slot[i] = NULL
      BY <1>2 DEF RefsBalanced, Held, Takes
    <3>2. refs'[e] = refs[e] + One(e, d)
      BY <1>1, <1>2, <3>1 DEF TypeOK, One
    <3>3. slot'[i] = d /\ slot'[1 - i] = slot[1 - i] /\ i \in {0, 1}
      BY <1>2 DEF TypeOK, Slots
    <3> QED
      BY <1>1, <3>1, <3>2, <3>3 DEF Held, One
  <2> QED
    BY <2>1, <2>2 DEF RefsBalanced
<1>3. ASSUME NEW i \in Slots, slot' = [slot EXCEPT ![i] = NULL],
             refs' = [e \in Devs |-> refs[e] - One(e, slot[i])]
      PROVE StatOK' /\ RefsBalanced'
  <2>1. StatOK'
    BY <1>1, <1>3 DEF StatOK, TypeOK
  <2>2. ASSUME NEW e \in Devs PROVE refs'[e] = Held(e)'
    <3>1. refs[e] = One(e, slot[0]) + One(e, slot[1])
      BY DEF RefsBalanced, Held
    <3>2. refs'[e] = refs[e] - One(e, slot[i])
      BY <1>3
    <3>3. slot'[i] = NULL /\ slot'[1 - i] = slot[1 - i] /\ i \in {0, 1}
      BY <1>3 DEF TypeOK, Slots
    <3> QED
      BY <1>1, <3>1, <3>2, <3>3 DEF Held, One
  <2> QED
    BY <2>1, <2>2 DEF RefsBalanced
<1>4. CASE UNCHANGED <<slot, refs>>
  BY <1>1, <1>4 DEF StatOK, RefsBalanced, Held
<1> QED
  BY <1>2, <1>3, <1>4 DEF NotifyLocked, Hold, Release

LEMMA RefStep ==
  ASSUME NetdevAssumption, TypeOK, PhaseOK, StatOK, RefsBalanced, [Next]_vars
  PROVE  StatOK' /\ RefsBalanced'
<1> DEFINE Kept == UNCHANGED <<slot, dev_stat, refs>>
<1>1. CASE Kept
  BY <1>1 DEF StatOK, RefsBalanced, Held
<1>2. CASE UNCHANGED vars
  BY <1>1, <1>2 DEF vars
<1>3. ASSUME NEW c \in Callers, NEW r \in Requests \cup Bits \cup {"interval"}, Store(c, r)
      PROVE Kept
  BY <1>3 DEF Store, trigVars
<1>4. ASSUME NEW c \in Callers, LedAttrStore(c) \/ BaselineState(c) PROVE Kept
  BY <1>4 DEF LedAttrStore, BaselineState, trigVars
<1>5. CASE NotifyCancel \/ WorkStep
  BY <1>1, <1>5 DEF NotifyCancel, WorkStep, WorkStart, WorkStats0, WorkStats1,
                    WorkShow, trigVars
<1>6. ASSUME NEW d \in Devs, Core(d) PROVE Kept
  BY <1>6, CoreEffect DEF CoreStep
<1>7. CASE Activate
  <2>1. NoDevice /\ UNCHANGED refs /\ slot' = [i \in Slots |-> NULL] /\ dev_stat' = {}
    BY <1>7 DEF Activate, PhaseOK
  <2> QED
    BY <2>1, NetdevAssumption DEF StatOK, RefsBalanced, Held, One, NoDevice, Slots,
                                 NetdevAssumption
<1>8. CASE DeactivateStart \/ DeactivateNotified
  BY <1>1, <1>8 DEF DeactivateStart, DeactivateNotified, trigVars
<1>9. ASSUME NEW e \in {"DOWN", "UNREGISTER"}, NEW d \in Devs, DeactivateNotify(e, d) PROVE Kept
  BY <1>9 DEF DeactivateNotify, trigVars
<1>10. CASE DeactivateEnd
  BY <1>10, NetdevAssumption DEF DeactivateEnd, StatOK, RefsBalanced, Held, One, Slots,
                                 NetdevAssumption, TypeOK
<1> QED
  BY <1>1, <1>2, <1>3, <1>4, <1>5, <1>6, <1>7, <1>8, <1>9, <1>10, NameStoreRefs,
     LockedRefs DEF Next, CallerStep, NotifyStep, Deactivating

RefInv == TypeOK /\ PhaseOK /\ StatOK /\ RefsBalanced

LEMMA RefInvariant == Spec => []RefInv
<1>1. Init => PhaseOK /\ StatOK /\ RefsBalanced
  BY NetdevAssumption DEF Init, PhaseOK, StatOK, RefsBalanced, Held, One, Slots, Inside,
                          NoDevice, NetdevAssumption
<1>2. RefInv /\ [Next]_vars /\ TypeOK' => RefInv'
  BY PhaseStep, RefStep, NetdevAssumption DEF RefInv
<1> QED
  BY <1>1, <1>2, TypeCorrect, PTL DEF Spec, RefInv

\* dev_hold, dev_get_by_name and dev_put balance for any number of devices and
\* callers: the references held are the slots that point to the device, and so
\* there are none once the trigger is deactivated.
THEOREM ReferencesBalance == Spec => []RefsBalanced
  BY RefInvariant, PTL DEF RefInv

\* Deactivation leaves no reference, no queued work and no event behind.
THEOREM DeactivationClean == Spec => []Deactivated
<1>1. RefInv => Deactivated
  BY NetdevAssumption DEF RefInv, PhaseOK, RefsBalanced, Deactivated, Held, One, NoDevice,
                          Slots, TypeOK, NetdevAssumption
<1> QED
  BY <1>1, RefInvariant, PTL

----------------------------------------------------------------------------
(* Freed devices.                                                          *)

\* What a slot, an event or the deactivation may still name was not freed.
AliveOK ==
  /\ SlotAlive
  /\ evt # NoEvt => net[evt.dev] # "none"
  /\ phase = "leaving" => \A t \in todo : net[t[2]] # "none"

\* A name that is written fills the slots with listed devices.
LEMMA NameStoreAlive ==
  ASSUME TypeOK, SlotAlive, NEW c \in Callers, DeviceNameStore(c)
  PROVE  \A i \in Slots : slot'[i] # NULL => net[slot'[i]] # "none"
<1> USE DEF SlotAlive, TypeOK
<1>1. \A i \in Slots : Lookup(i) # NULL => net[Lookup(i)] # "none"
  BY LookupType
<1>2. ASSUME NEW i \in Slots, KeepOnly(i)
      PROVE \A j \in Slots : slot'[j] \in {slot[j], Lookup(j), NULL}
  BY <1>2 DEF KeepOnly, Slots
<1>3. CASE KeepBoth
  <2>1. \A j \in Slots : slot'[j] \in {slot[j], Lookup(j), NULL}
    BY <1>3 DEF KeepBoth, Slots
  <2> QED
    BY <1>1, <2>1
<1>4. CASE UNCHANGED slot
  BY <1>4
<1> QED
  BY <1>1, <1>2, <1>3, <1>4 DEF DeviceNameStore, Slots

LEMMA AliveStep ==
  ASSUME NetdevAssumption, RefInv, AliveOK, [Next]_vars
  PROVE  AliveOK'
<1> USE DEF AliveOK, SlotAlive
<1>0. TypeOK /\ RefsBalanced /\ NULL \notin Devs
  BY NetdevAssumption DEF RefInv, NetdevAssumption
<1> DEFINE Kept == UNCHANGED <<net, slot, evt, phase, todo>>
<1>1. CASE Kept
  BY <1>1
<1>2. CASE UNCHANGED vars
  BY <1>1, <1>2 DEF vars
<1>3. ASSUME NEW c \in Callers, NEW r \in Requests \cup Bits \cup {"interval"}, Store(c, r)
      PROVE Kept
  BY <1>3 DEF Store, trigVars, netVars
<1>4. ASSUME NEW c \in Callers, LedAttrStore(c) \/ BaselineState(c) PROVE Kept
  BY <1>4 DEF LedAttrStore, BaselineState, trigVars, netVars
<1>5. ASSUME NEW c \in Callers, DeviceNameStore(c) PROVE AliveOK'
  <2>1. UNCHANGED <<net, evt, phase, todo>>
    BY <1>5 DEF DeviceNameStore, netVars
  <2> QED
    BY <1>0, <1>5, <2>1, NameStoreAlive
<1>6. CASE NotifyCancel \/ WorkStep
  BY <1>1, <1>6 DEF NotifyCancel, WorkStep, WorkStart, WorkStats0, WorkStats1,
                    WorkShow, trigVars, netVars
<1>7. CASE NotifyLocked
  <2>1. evt \in [ev : Events, dev : Devs] /\ net[evt.dev] # "none"
    BY <1>0, <1>7 DEF NotifyLocked, TypeOK
  <2>2. \A i \in Slots : slot'[i] \in {slot[i], evt.dev, NULL}
    BY <1>0, <1>7 DEF NotifyLocked, Hold, Release, TypeOK
  <2> QED
    BY <1>7, <2>1, <2>2 DEF NotifyLocked, Delivered
<1>8. ASSUME NEW d \in Devs, Core(d) PROVE AliveOK'
  <2>1. CoreStep(d)
    BY <1>0, <1>8, CoreEffect
  <2>2. \A i \in Slots : slot[i] # NULL => net'[slot[i]] # "none"
    <3>1. refs[d] \leq 0 => \A i \in Slots : slot[i] # d
      BY <1>0 DEF RefsBalanced, Held, One, Slots
    <3>2. \A i \in Slots : slot[i] \in Devs \cup {NULL}
      BY <1>0 DEF TypeOK
    <3> QED
      BY <1>0, <2>1, <3>1, <3>2 DEF CoreStep, TypeOK
  <2>3. evt' # NoEvt => net'[evt'.dev] # "none"
    <3>1. CASE UNCHANGED evt
      BY <1>0, <2>1, <3>1 DEF CoreStep, TypeOK, RtnlFree
    <3>2. CASE evt' # evt
      <4>1. evt'.dev = d
        BY <2>1, <3>2 DEF CoreStep, Announced
      <4> QED
        BY <2>1, <2>2, <3>2, <4>1, <1>0 DEF CoreStep
    <3> QED
      BY <3>1, <3>2
  <2>4. phase = "leaving" => UNCHANGED net
    BY <2>1 DEF CoreStep, RtnlFree
  <2> QED
    BY <2>1, <2>2, <2>3, <2>4 DEF CoreStep
<1>9. CASE Activate
  <2>1. slot' = [i \in Slots |-> NULL] /\ phase' = "active" /\ UNCHANGED <<net, evt, todo>>
    BY <1>9 DEF Activate, netVars
  <2> QED
    BY <2>1
<1>10. CASE DeactivateStart
  <2>1. UNCHANGED <<net, evt, slot>> /\ todo' \subseteq {"DOWN", "UNREGISTER"} \X {d \in Devs : net[d] = "listed"}
    BY <1>10 DEF DeactivateStart, netVars, trigVars
  <2> QED
    BY <2>1
<1>11. ASSUME NEW e \in {"DOWN", "UNREGISTER"}, NEW d \in Devs, DeactivateNotify(e, d) PROVE AliveOK'
  <2>1. UNCHANGED <<net, slot, phase>> /\ todo' \subseteq todo /\ <<e, d>> \in todo /\ phase = "leaving"
    BY <1>11 DEF DeactivateNotify, trigVars
  <2>2. evt' = evt \/ evt'.dev = d
    BY <1>11, AnnounceEffect DEF DeactivateNotify, Announced, Events
  <2> QED
    BY <2>1, <2>2
<1>12. CASE DeactivateNotified
  BY <1>12 DEF DeactivateNotified, trigVars, netVars
<1>13. CASE DeactivateEnd
  <2>1. slot' = [i \in Slots |-> NULL] /\ phase' = "off" /\ UNCHANGED <<net, evt, todo>>
    BY <1>13 DEF DeactivateEnd, netVars
  <2> QED
    BY <2>1
<1> QED
  BY <1>1, <1>2, <1>3, <1>4, <1>5, <1>6, <1>7, <1>8, <1>9, <1>10, <1>11, <1>12, <1>13
     DEF Next, CallerStep, NotifyStep, Deactivating

\* No slot ever points to a net device that the core has freed, for any number
\* of devices and callers: the reference that goes with the slot keeps it.
THEOREM SlotsAlive == Spec => []SlotAlive
<1>1. Init => AliveOK
  BY DEF Init, AliveOK, SlotAlive
<1>2. RefInv /\ AliveOK /\ [Next]_vars => AliveOK'
  BY AliveStep, NetdevAssumption
<1>3. AliveOK => SlotAlive
  BY DEF AliveOK
<1> QED
  BY <1>1, <1>2, <1>3, RefInvariant, PTL DEF Spec

----------------------------------------------------------------------------
(* LINKUP.                                                                 *)

LEMMA LinkStep ==
  ASSUME NetdevAssumption, TypeOK, NoDeviceNoLink, [Next]_vars
  PROVE  NoDeviceNoLink'
<1> USE DEF NoDeviceNoLink, NoDevice
<1> DEFINE Kept == UNCHANGED <<slot, mode>>
<1>1. CASE Kept
  BY <1>1
<1>2. CASE UNCHANGED vars
  BY <1>2 DEF vars
<1>3. ASSUME NEW c \in Callers, NEW r \in Requests \cup Bits \cup {"interval"}, Store(c, r)
      PROVE Kept
  BY <1>3 DEF Store, trigVars
<1>4. ASSUME NEW c \in Callers, DeviceNameStore(c) PROVE NoDeviceNoLink'
  <2>1. mode' = IF Carrier(slot') THEN mode \cup {"linkup"} ELSE mode \ {"linkup"}
    BY <1>4 DEF DeviceNameStore
  <2>2. NoDevice' => ~Carrier(slot')
    BY DEF Carrier
  <2> QED
    BY <2>1, <2>2
<1>5. ASSUME NEW c \in Callers, LedAttrStore(c) PROVE NoDeviceNoLink'
  <2>1. req[c] \in Bits \cup {"interval"} /\ UNCHANGED slot
    BY <1>5 DEF LedAttrStore, TypeOK
  <2>2. mode' \subseteq mode \cup Bits
    BY <1>5, <2>1 DEF LedAttrStore
  <2> QED
    BY <2>1, <2>2, NetdevAssumption DEF NetdevAssumption
<1>6. ASSUME NEW c \in Callers, BaselineState(c) PROVE Kept
  BY <1>6 DEF BaselineState, trigVars
<1>7. CASE NotifyCancel \/ WorkStep
  BY <1>1, <1>7 DEF NotifyCancel, WorkStep, WorkStart, WorkStats0, WorkStats1,
                    WorkShow, trigVars
<1>8. CASE NotifyLocked
  <2> DEFINE d == evt.dev
  <2>1. d \in Devs /\ NULL \notin Devs
    <3>1. evt \in [ev : Events, dev : Devs]
      BY <1>8 DEF NotifyLocked, TypeOK
    <3> QED
      BY <3>1, NetdevAssumption DEF NetdevAssumption
  <2>2. CASE evt.ev \in {"CHANGENAME", "REGISTER"} /\ Hold(d) /\ mode' = Cleared(d)
    <3>1. NoDevice' => NoDevice
      BY <2>1, <2>2 DEF Hold, TypeOK, Slots
    <3> QED
      BY <2>2, <3>1 DEF Cleared
  <2>3. CASE evt.ev = "UNREGISTER" /\ Release(d) /\ mode' = Cleared(d)
    <3>1. ASSUME NEW i \in Slots, name[d] = NameOf[i], slot' = [slot EXCEPT ![i] = NULL]
          PROVE NoDeviceNoLink'
      <4>1. 1 - i \in Slots /\ 1 - i # i
        BY DEF Slots
      <4>2. slot'[1 - i] = slot[1 - i]
        BY <3>1, <4>1 DEF TypeOK
      <4>3. NoDevice' => slot[1 - i] = NULL
        BY <4>1, <4>2
      <4> QED
        BY <2>3, <3>1, <4>3 DEF Cleared
    <3>2. CASE UNCHANGED slot
      BY <2>3, <3>2 DEF Cleared
    <3> QED
      BY <2>3, <3>1, <3>2 DEF Release
  <2>4. CASE /\ evt.ev \in {"UP", "CHANGE"}
             /\ mode' = IF Carrier(slot) THEN mode \cup {"linkup"} ELSE mode \ {"linkup"}
             /\ UNCHANGED <<slot, refs>>
    BY <2>4 DEF Carrier
  <2>5. CASE evt.ev = "DOWN" /\ mode' = Cleared(d) /\ UNCHANGED <<slot, refs>>
    BY <2>5 DEF Cleared
  <2> QED
    BY <1>8, <2>2, <2>3, <2>4, <2>5 DEF NotifyLocked
<1>9. ASSUME NEW d \in Devs, Core(d) PROVE Kept
  BY <1>9, CoreEffect DEF CoreStep
<1>10. CASE Activate \/ DeactivateEnd
  BY <1>10 DEF Activate, DeactivateEnd
<1>11. CASE DeactivateStart \/ DeactivateNotified
  BY <1>1, <1>11 DEF DeactivateStart, DeactivateNotified, trigVars
<1>12. ASSUME NEW e \in {"DOWN", "UNREGISTER"}, NEW d \in Devs, DeactivateNotify(e, d) PROVE Kept
  BY <1>12 DEF DeactivateNotify, trigVars
<1> QED
  BY <1>1, <1>2, <1>3, <1>4, <1>5, <1>6, <1>7, <1>8, <1>9, <1>10, <1>11, <1>12
     DEF Next, CallerStep, NotifyStep, Deactivating

\* Without a device LINKUP is clear, whatever events, renames and stores
\* interleave: the baseline state then is off.
THEOREM NoLinkWithoutDevice == Spec => []NoDeviceNoLink
<1>1. Init => NoDeviceNoLink
  BY DEF Init, NoDeviceNoLink
<1>2. TypeOK /\ NoDeviceNoLink /\ [Next]_vars => NoDeviceNoLink'
  BY LinkStep, NetdevAssumption
<1> QED
  BY <1>1, <1>2, TypeCorrect, PTL DEF Spec

----------------------------------------------------------------------------
(* The work and what clears slots exclude each other.                      *)

\* As long as nothing overlapped: the work reads a device of a slot, and a
\* writer, and the locked section of the notifier, are alone.
Alone(c) == /\ evt = NoEvt /\ wpc = "idle" /\ ~pending
            /\ \A e \in Callers : Inside(e) => e = c
WorkOK ==
  ~overlap => /\ wpc \in {"stats0", "stats1"} => \E i \in Slots : slot[i] = wdev
              /\ \A c \in Callers : Inside(c) => Alone(c)
              /\ npc = "lock" => wpc = "idle" /\ ~pending

LEMMA WorkReads ==
  ASSUME TypeOK, WorkOK, WorkStep
  PROVE  WorkOK'
<1> USE DEF WorkOK, Alone, Inside, netVars, trigVars, workVars, callVars
<1>1. UNCHANGED <<slot, npc, evt, pc, overlap>> /\ (pending \/ wpc # "idle")
  BY DEF WorkStep, WorkStart, WorkStats0, WorkStats1, WorkShow
<1>2. ASSUME ~overlap, wpc' \in {"stats0", "stats1"} PROVE \E i \in Slots : slot[i] = wdev'
  BY <1>2 DEF WorkStep, WorkStart, WorkStats0, WorkStats1, WorkShow, WorkIdle, WorkNext,
              Slots
<1> QED
  BY <1>1, <1>2

LEMMA WorkOKStep ==
  ASSUME NetdevAssumption, RefInv, WorkOK, [Next]_vars
  PROVE  WorkOK'
<1> USE DEF WorkOK, Alone, Inside
<1>0. TypeOK /\ PhaseOK
  BY DEF RefInv
<1>1. CASE UNCHANGED vars
  BY <1>1 DEF vars
<1>2. ASSUME NEW c \in Callers, NEW r \in Requests \cup Bits \cup {"interval"}, Store(c, r)
      PROVE WorkOK'
  <2>1. ASSUME ~overlap'
        PROVE ~overlap /\ evt = NoEvt /\ \A e \in Callers : ~Inside(e)
    BY <1>2, <2>1, <1>0 DEF Store, TypeOK
  <2>2. /\ UNCHANGED <<slot, wpc, wdev, npc, evt>> /\ ~pending' /\ wpc = "idle"
        /\ \A e \in Callers : pc'[e] # "idle" => Inside(e) \/ e = c
    BY <1>0, <1>2 DEF Store, TypeOK, trigVars, workVars
  <2> QED
    BY <1>0, <2>1, <2>2 DEF TypeOK
<1>3. ASSUME NEW c \in Callers, CallerStep(c) PROVE WorkOK'
  <2>1. CASE LedAttrStore(c)
    <3>1. /\ UNCHANGED <<slot, wpc, wdev, npc, evt, pending, overlap>> /\ Inside(c)
          /\ \A e \in Callers : pc'[e] # "idle" => Inside(e)
      BY <1>0, <2>1 DEF LedAttrStore, TypeOK, workVars
    <3> QED
      BY <3>1
  <2>2. CASE DeviceNameStore(c) \/ BaselineState(c)
    <3>1. /\ UNCHANGED <<wpc, wdev, npc, evt, overlap>> /\ Inside(c)
          /\ \A e \in Callers : pc'[e] # "idle" => Inside(e) /\ e # c
      BY <1>0, <2>2 DEF DeviceNameStore, BaselineState, Leave, TypeOK, workVars, trigVars
    <3> QED
      BY <1>0, <3>1 DEF TypeOK
  <2> QED
    BY <1>3, <2>1, <2>2 DEF CallerStep
<1>4. CASE NotifyCancel
  BY <1>0, <1>4 DEF NotifyCancel, TypeOK, trigVars, workVars, callVars
<1>5. CASE NotifyLocked
  <2>1. /\ UNCHANGED <<wpc, wdev, pc, overlap>> /\ npc = "lock" /\ npc' = "idle"
        /\ evt # NoEvt
    BY <1>0, <1>5 DEF NotifyLocked, Delivered, TypeOK, workVars, callVars
  <2> QED
    BY <2>1
<1>6. CASE WorkStep
  BY <1>0, <1>6, WorkReads
<1>7. ASSUME NEW d \in Devs, Announced(d), UNCHANGED <<slot, wpc, wdev, pending, pc>>
      PROVE WorkOK'
  <2>1. CASE UNCHANGED <<evt, npc, overlap>>
    BY <1>7, <2>1
  <2>2. CASE npc' = "cancel" /\ overlap' = (overlap \/ \E c \in Callers : Inside(c))
    BY <1>7, <2>2
  <2> QED
    BY <1>7, <2>1, <2>2 DEF Announced
<1>8. ASSUME NEW d \in Devs, Core(d) PROVE WorkOK'
  BY <1>0, <1>7, <1>8, CoreEffect DEF CoreStep
<1>9. CASE Activate
  BY <1>0, <1>9 DEF Activate, PhaseOK, workVars, callVars
<1>10. CASE DeactivateStart \/ DeactivateNotified
  BY <1>10 DEF DeactivateStart, DeactivateNotified, trigVars, workVars, callVars
<1>11. ASSUME NEW e \in {"DOWN", "UNREGISTER"}, NEW d \in Devs, DeactivateNotify(e, d) PROVE WorkOK'
  <2>1. Announced(d)
    BY <1>11, AnnounceEffect DEF DeactivateNotify, Events
  <2>2. UNCHANGED <<slot, wpc, wdev, pending, pc>>
    BY <1>11 DEF DeactivateNotify, trigVars, workVars, callVars
  <2> QED
    BY <1>7, <2>1, <2>2
<1>12. CASE DeactivateEnd
  BY <1>0, <1>12 DEF DeactivateEnd, workVars, callVars
<1> QED
  BY <1>1, <1>2, <1>3, <1>4, <1>5, <1>6, <1>8, <1>9, <1>10, <1>11, <1>12
     DEF Next, NotifyStep, Deactivating

\* The work reads statistics only of devices that exist, as long as no store
\* overlaps a notification or another store, for any number of each.
THEOREM WorkReadsAlive == Spec => []StatsAlive
<1>1. Init => WorkOK /\ AliveOK
  BY DEF Init, WorkOK, Inside, AliveOK, SlotAlive
<1>2. RefInv /\ WorkOK /\ AliveOK /\ [Next]_vars => WorkOK' /\ AliveOK'
  BY WorkOKStep, AliveStep, NetdevAssumption
<1>3. RefInv /\ WorkOK /\ AliveOK => StatsAlive
  BY DEF RefInv, TypeOK, WorkOK, AliveOK, SlotAlive, StatsAlive
<1> QED
  BY <1>1, <1>2, <1>3, RefInvariant, PTL DEF Spec
=============================================================================
