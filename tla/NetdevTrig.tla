---------------------------- MODULE NetdevTrig ----------------------------
(***************************************************************************)
(* The netdev2 LED trigger, ledtrig-netdev2.c: the sysfs stores, the       *)
(* net-device notifier, the polling work, activation and deactivation, and *)
(* the references they hold on net devices.  The network core, the         *)
(* workqueue and the LED core are outside the repository and are modelled  *)
(* from how the trigger uses them.  The devices are those of init_net: no  *)
(* other is ever looked up, and the events about others are dropped.       *)
(*                                                                         *)
(* Slot 0 is net_dev0 (eth0, bit 0x01 of dev_stat), slot 1 net_dev1 (eth1, *)
(* bit 0x10).  The sections under trigger_data->lock are single steps.     *)
(***************************************************************************)
EXTENDS Integers

CONSTANTS
  Devs,        \* net devices
  NULL,        \* no device
  Callers,     \* threads that write the attributes of the trigger
  Requests,    \* the device names that are written
  Names,       \* the names that net devices may have: eth0, eth1, other
  Bits,        \* the mode attributes that are written: link, tx, rx
  Garbage,     \* what an uninitialised unsigned long long may hold
  MaxTraffic,  \* bound on the traffic counted per device and direction
  Renames,     \* whether net devices may be renamed
  Bridges,     \* whether net devices may become ports of a bridge
  Vlans        \* whether net devices may be VLAN devices

ASSUME NetdevAssumption ==
  /\ NULL \notin Devs
  /\ Requests \subseteq {"eth0", "eth1", "eth01", "other"}
  /\ Names \subseteq {"eth0", "eth1", "other"}
  /\ Bits \subseteq {"link", "tx", "rx"}
  /\ Garbage \subseteq Nat /\ Garbage # {}
  /\ MaxTraffic \in Nat
  /\ Renames \in BOOLEAN /\ Bridges \in BOOLEAN /\ Vlans \in BOOLEAN

Slots == {0, 1}
NameOf == [i \in Slots |-> IF i = 0 THEN "eth0" ELSE "eth1"]

Events == {"UP", "DOWN", "CHANGE", "REGISTER", "UNREGISTER", "CHANGENAME"}
Directions == {"tx", "rx"}

VARIABLES
  net,            \* each device: none, listed, or leaving (unregistered)
  name, link,     \* its name; its link: closed, nocarrier, carrier
  port, vlan,     \* the devices that are bridge ports; VLAN devices
  changed,        \* carrier changes that are still to be announced
  sent,           \* bytes per direction
  refs,           \* the references the trigger took with dev_hold and gave not back
  phase, todo,    \* activation; the events deactivation has yet to announce
  slot, dev_stat, mode, last_activity,     \* trigger_data
  evt, npc,       \* the notification in delivery and its step
  pending, wpc, wdev, new_activity,        \* the work, its locals
  led,            \* what the LED core was asked to show last
  pc, req, up,    \* per caller: step, request, LINKUP as it was tested
  overlap         \* history: two of callers and notification ran at a time

netVars == <<net, name, link, port, vlan, changed, sent>>
trigVars == <<slot, dev_stat, mode, last_activity>>
workVars == <<wpc, wdev, new_activity>>
callVars == <<pc, req, up>>
vars == <<net, name, link, port, vlan, changed, sent, refs, phase, todo, slot,
          dev_stat, mode, last_activity, evt, npc, pending, wpc, wdev, new_activity, led,
          pc, req, up, overlap>>

NoEvt == [ev |-> "none", dev |-> NULL]

----------------------------------------------------------------------------
(* References, and the LED's normal state.                                 *)

\* The device that dev_get_by_name finds for slot i.
Lookup(i) ==
  IF \E d \in Devs : net[d] = "listed" /\ name[d] = NameOf[i]
  THEN CHOOSE d \in Devs : net[d] = "listed" /\ name[d] = NameOf[i]
  ELSE NULL

One(d, e) == IF d = e THEN 1 ELSE 0

\* How many slots hold d.
Held(d) == One(d, slot[0]) + One(d, slot[1])

Carrier(s) == \E i \in Slots : s[i] # NULL /\ link[s[i]] = "carrier"

\* set_baseline_state for the mode bits m, LINKUP having been tested as l.
Shown(m, l) == IF l /\ "link" \in m THEN "on" ELSE "off"
Polls(m, l) == l /\ m \cap Directions # {}
Baseline(m, l) == led' = Shown(m, l) /\ pending' = (pending \/ Polls(m, l))

----------------------------------------------------------------------------
(* The attribute files.                                                    *)

Inside(c) == pc[c] # "idle"

Leave(c) == /\ pc' = [pc EXCEPT ![c] = "idle"]
            /\ req' = [req EXCEPT ![c] = "interval"]
            /\ up' = [up EXCEPT ![c] = FALSE]

\* A write begins with cancel_delayed_work_sync, which waits for the work.
Store(c, r) ==
  /\ phase = "active" /\ pc[c] = "idle" /\ wpc = "idle"
  /\ pending' = FALSE
  /\ pc' = [pc EXCEPT ![c] = IF r \in Requests THEN "name" ELSE "bit"]
  /\ req' = [req EXCEPT ![c] = r]
  /\ overlap' = (overlap \/ evt # NoEvt \/ \E e \in Callers : Inside(e))
  /\ UNCHANGED <<netVars, refs, phase, todo, trigVars, evt, npc, workVars, led, up>>

\* Defect: the device of the other slot is forgotten without dev_put.
KeepOnlyNoPut(i) ==
  LET got == IF i \in dev_stat THEN NULL ELSE Lookup(i) IN
  /\ slot' = [slot EXCEPT ![1 - i] = NULL, ![i] = IF i \in dev_stat THEN @ ELSE got]
  /\ dev_stat' = {i}
  /\ refs' = [d \in Devs |-> refs[d] + One(d, got)]

\* "eth0" or "eth1" is written: the other slot is given back; the slot itself
\* is looked up only if its bit of dev_stat was not set.
KeepOnly(i) ==
  LET got == IF i \in dev_stat THEN NULL ELSE Lookup(i) IN
  /\ slot' = [slot EXCEPT ![1 - i] = NULL, ![i] = IF i \in dev_stat THEN @ ELSE got]
  /\ dev_stat' = {i}
  /\ refs' = [d \in Devs |-> refs[d] + One(d, got) - One(d, slot[1 - i])]

\* "eth01" matches "eth0" first, so slot 1 is given back and looked up again,
\* and slot 0 is looked up if it is empty or its bit was not set.
KeepBoth ==
  LET got0 == IF 0 \in dev_stat /\ slot[0] # NULL THEN NULL ELSE Lookup(0)
      got1 == Lookup(1) IN
  /\ slot' = [slot EXCEPT ![0] = IF 0 \in dev_stat /\ @ # NULL THEN @ ELSE got0,
                          ![1] = got1]
  /\ dev_stat' = Slots
  /\ refs' = [d \in Devs |->
                refs[d] + One(d, got0) + One(d, got1) - One(d, slot[1])]

\* The locked section of device_name_store.
DeviceNameStore(c) ==
  /\ pc[c] = "name"
  /\ \/ req[c] = "eth0" /\ KeepOnly(0)
     \/ req[c] = "eth1" /\ KeepOnly(1)
     \/ req[c] = "eth01" /\ KeepBoth
     \/ req[c] \notin {"eth0", "eth1", "eth01"} /\ UNCHANGED <<slot, dev_stat, refs>>
  /\ mode' = IF Carrier(slot') THEN mode \cup {"linkup"} ELSE mode \ {"linkup"}
  /\ last_activity' = 0
  /\ Baseline(mode', "linkup" \in mode')
  /\ Leave(c)
  /\ UNCHANGED <<netVars, phase, todo, evt, npc, workVars, overlap>>

\* netdev_led_attr_store sets or clears a bit without the lock, and tests
\* LINKUP; interval_store leaves the bits alone.
LedAttrStore(c) ==
  /\ pc[c] = "bit"
  /\ mode' = IF req[c] = "interval" THEN mode
             ELSE IF req[c] \in mode THEN mode \ {req[c]} ELSE mode \cup {req[c]}
  /\ up' = [up EXCEPT ![c] = "linkup" \in mode]
  /\ pc' = [pc EXCEPT ![c] = "baseline"]
  /\ UNCHANGED <<netVars, refs, phase, todo, slot, dev_stat, last_activity, evt,
                 npc, pending, workVars, led, req, overlap>>

\* The rest of set_baseline_state, also without the lock.
BaselineState(c) ==
  /\ pc[c] = "baseline"
  /\ Baseline(mode, up[c])
  /\ Leave(c)
  /\ UNCHANGED <<netVars, refs, phase, todo, trigVars, evt, npc, workVars, overlap>>

CallerStep(c) ==
  DeviceNameStore(c) \/ LedAttrStore(c) \/ BaselineState(c)

----------------------------------------------------------------------------
(* The notifier.  The network core delivers one event at a time, under     *)
(* rtnl_lock.                                                              *)

\* The test at the head of netdev_trig_notify, made without the lock, for an
\* event about device d with the name n: nothing is heard of a bridge port or
\* of a VLAN device, although a name that is written may have found it.
Passes(e, d, n) ==
  /\ \/ \E i \in Slots : slot[i] = d
     \/ e \in {"CHANGENAME", "REGISTER"} /\ n \in {"eth0", "eth1"}
  /\ d \notin port /\ d \notin vlan

\* A device that was unregistered leaves its bridge after this notifier, which
\* has the higher priority, has been called.
LeaveBridge(e, d) ==
  port' = IF e = "UNREGISTER" /\ phase # "leaving" THEN port \ {d} ELSE port

\* The core calls the notifier.
Announce(e, d, n) ==
  IF phase # "off" /\ phase # "left" /\ Passes(e, d, n)
  THEN /\ evt' = [ev |-> e, dev |-> d] /\ npc' = "cancel"
       /\ overlap' = (overlap \/ \E c \in Callers : Inside(c))
       /\ UNCHANGED port
  ELSE /\ LeaveBridge(e, d)
       /\ UNCHANGED <<evt, npc, overlap>>

Delivered == evt' = NoEvt /\ npc' = "idle" /\ LeaveBridge(evt.ev, evt.dev)

\* Defect: cancel_delayed_work, which does not wait.
NotifyCancelNoSync ==
  /\ npc = "cancel"
  /\ pending' = FALSE /\ npc' = "lock"
  /\ UNCHANGED <<netVars, refs, phase, todo, trigVars, evt, workVars, led,
                 callVars, overlap>>

\* cancel_delayed_work_sync.
NotifyCancel ==
  /\ npc = "cancel" /\ wpc = "idle"
  /\ pending' = FALSE /\ npc' = "lock"
  /\ UNCHANGED <<netVars, refs, phase, todo, trigVars, evt, workVars, led,
                 callVars, overlap>>

\* LINKUP is first cleared if the event is about the only device there is.
Cleared(d) ==
  IF \E i \in Slots : name[d] = NameOf[i] /\ slot[1 - i] = NULL
  THEN mode \ {"linkup"} ELSE mode

\* Slot i is monitored, empty and bears the name of d.
Takes(i, d) == name[d] = NameOf[i] /\ i \in dev_stat /\ slot[i] = NULL

\* Defect: the device is kept without dev_hold.
HoldNoRef(d) ==
  \/ \E i \in Slots : Takes(i, d) /\ slot' = [slot EXCEPT ![i] = d] /\ UNCHANGED refs
  \/ (\A i \in Slots : ~Takes(i, d)) /\ UNCHANGED <<slot, refs>>

\* The device takes the slot of its name.
Hold(d) ==
  \/ \E i \in Slots : /\ Takes(i, d)
                      /\ slot' = [slot EXCEPT ![i] = d]
                      /\ refs' = [refs EXCEPT ![d] = @ + 1]
  \/ (\A i \in Slots : ~Takes(i, d)) /\ UNCHANGED <<slot, refs>>

\* Defect: the released slot is not cleared.
ReleaseNoClear(d) ==
  /\ UNCHANGED slot
  /\ refs' = [e \in Devs |->
       IF \E i \in Slots : name[d] = NameOf[i] /\ slot[i] = e THEN refs[e] - 1 ELSE refs[e]]

\* The slot of the device's name is given back, whichever device it holds.
Release(d) ==
  \/ \E i \in Slots : /\ name[d] = NameOf[i]
                      /\ slot' = [slot EXCEPT ![i] = NULL]
                      /\ refs' = [e \in Devs |-> refs[e] - One(e, slot[i])]
  \/ (\A i \in Slots : name[d] # NameOf[i]) /\ UNCHANGED <<slot, refs>>

\* The locked section of netdev_trig_notify.
NotifyLocked ==
  /\ npc = "lock"
  /\ LET d == evt.dev IN
       \/ evt.ev \in {"CHANGENAME", "REGISTER"} /\ Hold(d) /\ mode' = Cleared(d)
       \/ evt.ev = "UNREGISTER" /\ Release(d) /\ mode' = Cleared(d)
       \/ /\ evt.ev \in {"UP", "CHANGE"}
          /\ mode' = IF Carrier(slot) THEN mode \cup {"linkup"} ELSE mode \ {"linkup"}
          /\ UNCHANGED <<slot, refs>>
       \/ evt.ev = "DOWN" /\ mode' = Cleared(d) /\ UNCHANGED <<slot, refs>>
  /\ Baseline(mode', "linkup" \in mode')
  /\ Delivered
  /\ UNCHANGED <<net, name, link, vlan, changed, sent, phase, todo, dev_stat,
                 last_activity, workVars, callVars, overlap>>

NotifyStep == NotifyCancel \/ NotifyLocked

----------------------------------------------------------------------------
(* netdev_trig_work, which takes no lock: each step reads a slot once.     *)

Counted(d) ==
  (IF "tx" \in mode THEN sent[d]["tx"] ELSE 0) +
  (IF "rx" \in mode THEN sent[d]["rx"] ELSE 0)

NoDevice == \A i \in Slots : slot[i] = NULL
Monitored(i) == i \in dev_stat /\ slot[i] # NULL

WorkIdle == wpc' = "idle" /\ wdev' = NULL /\ new_activity' = 0

\* The next device of the work: slot 1, once slot 0 is done with.
WorkNext ==
  /\ wpc' = IF Monitored(1) THEN "stats1" ELSE "show"
  /\ wdev' = IF Monitored(1) THEN slot[1] ELSE NULL

\* Defect: without a device nothing is done at all.
WorkStartNoOff ==
  /\ pending /\ wpc = "idle"
  /\ pending' = FALSE
  /\ IF NoDevice \/ mode \cap Directions = {}
     THEN UNCHANGED workVars
     ELSE /\ new_activity' \in Garbage
          /\ IF Monitored(0) THEN wpc' = "stats0" /\ wdev' = slot[0] ELSE WorkNext
  /\ UNCHANGED <<netVars, refs, phase, todo, trigVars, evt, npc, led, callVars,
                 overlap>>

\* With no device the LED is switched off, without traffic bits nothing is
\* done; else new_activity is what the stack held.
WorkStart ==
  /\ pending /\ wpc = "idle"
  /\ pending' = FALSE
  /\ \/ NoDevice /\ led' = "off" /\ UNCHANGED workVars
     \/ ~NoDevice /\ mode \cap Directions = {} /\ UNCHANGED <<led, workVars>>
     \/ /\ ~NoDevice /\ mode \cap Directions # {}
        /\ new_activity' \in Garbage
        /\ IF Monitored(0) THEN wpc' = "stats0" /\ wdev' = slot[0] ELSE WorkNext
        /\ UNCHANGED led
  /\ UNCHANGED <<netVars, refs, phase, todo, trigVars, evt, npc, callVars, overlap>>

\* The statistics of the device that slot 0 held.
WorkStats0 ==
  /\ wpc = "stats0"
  /\ new_activity' = Counted(wdev)
  /\ WorkNext
  /\ UNCHANGED <<netVars, refs, phase, todo, trigVars, evt, npc, pending, led,
                 callVars, overlap>>

\* The statistics of the device that slot 1 held are added.
WorkStats1 ==
  /\ wpc = "stats1"
  /\ new_activity' = new_activity + Counted(wdev)
  /\ wpc' = "show" /\ wdev' = NULL
  /\ UNCHANGED <<netVars, refs, phase, todo, trigVars, evt, npc, pending, led,
                 callVars, overlap>>

\* Activity starts one blink; without it the LED shows the link.  The work
\* queues itself again.
WorkShow ==
  /\ wpc = "show"
  /\ last_activity' = new_activity
  /\ led' = IF last_activity # new_activity THEN "blink"
            ELSE IF "linkup" \notin mode THEN "off"
            ELSE IF "link" \in mode THEN "on" ELSE led
  /\ pending' = TRUE
  /\ WorkIdle
  /\ UNCHANGED <<netVars, refs, phase, todo, slot, dev_stat, mode, evt, npc,
                 callVars, overlap>>

WorkStep == WorkStart \/ WorkStats0 \/ WorkStats1 \/ WorkShow

----------------------------------------------------------------------------
(* The network core.  What changes the list of devices holds rtnl_lock, so *)
(* it waits until an event has been delivered.                             *)

RtnlFree == evt = NoEvt /\ phase # "leaving"

NameFree(n) == n = "other" \/ \A d \in Devs : net[d] = "none" \/ name[d] # n

netFrame == UNCHANGED <<refs, phase, todo, trigVars, pending, workVars, led, callVars>>

Register(d, n) ==
  /\ RtnlFree /\ net[d] = "none" /\ NameFree(n)
  /\ net' = [net EXCEPT ![d] = "listed"] /\ name' = [name EXCEPT ![d] = n]
  /\ Announce("REGISTER", d, n)
  /\ UNCHANGED <<link, vlan, changed, sent>> /\ netFrame

Rename(d, n) ==
  /\ Renames /\ RtnlFree /\ net[d] = "listed" /\ name[d] # n /\ NameFree(n)
  /\ name' = [name EXCEPT ![d] = n]
  /\ Announce("CHANGENAME", d, n)
  /\ UNCHANGED <<net, link, vlan, changed, sent>> /\ netFrame

Open(d) ==
  /\ RtnlFree /\ net[d] = "listed" /\ link[d] = "closed"
  /\ link' = [link EXCEPT ![d] = "nocarrier"]
  /\ Announce("UP", d, name[d])
  /\ UNCHANGED <<net, name, vlan, changed, sent>> /\ netFrame

\* The carrier goes too; a change that was not announced yet never will be.
Close(d) ==
  /\ RtnlFree /\ net[d] = "listed" /\ link[d] # "closed"
  /\ link' = [link EXCEPT ![d] = "closed"] /\ changed' = changed \ {d}
  /\ Announce("DOWN", d, name[d])
  /\ UNCHANGED <<net, name, vlan, sent>> /\ netFrame

\* The cable is plugged in or out, at any time; the link watch follows later.
CarrierChange(d) ==
  /\ net[d] = "listed" /\ link[d] # "closed"
  /\ link' = [link EXCEPT ![d] = IF @ = "carrier" THEN "nocarrier" ELSE "carrier"]
  /\ changed' = changed \cup {d}
  /\ UNCHANGED <<net, name, port, vlan, sent, evt, npc, overlap>> /\ netFrame

LinkWatch(d) ==
  /\ RtnlFree /\ d \in changed
  /\ changed' = changed \ {d}
  /\ Announce("CHANGE", d, name[d])
  /\ UNCHANGED <<net, name, link, vlan, sent>> /\ netFrame

BridgePort(d) ==
  /\ Bridges /\ RtnlFree /\ net[d] = "listed"
  /\ port' = IF d \in port THEN port \ {d} ELSE port \cup {d}
  /\ UNCHANGED <<net, name, link, vlan, changed, sent, evt, npc, overlap>> /\ netFrame

\* Traffic in a direction that can be asked for; nobody looks at the other.
Traffic(d, k) ==
  /\ net[d] = "listed" /\ link[d] = "carrier" /\ sent[d][k] < MaxTraffic
  /\ sent' = [sent EXCEPT ![d][k] = @ + 1]
  /\ UNCHANGED <<net, name, link, port, vlan, changed, evt, npc, overlap>> /\ netFrame

Unregister(d) ==
  /\ RtnlFree /\ net[d] = "listed" /\ link[d] = "closed"
  /\ net' = [net EXCEPT ![d] = "leaving"]
  /\ Announce("UNREGISTER", d, name[d])
  /\ UNCHANGED <<name, link, vlan, changed, sent>> /\ netFrame

\* The core waits until nobody holds a reference, and announces the
\* unregistration again and again.
Rebroadcast(d) ==
  /\ RtnlFree /\ net[d] = "leaving" /\ refs[d] > 0 /\ phase = "active"
  /\ Announce("UNREGISTER", d, name[d])
  /\ UNCHANGED <<net, name, link, vlan, changed, sent>> /\ netFrame

\* The next device of this identity may be of the other kind.
Freed(d) ==
  /\ RtnlFree /\ net[d] = "leaving" /\ refs[d] \leq 0
  /\ net' = [net EXCEPT ![d] = "none"] /\ name' = [name EXCEPT ![d] = "other"]
  /\ sent' = [sent EXCEPT ![d] = [k \in Directions |-> 0]]
  /\ vlan' \in IF Vlans THEN {vlan \cup {d}, vlan \ {d}} ELSE {vlan}
  /\ UNCHANGED <<link, port, changed, evt, npc, overlap>> /\ netFrame

Core(d) ==
  \/ \E n \in Names : Register(d, n) \/ Rename(d, n)
  \/ Open(d) \/ Close(d) \/ CarrierChange(d) \/ LinkWatch(d) \/ BridgePort(d)
  \/ (\E k \in Directions \cap Bits : Traffic(d, k))
  \/ Unregister(d) \/ Rebroadcast(d) \/ Freed(d)

----------------------------------------------------------------------------
(* Activation and deactivation.                                            *)

\* Registering the notifier announces every device there is; with nothing
\* monitored the only effect is that the LED goes off.
Activate ==
  /\ phase = "off" /\ evt = NoEvt
  /\ phase' = "active"
  /\ led' = IF \E d \in Devs : /\ net[d] = "listed" /\ d \notin port \cup vlan
                               /\ name[d] \in {"eth0", "eth1"}
            THEN "off" ELSE led
  /\ slot' = [i \in Slots |-> NULL] /\ dev_stat' = {} /\ mode' = {}
  /\ last_activity' = 0
  /\ UNCHANGED <<netVars, refs, todo, evt, npc, pending, workVars, callVars, overlap>>

\* The attribute files are gone; unregistering the notifier announces every
\* listed device as down, if it is up, and as unregistered, under rtnl_lock.
DeactivateStart ==
  /\ phase = "active" /\ evt = NoEvt /\ \A c \in Callers : ~Inside(c)
  /\ phase' = "leaving"
  /\ todo' = {<<"UNREGISTER", d>> : d \in {e \in Devs : net[e] = "listed"}} \cup
             {<<"DOWN", d>> : d \in {e \in Devs : net[e] = "listed" /\ link[e] # "closed"}}
  /\ UNCHANGED <<netVars, refs, trigVars, evt, npc, pending, workVars, led,
                 callVars, overlap>>

DeactivateNotify(e, d) ==
  /\ phase = "leaving" /\ evt = NoEvt /\ <<e, d>> \in todo
  /\ e = "UNREGISTER" => <<"DOWN", d>> \notin todo
  /\ todo' = todo \ {<<e, d>>}
  /\ Announce(e, d, name[d])
  /\ UNCHANGED <<net, name, link, vlan, changed, sent, refs, phase, trigVars, pending,
                 workVars, led, callVars>>

DeactivateNotified ==
  /\ phase = "leaving" /\ evt = NoEvt /\ todo = {}
  /\ phase' = "left"
  /\ UNCHANGED <<netVars, refs, todo, trigVars, evt, npc, pending, workVars, led,
                 callVars, overlap>>

\* Defect: the work is cancelled after the devices have been given back only
\* if it is queued, and not waited for.
DeactivateEndNoSync ==
  /\ phase = "left"
  /\ phase' = "off" /\ pending' = FALSE
  /\ refs' = [d \in Devs |-> refs[d] - Held(d)]
  /\ slot' = [i \in Slots |-> NULL] /\ dev_stat' = {} /\ mode' = {}
  /\ last_activity' = 0 /\ led' = "off"
  /\ UNCHANGED <<netVars, todo, evt, npc, workVars, callVars, overlap>>

\* The work is cancelled, the devices that are left are given back, and the
\* LED core switches the LED off.
DeactivateEnd ==
  /\ phase = "left" /\ wpc = "idle"
  /\ phase' = "off" /\ pending' = FALSE
  /\ refs' = [d \in Devs |-> refs[d] - Held(d)]
  /\ slot' = [i \in Slots |-> NULL] /\ dev_stat' = {} /\ mode' = {}
  /\ last_activity' = 0 /\ led' = "off"
  /\ UNCHANGED <<netVars, todo, evt, npc, workVars, callVars, overlap>>

Deactivating ==
  \/ \E e \in {"DOWN", "UNREGISTER"}, d \in Devs : DeactivateNotify(e, d)
  \/ DeactivateNotified \/ DeactivateEnd

----------------------------------------------------------------------------
Init ==
  /\ net = [d \in Devs |-> "none"] /\ name = [d \in Devs |-> "other"]
  /\ link = [d \in Devs |-> "closed"] /\ port = {} /\ changed = {}
  /\ vlan \in IF Vlans THEN SUBSET Devs ELSE {{}}
  /\ sent = [d \in Devs |-> [k \in Directions |-> 0]]
  /\ refs = [d \in Devs |-> 0]
  /\ phase = "off" /\ todo = {}
  /\ slot = [i \in Slots |-> NULL] /\ dev_stat = {} /\ mode = {} /\ last_activity = 0
  /\ evt = NoEvt /\ npc = "idle"
  /\ pending = FALSE /\ wpc = "idle" /\ wdev = NULL /\ new_activity = 0
  /\ led = "off"
  /\ pc = [c \in Callers |-> "idle"] /\ req = [c \in Callers |-> "interval"]
  /\ up = [c \in Callers |-> FALSE]
  /\ overlap = FALSE

Next ==
  \/ \E c \in Callers : CallerStep(c)
       \/ \E r \in Requests \cup Bits \cup {"interval"} : Store(c, r)
  \/ NotifyStep \/ WorkStep
  \/ \E d \in Devs : Core(d)
  \/ Activate \/ DeactivateStart \/ Deactivating

Spec == Init /\ [][Next]_vars

\* Code that runs goes on, queued work runs, the core repeats itself; a
\* cancel_delayed_work_sync keeps the work from queueing itself again, so it
\* gets through although the work is often found running.
Fairness ==
  /\ \A c \in Callers : WF_vars(CallerStep(c))
  /\ SF_vars(NotifyCancel) /\ WF_vars(NotifyStep) /\ WF_vars(WorkStep)
  /\ SF_vars(DeactivateEnd) /\ WF_vars(Deactivating)
  /\ \A d \in Devs : SF_vars(Rebroadcast(d) \/ Freed(d))

FairSpec == Spec /\ Fairness

----------------------------------------------------------------------------
TypeOK ==
  /\ net \in [Devs -> {"none", "listed", "leaving"}] /\ name \in [Devs -> Names \cup {"other"}]
  /\ link \in [Devs -> {"closed", "nocarrier", "carrier"}]
  /\ port \subseteq Devs /\ vlan \subseteq Devs /\ changed \subseteq Devs
  /\ sent \in [Devs -> [Directions -> 0 .. MaxTraffic]]
  /\ refs \in [Devs -> Int]
  /\ phase \in {"off", "active", "leaving", "left"}
  /\ todo \subseteq {"DOWN", "UNREGISTER"} \X Devs
  /\ slot \in [Slots -> Devs \cup {NULL}] /\ dev_stat \subseteq Slots
  /\ mode \subseteq {"link", "tx", "rx", "linkup"} /\ last_activity \in Nat
  /\ evt \in [ev : Events, dev : Devs] \cup {NoEvt}
  /\ npc \in {"idle", "cancel", "lock"} /\ (npc = "idle" <=> evt = NoEvt)
  /\ pending \in BOOLEAN
  /\ wpc \in {"idle", "stats0", "stats1", "show"}
  /\ wdev \in Devs \cup {NULL} /\ (wpc \in {"stats0", "stats1"} => wdev # NULL)
  /\ new_activity \in Nat
  /\ led \in {"off", "on", "blink"}
  /\ pc \in [Callers -> {"idle", "name", "bit", "baseline"}]
  /\ req \in [Callers -> Requests \cup Bits \cup {"interval"}]
  /\ \A c \in Callers : pc[c] = "bit" => req[c] \in Bits \cup {"interval"}
  /\ up \in [Callers -> BOOLEAN] /\ overlap \in BOOLEAN

----------------------------------------------------------------------------
(* Safety.                                                                 *)

\* The references the trigger holds on a device are exactly its slots that
\* point to it, whatever stores, events and renames interleave.
RefsBalanced == \A d \in Devs : refs[d] = Held(d)

\* A slot never points to a device that the core has freed.
SlotAlive == \A i \in Slots : slot[i] # NULL => net[slot[i]] # "none"

\* The work reads statistics only of devices that exist, as long as no store
\* overlaps a notification or another store: what clears a slot has waited for
\* the work, and nothing queues it again in between.
StatsAlive == wpc \in {"stats0", "stats1"} => net[wdev] # "none" \/ overlap

\* Without a device LINKUP is clear, so set_baseline_state keeps the LED off.
NoDeviceNoLink == NoDevice => "linkup" \notin mode

\* After deactivation, which frees trigger_data, no reference is kept, the
\* work is neither queued nor running and no event is being handled.
Deactivated ==
  phase = "off" => /\ \A d \in Devs : refs[d] = 0
                   /\ ~pending /\ wpc = "idle" /\ npc = "idle"

\* link: the LED's normal state reflects whether the link is up (has carrier)
\* or not, once every change has been announced and handled, and no store
\* overlapped any of it.
Settled == /\ phase = "active" /\ evt = NoEvt /\ changed = {}
           /\ ~pending /\ wpc = "idle" /\ (\A c \in Callers : ~Inside(c))
           /\ ~overlap
LinkShown == Settled /\ "link" \in mode => (led = "on" <=> Carrier(slot))

----------------------------------------------------------------------------
(* Liveness.                                                               *)

\* The trigger holds d and will not hear of its unregistration: events about
\* VLAN devices are dropped, although a written name takes one, and the event
\* gives back the slot of the name that the device has then.
Deaf(d) ==
  phase = "active" /\ \E i \in Slots : slot[i] = d /\ (d \in vlan \/ name[d] # NameOf[i])

\* A device that is unregistered is freed, whatever stores, renames, bridges
\* and deactivation come in between, unless the trigger is deaf to it: it gives
\* its reference back, at the latest when the core repeats the event after a
\* bridge had hidden the first one.  For a device it is deaf to, the core waits
\* until another name is written or the trigger goes.
UnregisterCompletes ==
  \A d \in Devs : (net[d] = "leaving" /\ ~Deaf(d)) ~> net[d] = "none"

\* The comment of netdev_trig_work: without a device the LED is off, that is,
\* a work that is queued then does switch it off.
LedOffWithoutDevice ==
  (phase = "active" /\ pending /\ NoDevice) ~>
    (led = "off" \/ phase # "active" \/ ~NoDevice)

=============================================================================
