------------------------------ MODULE MCSioFan ------------------------------
(* Model-checking instance of SioFan: the machines and their scripts.      *)
EXTENDS SioFan
CONSTANTS u1, u2

Machine(product, old, bits, active, loads, unloads) ==
  [product |-> product, oldBios |-> old, bits |-> bits, active |-> active,
   loads |-> loads, unloads |-> unloads]

\* load-modules.sh and unload-modules.sh name sio and then cpufan.  The boot
\* service runs ug-load-drive.sh, which loads cpufan alone; load-modules.sh then
\* adds sio.  dh2600 is loaded by hand.
ByHand == <<"sio", "cpufan">>
Boot == <<"cpufan">>
AfterBoot == <<"cpufan", "sio">>
Dh == <<"dh2600">>

MCMachines ==
  {Machine("DXP6800", FALSE, {"F4.5", "F4.6"}, TRUE, ByHand, ByHand),
   Machine("DXP4800 Plus", FALSE, {"F4.5"}, TRUE, AfterBoot, ByHand),
   Machine("DXP480T Plus", FALSE, {}, TRUE, Boot, Boot),
   Machine("DXP4800 Plus", FALSE, {"F4.5"}, FALSE, Boot, Boot),
   Machine("DXP2800", FALSE, {"F2.5"}, TRUE, Boot, Boot),
   Machine("DH2600", FALSE, {"F4.5"}, TRUE, Dh, Dh),
   Machine("DH2600", TRUE, {"F4.6"}, TRUE, Dh, Dh)}

\* One user sets the fans, as fancontrol.sh does; the other does the rest.
MCDoes == [t \in {u1, u2} |-> IF t = u1 THEN {"set", "cpu"} ELSE {"bios", "speeds", "startup"}]

MCPwms == {127}

ASSUME MachinesAssumption == KnownProducts /\ OneBios
=============================================================================
