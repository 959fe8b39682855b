\* One device that is renamed, bridged, a VLAN device or not, and carries
\* traffic, so that it can be in either slot.
SPECIFICATION FairSpec
CONSTANTS
  d1 = d1
  d2 = d2
  c1 = c1
  Devs = {d1}
  NULL = NULL
  Callers = {c1}
  Requests = {"eth0", "eth1"}
  Names = {"eth0", "eth1", "other"}
  Bits = {"tx"}
  Garbage = {1}
  MaxTraffic = 1
  Renames = TRUE
  Bridges = TRUE
  Vlans = TRUE
INVARIANTS StatsAlive RefsBalanced SlotAlive Deactivated
PROPERTIES UnregisterCompletes LedOffWithoutDevice
