\* Two users, the script and a foreign driver, on every machine.
SPECIFICATION Spec
CONSTANTS
  u1 = u1
  u2 = u2
  Users = {u1, u2}
  Script = Script
  Foreign = Foreign
  Nobody = Nobody
  Does <- MCDoes
  Pwms <- MCPwms
  Machines <- MCMachines
INVARIANTS PortsExclusive FansAsShown StartupReadsBack DirectoryOwn
CHECK_DEADLOCK FALSE
