\* Two users, a controller of any speed, requests for the ports that wait.
SPECIFICATION Spec
CONSTANTS
  u1 = u1
  u2 = u2
  Users = {u1, u2}
  Exit = Exit
  Nobody = Nobody
  Calls <- FileCalls
  ExitOps <- NoExit
  Regs <- FileRegs
  Tries = 2
  Refusals = FALSE
INVARIANTS FansTogether
PROPERTIES Implements
