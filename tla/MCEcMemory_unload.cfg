\* One user whose requests may fail, unloading and loading again.
SPECIFICATION FairSpec
CONSTANTS
  u1 = u1
  u2 = u2
  Users = {u1}
  Exit = Exit
  Nobody = Nobody
  Calls <- ReadCalls
  ExitOps <- ReadExit
  Regs <- ReadRegs
  Tries = 2
  Refusals = TRUE
PROPERTIES CallsReturn
