\* Two users on one of the mailboxes, the firmware may hang and PCI accesses fail; or
\* all processors and tables, two readers, the driver bound twice.
SPECIFICATION MCFairSpec
CONSTANTS
  u1 = u1
  u2 = u2
  Users = {u1, u2}
  Kernel = Kernel
  Cpus <- MCCpus
  Versions <- AllVersions
  MaxBinds = 2
  Nobody = Nobody
  Mailboxes = {"MP1"}
  Attempts = 1
  RetryMod = 3
  PciFails = TRUE
INVARIANTS SmnAddressed AnswerIsOwn PmTableFits
PROPERTIES CallsReturn
\* After the last binding nothing happens.
CHECK_DEADLOCK FALSE
