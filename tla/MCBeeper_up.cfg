\* Two writers, two CPUs, series of two lengths, and the module unloaded.
SPECIFICATION Spec
CONSTANTS
  w1 = w1
  w2 = w2
  Writers = {w1, w2}
  Commands <- AllCommands
  Smp = TRUE
  MaxBeeps = 3
  MaxCount = 2
  Unloads = TRUE
INVARIANTS NoDoubleAdd TimerGone RepAtMost
PROPERTIES NoSpuriousBeep
CHECK_DEADLOCK FALSE
