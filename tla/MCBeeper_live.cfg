\* Two writers, two CPUs, series of two lengths.
SPECIFICATION FairSpec
CONSTANTS
  w1 = w1
  w2 = w2
  Writers = {w1, w2}
  Commands <- AllCommands
  Smp = TRUE
  MaxBeeps = 0
  MaxCount = 2
  Unloads = FALSE
INVARIANTS SoundEnds
PROPERTIES SeriesEnds BeepEnds
