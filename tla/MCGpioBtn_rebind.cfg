\* Both buttons with scaled thresholds on several CPUs: probes that fail or are
\* slow, removal and rebinding.
SPECIFICATION FairSpec
CONSTANTS
  N = 2
  Code <- Both
  PressAt <- ScaledPress
  ReleaseFrom <- ScaledRelease
  SeenMax = 4
  Smp = TRUE
  Fails = TRUE
  Rebinds = TRUE
INVARIANTS  StuckOnlyByWindow
PROPERTIES KeyReleased
