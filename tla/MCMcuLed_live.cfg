\* Two LEDs, one writer, at most two bad acknowledges per command.
SPECIFICATION FairSpec
CONSTANTS
  LED_COUNT = 2
  c1 = c1
  c2 = c2
  Callers = {c1}
  NoOne = NoOne
  Probe = Probe
  Brightness = {0, 100}
  ColorRequests = {}
  Delays = {}
  Triggers = {}
  BootRuns = {0}
  MaxNaks = 2
  EarlyUsers = FALSE
  Removable = TRUE
PROPERTIES BrightnessApplied CallsReturn RemoveCompletes
