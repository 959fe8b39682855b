\* One LED, two writers: on, off and colour, any number of bad
\* acknowledges, user space active from the registration on.
SPECIFICATION Spec
CONSTANTS
  LED_COUNT = 1
  c1 = c1
  c2 = c2
  Callers = {c1, c2}
  NoOne = NoOne
  Probe = Probe
  Brightness = {0, 1}
  ColorRequests = {2}
  Delays = {}
  Triggers = {}
  BootRuns = {0}
  MaxNaks = 3
  EarlyUsers = TRUE
  Removable = TRUE
SYMMETRY SameWriters
INVARIANTS AckIsOwn RemoveQuiesces
PROPERTIES Implements
