\* Two LEDs that may be off, on or breathing when probe comes; one
\* writer that attaches triggers and stores delays.
SPECIFICATION Spec
CONSTANTS
  LED_COUNT = 2
  c1 = c1
  c2 = c2
  Callers = {c1}
  NoOne = NoOne
  Probe = Probe
  Brightness = {}
  ColorRequests = {}
  Delays = {20}
  Triggers = {"timer2", "breath", "normal"}
  BootRuns = {0, 1, 3}
  MaxNaks = 1
  EarlyUsers = FALSE
  Removable = FALSE
INVARIANTS CacheExact
PROPERTIES WarmProbe
