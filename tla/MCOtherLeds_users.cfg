\* Two writers of sysfs files, one LED, and the unbinding, for each driver.
SPECIFICATION MachineSpec
CONSTANTS
  u1 = u1
  u2 = u2
  l1 = l1
  Nobody = Nobody
  Remover = Remover
  Callers = {u1, u2}
  Leds = {l1}
  Lights = {0, 1, 100}
  Attempts = 3
  Levels = {0, 100}
  Colors = {0, 2, 3}
  Triggers = {"timer2", "breath", "normal"}
  Variants = {"n76", "dh", "disk"}
INVARIANTS AckNotOfCaller LightSent NeverHangs ColorShown HangsOnlyInRemove
\* When the driver is gone nothing is left to do.
CHECK_DEADLOCK FALSE
