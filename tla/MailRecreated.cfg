SPECIFICATION FairSpec
CONSTANTS
  Paths = {p1}
  Contents = {c1}
  Monitors = {m1}
  Nothing = Nothing
  Targets = {Nothing}
  Events = {"create"}
  MaxEvents = 1
  MaxFaults = 0
  MaxRestarts = 0
PROPERTY
  Retriggers
CHECK_DEADLOCK FALSE
