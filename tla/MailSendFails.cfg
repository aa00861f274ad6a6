SPECIFICATION Spec
CONSTANTS
  Paths = {p1}
  Contents = {c1}
  Monitors = {m1}
  Nothing = Nothing
  Targets = {p1}
  Events = {}
  MaxEvents = 0
  MaxFaults = 1
  MaxRestarts = 0
PROPERTY
  RemovedWasMailed
CHECK_DEADLOCK FALSE
