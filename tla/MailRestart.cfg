SPECIFICATION SupervisedSpec
CONSTANTS
  Paths = {p1, p2}
  Contents = {c1}
  Monitors = {m1, m2}
  Nothing = Nothing
  Targets = {Nothing}
  Events = {"kill", "signal"}
  MaxEvents = 1
  MaxFaults = 0
  MaxRestarts = 1
PROPERTY
  MailedDespiteKills
CHECK_DEADLOCK FALSE
