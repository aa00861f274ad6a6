SPECIFICATION ClientsFairSpec
CONSTANTS
  c1 = c1
  c2 = c2
  c3 = c3
  Peers = {c1, c2, c3}
  Nobody = Nobody
  MaxFrames = 2
  MaxStarts = 0
  Frames <- MCFrames
  Casts <- MCCasts
INVARIANTS
  CodingClientsTold
  OnlyCodingRuns
PROPERTIES
  ClientsEnd
  FramesHandled
  InterruptStops
CHECK_DEADLOCK FALSE
