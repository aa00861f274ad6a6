SPECIFICATION Spec
CONSTANTS
  Peers = {c1}
  Nobody = Nobody
  MaxFrames = 2
  MaxStarts = 0
  Frames <- MCCoding
PROPERTY
  BusyMeansWorking
CHECK_DEADLOCK FALSE
