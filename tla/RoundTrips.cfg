SPECIFICATION MCSpec
CONSTANTS
  PathSize = 3
  Slack = 8
  Junk = {0}
  MaxPackets = 1
  Wanted <- MCTestPackets
  word = word
  Words = {word}
  FieldSize <- MCFieldSize
  MessageSize = 13
  LocalSize = 18
  Replies <- MCReplies
  Texts = {"a.c", "b.c"}
  Nothing = Nothing
  MaxLines = 0
  MaxFaults = 1
  MaxLength = 0
INVARIANTS
  RoundTripsDecode
CHECK_DEADLOCK FALSE
