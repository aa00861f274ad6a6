SPECIFICATION MCSpec
CONSTANTS
  PathSize = 3
  Slack = 8
  Junk = {0, 1, 255}
  MaxPackets = 2
  Wanted <- MCWanted
  word = word
  Words = {word}
  FieldSize <- MCFieldSize
  MessageSize = 13
  LocalSize = 18
  Replies <- MCReplies
  Texts = {"a.c", "b.c"}
  Nothing = Nothing
  MaxLines = 7
  MaxFaults = 1
  MaxLength = 5
INVARIANTS
  PacketsArrive
  BufferFits
  NoShorterPacket
  BusyReplyReadable
  ClientsFreeAll
  CleanArrives
  PromptArrives
  FieldsFit
  UnpackTypeOK
  OpenWhileReading
  BlocksRestored
  TotalPrinted
  ImportTypeOK
  StatementsAsWritten
  StatementsIsolated
  ReportsTrue
CHECK_DEADLOCK FALSE
