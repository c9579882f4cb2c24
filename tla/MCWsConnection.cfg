SPECIFICATION FairSpec
CONSTANTS
  Cap = 2
  TimeoutTicks = 1
  ClientCodes = {1008}
  ServerCodes = {4000}
  MaxFrames = 4
  MaxTexts = 2
  MaxCancels = 1
CHECK_DEADLOCK FALSE
INVARIANTS
  ReceivedInOrder
  CodeIsTheCause
  SentIsWritten
PROPERTIES
  ImplementsSession
  NobodyWaitsForEver
