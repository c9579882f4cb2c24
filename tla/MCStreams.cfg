SPECIFICATION MCFairSpec
CONSTANTS
  Streams <- MCStreamSet
  s1 = s1
  s2 = s2
  s3 = s3
  NumWorkers = 2
  MaxThreads = 1
  Batch = 2
  Cap = 1
  Unsendable = {2}
  KeepsRaising <- MCKeepsRaising
  MaxChunks <- MCMaxChunks
  AsyncCap = 2
  AsyncUnsendable = {4}
  Pings = TRUE
  MaxItems = 5
  MaxPings = 2
CHECK_DEADLOCK FALSE
INVARIANTS
  ThreadsAccounted
  StreamsInOrder
PROPERTY
  LostClientsEnd
