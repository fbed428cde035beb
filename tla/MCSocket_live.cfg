SPECIFICATION FairSpec
CONSTANTS
  BATCH_SIZE = 1
  MAX_LOOP = 3
  RECV_QUEUE_MAX_LEN = 1
  h1 = h1
  h2 = h2
  f1 = f1
  f2 = f2
  s1 = s1
  s2 = s2
  Handles = {h1}
  First = h1
  Futures = {}
  Streams = {s1, s2}
  LocalId <- OwnIds
  PartialSends = FALSE
  RecvErrors = TRUE
  MaxSubmits = 1
  MaxArrivals = 1
INVARIANTS
  ChannelOpen
  ServesStreams
  SleepingSocket
PROPERTIES
  Shutdown
  Retried
CHECK_DEADLOCK FALSE
