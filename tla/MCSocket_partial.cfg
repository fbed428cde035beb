SPECIFICATION FairSpec
CONSTANTS
  BATCH_SIZE = 3
  MAX_LOOP = 3
  RECV_QUEUE_MAX_LEN = 1
  h1 = h1
  h2 = h2
  f1 = f1
  f2 = f2
  s1 = s1
  s2 = s2
  Handles = {h1}
  First = h1
  Futures = {}
  Streams = {s1}
  LocalId <- OneStream
  PartialSends = TRUE
  RecvErrors = FALSE
  MaxSubmits = 2
  MaxArrivals = 0
PROPERTIES
  Retried
CHECK_DEADLOCK FALSE
