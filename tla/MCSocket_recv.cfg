SPECIFICATION Spec
CONSTANTS
  BATCH_SIZE = 1
  MAX_LOOP = 3
  RECV_QUEUE_MAX_LEN = 1
  h1 = h1
  h2 = h2
  f1 = f1
  f2 = f2
  s1 = s1
  s2 = s2
  Handles = {h1, f1, f2}
  First = h1
  Futures = {f1, f2}
  Streams = {}
  LocalId <- NoIds
  PartialSends = FALSE
  RecvErrors = FALSE
  MaxSubmits = 2
  MaxArrivals = 3
INVARIANTS
  SleepingSocket
PROPERTIES
  ReceiverWoken
CHECK_DEADLOCK FALSE
