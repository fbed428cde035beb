SPECIFICATION Spec
CONSTANTS
  HEADER_SIZE = 1
  MAX_DATA_SIZE = 1
  SSTHRESH = 4
  MAX_TRANSMITS = 1
  Closers = {}
  MIN_RTO = 2
  GRANULARITY = 1
  MIN_RTT = 2
  MaxPackets = 2
  MaxTime = 10
PROPERTIES
  LostAfterTimeout
CHECK_DEADLOCK FALSE
