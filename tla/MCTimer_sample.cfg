SPECIFICATION Spec
CONSTANTS
  HEADER_SIZE = 1
  MAX_DATA_SIZE = 1
  SSTHRESH = 4
  MAX_TRANSMITS = 1
  Closers = {}
  MIN_RTO = 2
  GRANULARITY = 1
  MIN_RTT = 1
  MaxPackets = 2
  MaxTime = 10
PROPERTIES
  SamplesAreRoundTrips
CHECK_DEADLOCK FALSE
