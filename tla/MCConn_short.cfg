\* A reader whose buffer is smaller than a packet.
CONSTANTS
  HEADER_SIZE = 1
  MAX_DATA_SIZE = 2
  SSTHRESH = 9
  MAX_TRANSMITS = 0
  Closers = {}
  End = {"a", "b"}
  WriteLens = {2}
  ReadCaps = {1}
  MaxBytes <- Two
  RxCapacity <- Single
  MayClose = {}
  MayDrop = {}
  MaxHandles <- Single
  MayBreak = {}
  SackEnd = {}
SPECIFICATION Spec
INVARIANTS
  IntactStream
CHECK_DEADLOCK FALSE
