\* Four packets in flight, so that the peer can hold two ranges beyond a gap.
CONSTANTS
  HEADER_SIZE = 0
  MAX_DATA_SIZE = 2
  SSTHRESH = 9
  MAX_TRANSMITS = 0
  Closers = {}
  End = {"a", "b"}
  WriteLens = {1}
  ReadCaps = {}
  MaxBytes <- Four
  RxCapacity <- Single
  MayClose = {}
  MayDrop = {}
  MaxHandles <- Single
  MayBreak = {}
  SackEnd = {"b"}
SPECIFICATION Spec
INVARIANTS
  NothingForgotten
CHECK_DEADLOCK FALSE
