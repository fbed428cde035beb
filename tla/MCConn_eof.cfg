\* A close whose END reaches the peer before the data does.
CONSTANTS
  HEADER_SIZE = 1
  MAX_DATA_SIZE = 2
  SSTHRESH = 9
  MAX_TRANSMITS = 0
  Closers = {"c1"}
  End = {"a", "b"}
  WriteLens = {1}
  ReadCaps = {2}
  MaxBytes <- One
  RxCapacity <- Single
  MayClose = {"a"}
  MayDrop = {}
  MaxHandles <- Single
  MayBreak = {}
  SackEnd = {}
SPECIFICATION Spec
INVARIANTS
  EofAfterAll
CHECK_DEADLOCK FALSE
