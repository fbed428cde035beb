\* Two calls of close().
CONSTANTS
  HEADER_SIZE = 1
  MAX_DATA_SIZE = 2
  SSTHRESH = 9
  MAX_TRANSMITS = 0
  Closers = {"c1", "c2"}
  End = {"a", "b"}
  WriteLens = {1}
  ReadCaps = {2}
  MaxBytes <- One
  RxCapacity <- Single
  MayClose = {"a"}
  MayDrop = {}
  MaxHandles <- Single
  MayBreak = {}
  SackEnd = {}
SPECIFICATION Spec
INVARIANTS
  CloseFlushes
CHECK_DEADLOCK FALSE
