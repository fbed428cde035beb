\* One write by a, which calls close(); b drops two clones of its handle and
\* may lose its socket: in any order.
CONSTANTS
  HEADER_SIZE = 1
  MAX_DATA_SIZE = 2
  SSTHRESH = 9
  MAX_TRANSMITS = 0
  Closers = {"c1"}
  End = {"a", "b"}
  WriteLens = {1}
  ReadCaps = {2}
  MaxBytes <- One
  RxCapacity <- Single
  MayClose = {"a"}
  MayDrop = {"b"}
  MaxHandles <- Pair
  MayBreak = {"b"}
  SackEnd = {}
SPECIFICATION Spec
INVARIANTS
  CloseFlushes
  ResetByLastDrop
  SleepingDriver
  BlockedReader
CHECK_DEADLOCK FALSE
