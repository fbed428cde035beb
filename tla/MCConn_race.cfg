\* src/stream.rs: "Only the driver is left, shutdown."
CONSTANTS
  HEADER_SIZE = 1
  MAX_DATA_SIZE = 2
  SSTHRESH = 9
  MAX_TRANSMITS = 0
  Closers = {}
  End = {"a", "b"}
  WriteLens = {}
  ReadCaps = {}
  MaxBytes <- One
  RxCapacity <- Single
  MayClose = {}
  MayDrop = {"b"}
  MaxHandles <- Pair
  MayBreak = {}
  SackEnd = {}
SPECIFICATION Spec
INVARIANTS
  LastDropCloses
CHECK_DEADLOCK FALSE
