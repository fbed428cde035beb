\* src/constants.rs: "Max transmit attempts per packet".
CONSTANTS
  HEADER_SIZE = 1
  MAX_DATA_SIZE = 2
  SSTHRESH = 9
  MAX_TRANSMITS = 1
  Closers = {}
  End = {"a", "b"}
  WriteLens = {1}
  ReadCaps = {}
  MaxBytes <- One
  RxCapacity <- Single
  MayClose = {}
  MayDrop = {}
  MaxHandles <- Single
  MayBreak = {}
  SackEnd = {}
SPECIFICATION Spec
INVARIANTS
  AttemptsWithinMax
CHECK_DEADLOCK FALSE
