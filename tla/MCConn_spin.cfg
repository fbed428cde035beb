\* A stream whose handle and socket are gone, under fair scheduling.
CONSTANTS
  HEADER_SIZE = 1
  MAX_DATA_SIZE = 2
  SSTHRESH = 9
  MAX_TRANSMITS = 0
  Closers = {}
  End = {"a", "b"}
  WriteLens = {}
  ReadCaps = {}
  MaxBytes <- One
  RxCapacity <- Single
  MayClose = {}
  MayDrop = {"b"}
  MaxHandles <- Single
  MayBreak = {"b"}
  SackEnd = {}
SPECIFICATION FairSpec
PROPERTIES
  AbandonedEnds
CHECK_DEADLOCK FALSE
