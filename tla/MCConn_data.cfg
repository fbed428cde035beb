\* Two packets of two bytes, read into a buffer of three bytes, which one
\* packet and a part of the other fill: every order of arrival, duplication,
\* timeout and reading.
CONSTANTS
  HEADER_SIZE = 1
  MAX_DATA_SIZE = 2
  SSTHRESH = 9
  MAX_TRANSMITS = 0
  Closers = {}
  End = {"a", "b"}
  WriteLens = {2}
  ReadCaps = {3}
  MaxBytes <- Four
  RxCapacity <- Pair
  MayClose = {}
  MayDrop = {}
  MaxHandles <- Single
  MayBreak = {}
  SackEnd = {}
SPECIFICATION Spec
INVARIANTS
  TypeOK
  InflightExact
  IntactStream
  WindowShape
  BlockedReader
  SleepingDriver
  AckedIsReceived
PROPERTIES
  ImplementsByteStream
  NothingTakenBack
CHECK_DEADLOCK FALSE
