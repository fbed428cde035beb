\* A window of two packets and three to write, under fair scheduling: writes that
\* are cut short or blocked, retransmissions that do not fit, and batches of two
\* acks.
CONSTANTS
  HEADER_SIZE = 1
  MAX_DATA_SIZE = 1
  SSTHRESH = 6
  MAX_TRANSMITS = 0
  Closers = {}
  End = {"a", "b"}
  WriteLens = {1, 2}
  ReadCaps = {}
  MaxBytes <- Three
  RxCapacity <- PairOfAcks
  MayClose = {}
  MayDrop = {}
  MaxHandles <- Single
  MayBreak = {}
  SackEnd = {}
SPECIFICATION FairSpec
INVARIANTS
  CwndRespected
  AttemptsBounded
PROPERTIES
  NothingTakenBack
  DrainsOrFails
  WriterWoken
CHECK_DEADLOCK FALSE
