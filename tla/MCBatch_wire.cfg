SPECIFICATION Spec
CONSTANTS
  HEADER_SIZE = 1
  MAX_SEGMENTS = 3
  GsoSegments = 4
  Sizes <- TwoSizes
  MaxPackets = 4
  MaxRetransmits = 2
INVARIANTS
  WireIntact
  SentInOrder
  Conserved
CHECK_DEADLOCK FALSE
