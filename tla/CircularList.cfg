SPECIFICATION Spec
CONSTANTS
  Addresses = {1, 2, 3, 4}
  Numbers = {0, 1, 2, 3}
  BLOCKS_PER_LIST = 3
  MaxQueue = 3
  NULL = NULL
INVARIANT TypeOK RingIntact
PROPERTY ImplementsNumberList LoopsEnd
CHECK_DEADLOCK FALSE
