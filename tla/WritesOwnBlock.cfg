CONSTANTS
  DEVICE_NUM = 2
  PRIMARY_BUFFERS = 4
  BLOCKS_PER_LIST = 6
  BlockNumbers = {0, 1, 4, 5, 7}
  BLOCK_SIZE = 2
  Bytes = {0, 1}
  NULL = NULL
SPECIFICATION Spec
CHECK_DEADLOCK FALSE
PROPERTY WritesOwnBlock
