CONSTANTS
  DEVICE_NUM = 4
  PRIMARY_BUFFERS = 12
  BLOCKS_PER_LIST = 96
  NUM_BLOCKS = 512
  Word = 65536
  MAX_INODES = 100
  FTABLE_SIZE = 500
  Names = {"penguin", "python", "cloud"}
  Modes = {"0644", "0777", "0444"}
  Unreadable = {"0444"}
  NULL = NULL
  BLOCK_SIZE = 8
  NUM_DIRECT_POINTERS = 10
  Bytes = {0, 1, 2}
  LongWord = 64
  Garbage = {0, 1, 95}
  Wild = Wild
  Strings <- Typed
  Counts = {2}
  Count = 2
  MaxOffset = 0
SPECIFICATION MainSpec
INVARIANT FilesOpen InputStored
PROPERTY EndsInRead
CHECK_DEADLOCK FALSE
