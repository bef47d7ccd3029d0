CONSTANTS
  DEVICE_NUM = 2
  PRIMARY_BUFFERS = 4
  BLOCKS_PER_LIST = 11
  NUM_BLOCKS = 12
  Word = 16
  MAX_INODES = 2
  FTABLE_SIZE = 4
  Names = {a}
  Modes = {"rw", "none"}
  NULL = NULL
  BLOCK_SIZE = 2
  NUM_DIRECT_POINTERS = 3
  Bytes = {0, 1, 2}
  Unreadable = {"none"}
  LongWord = 64
  Garbage = {0, 12}
  Wild = Wild
  Strings <- SomeStrings
  Counts = {1, 3}
  MaxOffset = 3
SPECIFICATION Spec
INVARIANT TypeOK SizeMatchesBlocks BlocksStayLent IndexNeverWraps
PROPERTY ImplementsAppendOnly CallsEnd DescriptorsSurvive NewBlockWritable
CHECK_DEADLOCK FALSE
