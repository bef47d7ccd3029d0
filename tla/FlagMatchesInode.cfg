CONSTANTS
  MAX_INODES = 3
  FTABLE_SIZE = 6
  Names = {a, b}
  Modes = {"rw", "ro"}
  NULL = NULL
SPECIFICATION Spec
CHECK_DEADLOCK FALSE
INVARIANT FlagMatchesInode
