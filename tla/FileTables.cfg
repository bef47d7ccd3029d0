CONSTANTS
  MAX_INODES = 4
  FTABLE_SIZE = 6
  Names = {a, b, c, d}
  Modes = {"rw", "ro"}
  NULL = NULL
SPECIFICATION Spec
SYMMETRY NameSymmetry
INVARIANT TypeOK AllocatorsAgree OneNodePerFile EntriesOwned
PROPERTY DescriptorsKept OpenSharesNode ImplementsFileNames
CHECK_DEADLOCK FALSE
