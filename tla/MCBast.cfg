CONSTANTS
  NUMBER_OF_ADDRESSABLE_BLOCKS = 4
  BLOCK_SIZE = 2
  BLOCK_ERASES = 1
  Payloads = {d1, d2}
  NoData = NoData
  GC_PERCENT = 90
  NUM_TO_ERASE = 5
  MAX_LOG_BLOCKS = 4
  NumLbas = 2
  BAST_LOG_BLOCK_LIMIT = 1
SYMMETRY PayloadSymmetry
SPECIFICATION Spec
INVARIANTS
  BlocksOwnedOnce
  OnlyWearEndsIt
  StaleOnlyInLog
  ReadsReturnLastWrite
VIEW View
CONSTRAINT ErasesBounded
CHECK_DEADLOCK FALSE
