CONSTANTS
  NUMBER_OF_ADDRESSABLE_BLOCKS = 8
  BLOCK_SIZE = 2
  BLOCK_ERASES = 1
  Payloads = {d1, d2}
  NoData = NoData
  GC_PERCENT = 90
  NUM_TO_ERASE = 5
  MAX_LOG_BLOCKS = 2
  NumLbas = 2
  FAST_LOG_BLOCK_LIMIT = 2
SYMMETRY PayloadSymmetry
SPECIFICATION Spec
INVARIANT ReadsReturnLastWrite
CONSTRAINT ErasesBounded
CHECK_DEADLOCK FALSE
