CONSTANTS
  NUMBER_OF_ADDRESSABLE_BLOCKS = 4
  BLOCK_SIZE = 2
  BLOCK_ERASES = 1
  Payloads = {0, 1, 2, 3}
  NoData = NoData
  GC_PERCENT = 60
  NUM_TO_ERASE = 2
  MAX_LOG_BLOCKS = 3
  NumLpns = 4
  totalCMTentries = 4
  MAX_UNDERCOUNT = 1000
VIEW BdftlView
SPECIFICATION BSpec
CONSTRAINT Bounds
INVARIANTS
  OptimalNotInPageMap
  BlockMapExclusive
  UnlostPagesIntact
CHECK_DEADLOCK FALSE
