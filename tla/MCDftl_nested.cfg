CONSTANTS
  NUMBER_OF_ADDRESSABLE_BLOCKS = 3
  BLOCK_SIZE = 2
  BLOCK_ERASES = 1
  Payloads = {d1}
  NoData = NoData
  GC_PERCENT = 60
  NUM_TO_ERASE = 2
  MAX_LOG_BLOCKS = 3
  NumLpns = 2
  totalCMTentries = 1
  MAX_UNDERCOUNT = 2
SPECIFICATION FairSpec
INVARIANTS
  EvictionFindsEntry
PROPERTIES
  RequestsEnd
CHECK_DEADLOCK FALSE
