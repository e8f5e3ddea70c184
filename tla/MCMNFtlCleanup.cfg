CONSTANTS
  NUMBER_OF_ADDRESSABLE_BLOCKS = 3
  BLOCK_SIZE = 2
  BLOCK_ERASES = 2
  Payloads = {d1, d2}
  NoData = NoData
  GC_PERCENT = 90
  NUM_TO_ERASE = 5
  MAX_LOG_BLOCKS = 3
  Q = 2
  NumLbns = 1
VIEW CleanupView
SPECIFICATION FairCleanupSpec
PROPERTIES
  ErasesOnlyUnmapped
  CleanupKeepsDisk
  CleanupEnds
CHECK_DEADLOCK FALSE
