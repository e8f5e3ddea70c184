CONSTANTS
  NUMBER_OF_ADDRESSABLE_BLOCKS = 3
  BLOCK_SIZE = 2
  BLOCK_ERASES = 2
  Payloads = {d1}
  NoData = NoData
  GC_PERCENT = 90
  NUM_TO_ERASE = 2
  MAX_LOG_BLOCKS = 1
SPECIFICATION Spec
INVARIANTS BlocksAccountedFor FreeBlocksErased CountersMatchHeldBlocks GivesUpOnlyWhenAllHeld
PROPERTIES HeldPagesSurvive
CHECK_DEADLOCK FALSE
