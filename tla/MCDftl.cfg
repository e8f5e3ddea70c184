CONSTANTS
  NUMBER_OF_ADDRESSABLE_BLOCKS = 4
  BLOCK_SIZE = 2
  BLOCK_ERASES = 2
  Payloads = {d1, d2}
  NoData = NoData
  GC_PERCENT = 60
  NUM_TO_ERASE = 2
  MAX_LOG_BLOCKS = 3
  NumLpns = 2
  totalCMTentries = 1
  MAX_UNDERCOUNT = 1
VIEW DftlView
SPECIFICATION Spec
INVARIANTS
  MappingExact
  BlocksFreeOrFull
PROPERTIES
  RequestsMeetDisk
CHECK_DEADLOCK FALSE
