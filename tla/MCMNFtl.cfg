CONSTANTS
  NUMBER_OF_ADDRESSABLE_BLOCKS = 2
  BLOCK_SIZE = 2
  BLOCK_ERASES = 1
  Payloads = {d1, d2}
  NoData = NoData
  GC_PERCENT = 90
  NUM_TO_ERASE = 5
  MAX_LOG_BLOCKS = 2
  Q = 2
  NumLbns = 2
SYMMETRY PayloadSymmetry
SPECIFICATION Spec
INVARIANTS
  TypeOK
  MappingInjective
  MappedPagesValid
  AnchorsValid
  PagesFilledInOrder
  AbortsOnlyWhenAllProgrammed
PROPERTIES
  WritesLeaveNoOrphans
  ReadsReturnLastWrite
CHECK_DEADLOCK FALSE
