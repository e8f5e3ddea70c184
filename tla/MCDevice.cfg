SPECIFICATION Spec
CONSTANTS
  SSD_SIZE = 2
  PACKAGE_SIZE = 2
  DIE_SIZE = 2
  PLANE_SIZE = 3
  BLOCK_SIZE = 2
  BLOCK_ERASES = 1
  Payloads = {d1}
  NoData = NoData
  Touched <- TouchedPages
CONSTRAINT Bounds
INVARIANT TypeOK
INVARIANT StateMatchesPages
INVARIANT WearCurrent
PROPERTY FreeBlocksFollow
PROPERTY ImplementsFlatFlash
CHECK_DEADLOCK FALSE
