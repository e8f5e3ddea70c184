CONSTANTS
  BUS_CTRL_DELAY = 1
  BUS_DATA_DELAY = 1
  READ_DELAY = 2
  MAX_TIME = 3
  MAX_BEFORE = 2
  MAX_TRANSFERS = 4
SPECIFICATION Spec
INVARIANTS TableDisjoint
PROPERTIES EarliestSlot InOrderLocksDisjoint
CHECK_DEADLOCK FALSE
