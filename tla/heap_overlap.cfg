SPECIFICATION Spec
CHECK_DEADLOCK FALSE
CONSTANTS
  PAGE_SIZE = 2
  HeapSize = 12
  LargestHole = 6
  Sizes = {1, 2, 4}
  Rooms = {1, 3}
  MaxMallocs = 7
INVARIANT
  BlocksDisjoint
