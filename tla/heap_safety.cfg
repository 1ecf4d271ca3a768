SPECIFICATION Spec
\* The program stops calling malloc at its bound.
CHECK_DEADLOCK FALSE
CONSTANTS
  PAGE_SIZE = 2
  HeapSize = 14
  LargestHole = 4
  Sizes = {2, 4, 6}
  Rooms = {1, 3}
  MaxMallocs = 6
INVARIANTS
  BlocksDisjoint
PROPERTY
  BestFit
INVARIANT HeapConsistent
