\* The test programs of user/ with the real sizes, and every sort program against
\* one that locks its dialogues and one that does not.
CONSTANTS
  PAGE_SIZE = 4096
  HeapSize = 536870912
  LargestHole = 4000
  Sizes = {}
  Rooms = {133120}
  MaxMallocs = 20
  NULL = NULL
  Envs = {1, 2}
  Loaded <- MCLoaded
  Numbers = {0, 1, 4, 7}
  PAGE_INTS = 4
  MaxRounds = 2
SPECIFICATION MCSpec
INVARIANT ProgramsPass
INVARIANT AnswersReachAsker
INVARIANT RoundsEndClean
