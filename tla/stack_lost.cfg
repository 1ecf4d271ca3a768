\* Two active pages and one or no page in the second list, a page file too small.
CONSTANTS
  Pages <- MC_Pages
  Code <- MC_Code
  Stack <- MC_Stack
  Heap <- MC_Heap
  StackTop = 11
  PTSIZE = 4
  ListSizes <- MC_ListSizes
  DiskFrames = 3
  Values = {v1}
  LOADED = LOADED
  GARBAGE = GARBAGE
  NOPAGE = NOPAGE
  NONE = NONE
SPECIFICATION Spec
PROPERTY EvictedIsSaved
