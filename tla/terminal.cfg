SPECIFICATION MCSpec
CONSTANTS
  CONSBUFSIZE = 3
  CRT_COLS = 3
  CRT_SIZE = 9
  BUFLEN = 4
  PROMPT = 1
  Keys <- MCKeys
  MaxInbox = 2
  MaxEvents = 4
  MaxSerial = 1
  COMMAND_BUFLEN = 5
  HISTORY_MAX = 2
  Letters = {"a", "b", " "}
  commands <- MCcommands
  userPrograms <- MCuserPrograms
  TakesProgram <- MCTakesProgram
  MaxKeys = 7
INVARIANT ScreenShowsLine
INVARIANT InputInOrder
INVARIANT LineIsMeant
INVARIANT RecallExecutes
PROPERTY KernelReadsAll
