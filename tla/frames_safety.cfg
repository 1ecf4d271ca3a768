SPECIFICATION Spec
\* Every slot may be lost to a panic of env_create.
CHECK_DEADLOCK FALSE
CONSTANTS
  e1 = e1
  e2 = e2
  NULL = NULL
  Envs <- MC_Envs
  Frames <- MC_Frames
  Pages <- MC_Pages
  Tables <- MC_Tables
  PDX <- MC_PDX
  Code <- MC_Code
  StackTop = "stack"
  Stack = {"stack", "grown"}
  Heap = {"heap"}
  WSSize = 2
  DiskFrames = 4
VIEW View
INVARIANTS
  TypeOK
PROPERTY
  LeakedOnlyByPanic
INVARIANT FramesAccounted
