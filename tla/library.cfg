SPECIFICATION Spec
CONSTANTS
  Elements = {1, 2, 3, 4}
  Lists = {1, 2}
  NULL = 0
  WORD = 4096
  PAGE_SIZE = 3
  ENTRIES = 16
  ADDRESSES = 768
  KERNEL_BASE = 576
  KERNEL_STACK_SIZE = 6
  PHYS_IO_MEM = 12
  FRAME_INFO = 1
  PAGES_PER_FILE = 7
  COUNTS = 4096
  TICKS = 16
  CYCLES_PER_MILLISEC = 3
  CappedVA = 9
  STALE = 99
  MAX_ARGUMENTS = 3
  Envs = {1, 2}
  PRINTBUF = 4
  KEY = 5
  MAX_SHARES = 100
  NENV = 12
  ENVGENSHIFT = 12
  NoSlot = NoSlot
INVARIANTS
  IdsDistinct
  IdsNameSlots
  CallsTransparent
  SectionsAlone
  ListsImplementSequences
  StringsAsMeant
  PrintingExact
  SearchBrackets
  TimeKept
  ProgramLoaded
  KernelMapped
  TablesExact
