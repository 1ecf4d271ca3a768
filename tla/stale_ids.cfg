SPECIFICATION IdsSpec
CONSTANTS
  NENV = 12
  ENVGENSHIFT = 12
  NoSlot = NoSlot
INVARIANT StaleIdsRefused
