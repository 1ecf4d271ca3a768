SPECIFICATION SysSpec
CONSTANTS
  Envs = {1, 2}
  PRINTBUF = 4
  KEY = 5
  MAX_SHARES = 100
INVARIANT
  AtInstruction
