SPECIFICATION Spec
CONSTANTS
  SCALE = 100
  Accounts = {sol, eth}
  NotAPrice = NotAPrice
  MaxOracles = 2
  Mantissas <- MCMantissas
  Expos <- MCExpos
  None = None
  InitSlot = 1
  MaxSlot = 2
PROPERTIES ImplementsOracleReader
CHECK_DEADLOCK FALSE
