SPECIFICATION Spec
CONSTANTS
  SCALE = 1
  sol = sol
  eth = eth
  other = other
  System = System
  SWITCHBOARD_V2_DEVNET = DEVNET
  SWITCHBOARD_V2_MAINNET = MAINNET
  Accounts = {sol, eth, other}
  owner <- MCOwner
  MaxAggregators = 2
  Results = {1, 2}
  OutOfRange = OutOfRange
  None = None
  InitSlot = 1
  MaxSlot = 3
PROPERTIES ImplementsOracleReader
CHECK_DEADLOCK FALSE
