SPECIFICATION MarketSpec
CONSTANTS
  SCALE = 100
  MaxU64 = 3
  alice = alice
  owner = owner
  Users = {alice, owner}
  Owner = owner
  Vault = Vault
  None = None
  FairValues <- MCFairValues
  InitFairValue <- MCInitFairValue
  ExecutePlugin <- MCExecutePlugin
  InitialTokens <- MCInitialTokens
  InitializeInputs <- MCInitializeInputs
  UpdateInputs <- MCUpdateInputs
  Amounts = {0, 1}
  RateDelays = {0}
  InitSlot = 0
  MaxSlot = 2
INVARIANTS TypeOK Solvency
PROPERTIES HaltsHold TradesAtRecentRates
CHECK_DEADLOCK FALSE
