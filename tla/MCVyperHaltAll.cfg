SPECIFICATION Spec
CONSTANTS
  SCALE = 1000
  MaxU64 = 10
  alice = alice
  Users = {alice}
  Owner = alice
  Vault = Vault
  None = None
  FairValues <- MCFairValues
  InitFairValue <- MCInitFairValue
  ExecutePlugin <- MCExecutePlugin
  InitialTokens <- MCInitialTokens
  InitializeInputs <- MCInitializeInputs
  UpdateInputs <- MCUpdateInputs
  Amounts = {0, 1, 2}
  RateDelays = {0}
  InitSlot = 0
  MaxSlot = 1
PROPERTIES HaltAllStopsEverything
CHECK_DEADLOCK FALSE
