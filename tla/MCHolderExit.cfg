SPECIFICATION ExitSpec
CONSTANTS
  SCALE = 100
  MaxU64 = 10
  alice = alice
  bob = bob
  Users = {alice, bob}
  Owner = alice
  Vault = Vault
  None = None
  FairValues <- MCFairValues
  InitFairValue <- MCInitFairValue
  ExecutePlugin <- MCExecutePlugin
  InitialTokens <- MCInitialTokens
  InitializeInputs <- MCInitializeInputs
  UpdateInputs <- MCUpdateInputs
  Amounts = {0, 1}
  RateDelays = {0}
  InitSlot = 2
  MaxSlot = 2
PROPERTIES HoldersCanLeave
CHECK_DEADLOCK FALSE
