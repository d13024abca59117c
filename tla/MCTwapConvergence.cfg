SPECIFICATION LiveSpec
CONSTANTS
  SCALE = 10
  Values <- MCValues
  InitializeInputs <- MCInitializeInputs
  InitSlot = 2
  MaxSlot = 2
  MaxRecorded = 1
  Signers = {alice, admin}
  authority = admin
PROPERTIES RateConverges
