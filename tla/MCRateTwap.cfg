SPECIFICATION Spec
CONSTANTS
  SCALE = 10
  Values = {0, 7}
  InitializeInputs <- MCInitializeInputs
  InitSlot = 1
  MaxSlot = 4
  MaxRecorded = 5
INVARIANTS TypeOK NoSamplingBurst RateWithinSamples
PROPERTIES ImplementsSlidingAverage ImplementsRateProgram
