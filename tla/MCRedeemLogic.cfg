SPECIFICATION Spec
CONSTANTS
  SCALE = 1000
  NewtonSteps = 16
  MaxU64 = 20
  Plugins = {"lending", "lending_fee", "digital", "forward", "settled_forward", "vanilla_option"}
  Terms <- MCTerms
  Rates <- MCRates
  SecondRates <- MCSecondRates
  Deposits <- MCDeposits
INVARIANTS
  CollateralSharedOut RefreshNeverBlocked LendersMadeWhole FeePaidFromGain
  PayoffFollowsRate CallPutParity SettlementConsistent LendingProgramsAgree
