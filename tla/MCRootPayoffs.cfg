SPECIFICATION Spec
CONSTANTS
  SCALE = 100
  NewtonSteps = 16
  MaxU64 = 250
  Plugins = {"fila", "farming"}
  Terms <- MCTerms
  Rates <- MCRates
  SecondRates <- MCSecondRates
  Deposits <- MCDeposits
INVARIANTS
  CollateralSharedOut RefreshNeverBlocked ProtectionGrowsWithDistance
  HedgedWithinCaps SellerLossCapped
