SPECIFICATION Spec
CONSTANTS
  SCALE = 100
  NewtonSteps = 24
  MaxU64 = 20
  sol_usdc = sol_usdc
  eth_usdc = eth_usdc
  Pools = {sol_usdc, eth_usdc}
  decimals <- MCDecimals
  PoolAmounts <- MCPoolAmounts
  MayBecome <- ConstantProduct
  NoPrice = NoPrice
  InitSlot = 0
  MaxSlot = 1
INVARIANTS LpTokensAreWorthThePool EarnedIsNotNegative
PROPERTIES ImplementsOracleReader
CHECK_DEADLOCK FALSE
