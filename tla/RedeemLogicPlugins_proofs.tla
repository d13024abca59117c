------------------------ MODULE RedeemLogicPlugins_proofs -------------------
(***************************************************************************)
(* The plugins share out exactly what the tranches held, at every rate     *)
(* and under all terms: the assumption VyperCore's solvency rests on.      *)
(* Those whose payoff is clamped always have an answer, and so do the      *)
(* lending ones unless one rate is astronomically larger than another.     *)
(* Then what single plugins promise their two sides, and what two of them, *)
(* or one of them under two terms, promise of each other.                  *)
(***************************************************************************)
EXTENDS RedeemLogicPlugins, DecimalTheorems, TLAPS

LEMMA QuantityIsNat ==
  ASSUME NEW q \in Quantities
  PROVE  q[0] \in Nat /\ q[1] \in Nat /\ Total(q) \in Nat
BY MaxU64Assumption DEF Quantities, U64, Tranches, Total

\* The dust of two floors of decimals that add up to whole tokens is at most one token.
LEMMA FloorsLeaveOneToken ==
  ASSUME NEW total \in Nat, NEW senior \in Int
  PROVE  total - DecFloor(senior) - DecFloor(Dec(total) - senior) <= 1
<1> DEFINE a == DecFloor(senior)
           b == DecFloor(Dec(total) - senior)
           lost == total - a - b
<1>1. Dec(total) - senior \in Int /\ Dec(total) = SCALE * total
  BY ScaleAssumption DEF Dec
<1>2. a \in Int /\ b \in Int
  BY <1>1, FloorFact
<1>3. senior < SCALE * a + SCALE /\ Dec(total) - senior < SCALE * b + SCALE
  BY <1>1, FloorFact
<1>4. lost <= 1
  <2> HIDE DEF a, b
  <2>1. SUFFICES ASSUME lost >= 2 PROVE FALSE
    BY <1>2
  <2>2. SCALE * total = SCALE * a + SCALE * b + 2 * SCALE + SCALE * (lost - 2)
    BY <1>2, ScaleAssumption
  <2>3. SCALE * (lost - 2) \in Nat /\ SCALE * a \in Int /\ SCALE * b \in Int
    BY <1>2, <2>1, ScaleAssumption
  <2>4. QED
    BY <1>1, <1>3, <2>2, <2>3, ScaleAssumption
<1>5. QED
  BY <1>4

\* The quantity of the long side, kept within the collateral, and what that leaves.
LEMMA ClampedShares ==
  ASSUME NEW total \in Nat, NEW x \in Int
  PROVE  LET senior == Lesser(Dec(total), Greater(0, x))
         IN  /\ senior \in Int
             /\ Greater(0, Dec(total) - senior) = Dec(total) - senior
BY ScaleAssumption DEF Dec, Lesser, Greater

LEMMA PayoffIsInt ==
  ASSUME NEW spot \in Nat, NEW strike \in Nat, NEW notional \in Nat,
         NEW is_linear \in BOOLEAN
  PROVE  Forward!Payoff(spot, strike, notional, is_linear) \in Int
<1>1. CASE is_linear
  BY <1>1 DEF Forward!Payoff
<1>2. CASE ~is_linear /\ spot = 0
  BY <1>2, ScaleAssumption DEF Forward!Payoff, Forward!Dec
<1>3. CASE ~is_linear /\ spot # 0
  <2>1. notional * (spot - strike) * SCALE \in Int /\ spot \in Nat \ {0}
    BY <1>3, ScaleAssumption
  <2>2. RoundHalfEven(notional * (spot - strike) * SCALE, spot) \in Int
    BY <2>1, RoundingError
  <2>3. QED
    BY <1>3, <2>2
    DEF Forward!Payoff, Forward!DecDiv, Forward!RoundHalfEven, RoundHalfEven
<1>4. QED
  BY <1>1, <1>2, <1>3

LEMMA SettledPayoffIsInt ==
  ASSUME NEW spot \in Nat, NEW settle \in Nat, NEW strike \in Nat, NEW notional \in Nat,
         NEW is_linear \in BOOLEAN, NEW is_standard \in BOOLEAN
  PROVE  SettledForward!DecMul(SettledForward!SettleRate(settle, is_standard),
           SettledForward!Forward!Payoff(spot, strike, notional, is_linear)) \in Int
<1>1. SettledForward!Forward!Payoff(spot, strike, notional, is_linear)
        = Forward!Payoff(spot, strike, notional, is_linear)
  BY DEF SettledForward!Forward!Payoff, Forward!Payoff,
         SettledForward!Forward!Dec, Forward!Dec,
         SettledForward!Forward!DecDiv, Forward!DecDiv,
         SettledForward!Forward!RoundHalfEven, Forward!RoundHalfEven
<1>2. SettledForward!SettleRate(settle, is_standard) \in Int
  <2>1. CASE is_standard \/ settle = 0
    BY <2>1 DEF SettledForward!SettleRate
  <2>2. CASE ~(is_standard \/ settle = 0)
    <3>1. RoundHalfEven(SCALE * SCALE, settle) \in Int
      BY <2>2, RoundingError, ScaleAssumption
    <3>2. QED
      BY <2>2, <3>1 DEF SettledForward!SettleRate, SettledForward!DecDiv,
                        SettledForward!One, SettledForward!RoundHalfEven, RoundHalfEven
  <2>3. QED
    BY <2>1, <2>2
<1>3. DecMul(SettledForward!SettleRate(settle, is_standard),
             Forward!Payoff(spot, strike, notional, is_linear)) \in Int
  <2>1. SettledForward!SettleRate(settle, is_standard)
          * Forward!Payoff(spot, strike, notional, is_linear) \in Int
    BY <1>2, PayoffIsInt
  <2>2. QED
    BY <2>1, RoundingError, ScaleAssumption DEF DecMul
<1>4. QED
  BY <1>1, <1>3 DEF SettledForward!DecMul, DecMul,
                    SettledForward!RoundHalfEven, RoundHalfEven

----------------------------------------------------------------------------
(* One plugin after the other *)

LEMMA LendingConserves ==
  ASSUME NEW q \in Quantities, NEW old, NEW new, NEW split, NEW fee \in U64,
         NEW result \in Lending!execute_plugin(q, old, new, split, fee)
  PROVE  Conserves(q, result)
<1> USE DEF Lending!Returns, Lending!Split, Lending!Tranches, Lending!Total, Lending!U64
<1> DEFINE senior == Lending!DecRound(Lending!SeniorQuantity(q, old, new, split))
           junior == Total(q) - senior
<1>1. Total(q) \in Nat /\ fee \in Nat
  BY QuantityIsNat, MaxU64Assumption DEF U64
<1>2. CASE old = 0
  BY <1>1, <1>2 DEF Lending!execute_plugin, Conserves
<1>3. CASE old # 0
  <2>1. senior \in Nat /\ junior \in Nat
    BY <1>3, MaxU64Assumption DEF Lending!execute_plugin, Total
  <2>2. /\ result.new_quantity[0] = senior - Lending!TrancheFee(senior, fee)
        /\ result.new_quantity[1] = junior - Lending!TrancheFee(junior, fee)
        /\ result.fee_quantity = Lending!TrancheFee(senior, fee)
                                   + Lending!TrancheFee(junior, fee)
    BY <1>3 DEF Lending!execute_plugin, Total
  <2>3. Lending!TrancheFee(senior, fee) \in Nat /\ Lending!TrancheFee(junior, fee) \in Nat
    BY <1>1 DEF Lending!TrancheFee
  <2>4. QED
    <3> DEFINE sf == Lending!TrancheFee(senior, fee)
               jf == Lending!TrancheFee(junior, fee)
    <3>1. Total(q) = senior + junior
      BY <1>1, <2>1
    <3> HIDE DEF senior, junior, sf, jf
    <3>2. QED
      BY <2>1, <2>2, <2>3, <3>1 DEF Conserves, Total, sf, jf
<1>4. QED
  BY <1>2, <1>3

LEMMA LendingFeeConserves ==
  ASSUME NEW q \in Quantities, NEW old, NEW new, NEW split, NEW mgmt, NEW perf,
         NEW result \in LendingFee!execute_plugin(q, old, new, split, mgmt, perf)
  PROVE  Conserves(q, result)
<1>1. PICK n : /\ result.new_quantity = n
               /\ n \in Quantities
               /\ result.fee_quantity = Total(q) - Total(n)
  <2>1. result.new_quantity \in Quantities
    BY DEF LendingFee!execute_plugin, LendingFee!ReturnsFloors, LendingFee!Returns,
           LendingFee!RedeemLogicExecuteResult, LendingFee!Quantities, Quantities,
           LendingFee!U64, U64, LendingFee!Tranches, Tranches
  <2>2. result.fee_quantity = Total(q) - Total(result.new_quantity)
    <3>1. CASE old = 0 \/ new = 0
      <4> DEFINE senior == LendingFee!DecFloor(LendingFee!DecMul(
                             LendingFee!Dec(LendingFee!Total(q)), LendingFee!One - mgmt))
      <4>1. /\ result.new_quantity = LendingFee!Split(senior, 0)
            /\ result.fee_quantity = LendingFee!Total(q) - senior
        BY <3>1 DEF LendingFee!execute_plugin, LendingFee!Returns
      <4>2. senior \in Nat
        <5>1. result.new_quantity[0] = senior
          BY <4>1 DEF LendingFee!Split, LendingFee!Tranches
        <5>2. QED
          BY <2>1, <5>1, QuantityIsNat
      <4>3. Total(result.new_quantity) = senior
        BY <4>1, <4>2 DEF LendingFee!Split, LendingFee!Tranches, Total
      <4>4. QED
        BY <4>1, <4>3 DEF LendingFee!Total, Total
    <3>2. CASE ~(old = 0 \/ new = 0)
      BY <3>2 DEF LendingFee!execute_plugin, LendingFee!ReturnsFloors, LendingFee!Returns,
                  LendingFee!Remainder, LendingFee!Total, Total
    <3>3. QED
      BY <3>1, <3>2
  <2>3. QED
    BY <2>1, <2>2
<1>2. Total(q) \in Nat /\ Total(n) \in Nat
  BY <1>1, QuantityIsNat
<1>3. QED
  BY <1>1, <1>2 DEF Conserves

LEMMA DigitalConserves ==
  ASSUME NEW q \in Quantities, NEW new, NEW strike, NEW is_call,
         NEW result \in Digital!execute_plugin(q, new, strike, is_call)
  PROVE  Conserves(q, result) /\ result.fee_quantity <= 1
<1> DEFINE win    == IF Digital!InTheMoney(new, strike, is_call)
                     THEN Digital!Dec(q[1]) ELSE 0
           senior == Digital!DecFloor(win)
<1>1. /\ result.new_quantity = Digital!Split(senior, Digital!Total(q) - senior)
      /\ result.fee_quantity = 0
      /\ result.new_quantity \in Quantities
  BY DEF Digital!execute_plugin, Digital!ReturnsRest, Digital!Returns,
         Digital!RedeemLogicExecuteResult, Digital!Quantities, Quantities,
         Digital!U64, U64, Digital!Tranches, Tranches
<1> HIDE DEF senior
<1>2. result.new_quantity[0] = senior /\ result.new_quantity[1] = Total(q) - senior
  BY <1>1 DEF Digital!Split, Digital!Tranches, Digital!Total, Total
<1>3. QED
  BY <1>1, <1>2, QuantityIsNat DEF Conserves, Total

LEMMA VanillaOptionConserves ==
  ASSUME NEW q \in Quantities, NEW new, NEW strike, NEW notional, NEW is_call,
         NEW is_linear,
         NEW result \in VanillaOption!execute_plugin(q, new, strike, notional,
                                                     is_call, is_linear)
  PROVE  Conserves(q, result) /\ result.fee_quantity <= 1
<1> DEFINE won    == VanillaOption!Lesser(VanillaOption!Dec(q[1]),
                       notional * VanillaOption!PayoffOfOne(new, strike, is_call,
                       is_linear))
           senior == VanillaOption!DecFloor(won)
<1>1. /\ result.new_quantity = VanillaOption!Split(senior, VanillaOption!Total(q) - senior)
      /\ result.fee_quantity = 0
      /\ result.new_quantity \in Quantities
  BY DEF VanillaOption!execute_plugin, VanillaOption!ReturnsRest, VanillaOption!Returns,
         VanillaOption!RedeemLogicExecuteResult, VanillaOption!Quantities, Quantities,
         VanillaOption!U64, U64, VanillaOption!Tranches, Tranches
<1> HIDE DEF senior
<1>2. result.new_quantity[0] = senior /\ result.new_quantity[1] = Total(q) - senior
  BY <1>1 DEF VanillaOption!Split, VanillaOption!Tranches, VanillaOption!Total, Total
<1>3. QED
  BY <1>1, <1>2, QuantityIsNat DEF Conserves, Total

LEMMA FloorsConserve ==
  ASSUME NEW q \in Quantities, NEW senior \in Int,
         NEW result \in ReturnsFloors(q, senior, Dec(Total(q)) - senior)
  PROVE  Conserves(q, result) /\ result.fee_quantity <= 1
<1> DEFINE a == DecFloor(senior)
           b == DecFloor(Dec(Total(q)) - senior)
<1>1. Total(q) \in Nat
  BY QuantityIsNat
<1>2. a \in Int /\ b \in Int
  <2>1. Dec(Total(q)) - senior \in Int
    BY <1>1, ScaleAssumption DEF Dec
  <2>2. QED
    BY <2>1, FloorFact
<1>3. Total(q) - a - b <= 1
  BY <1>1, FloorsLeaveOneToken
<1>4. /\ result.new_quantity = Split(a, b)
      /\ result.fee_quantity = Total(q) - Total(Split(a, b))
  BY DEF ReturnsFloors, Returns, Remainder
<1> HIDE DEF a, b
<1>5. Total(Split(a, b)) = a + b
  BY DEF Total, Split, Tranches
<1>6. QED
  BY <1>1, <1>2, <1>3, <1>4, <1>5 DEF Conserves

LEMMA ForwardConserves ==
  ASSUME NEW q \in Quantities, NEW new \in Int, NEW strike \in Int, NEW notional \in Nat,
         NEW is_linear \in BOOLEAN,
         NEW result \in Forward!execute_plugin(q, new, strike, notional, is_linear)
  PROVE  Conserves(q, result) /\ result.fee_quantity <= 1
<1>1. Total(q) \in Nat /\ new \in Nat /\ strike \in Nat
  BY QuantityIsNat DEF Forward!execute_plugin
<1>2. CASE new = 0 /\ ~is_linear /\ strike > 0
  <2>1. result.new_quantity = Forward!Split(0, Total(q)) /\ result.fee_quantity = 0
    BY <1>1, <1>2 DEF Forward!execute_plugin, Forward!Returns, Forward!Total, Total
  <2>2. QED
    BY <1>1, <2>1 DEF Forward!Split, Forward!Tranches, Conserves, Total
<1>3. CASE ~(new = 0 /\ ~is_linear /\ strike > 0)
  <2> DEFINE x      == Forward!Dec(q[0]) + Forward!Payoff(new, strike, notional, is_linear)
             senior == Lesser(Dec(Total(q)), Greater(0, x))
  <2>1. x \in Int
    BY <1>1, QuantityIsNat, PayoffIsInt, ScaleAssumption DEF Forward!Dec
  <2>2. senior \in Int /\ Greater(0, Dec(Total(q)) - senior) = Dec(Total(q)) - senior
    BY <1>1, <2>1, ClampedShares
  <2>3. result \in ReturnsFloors(q, senior, Greater(0, Dec(Total(q)) - senior))
    BY <1>1, <1>3 DEF Forward!execute_plugin, Forward!ReturnsFloors, ReturnsFloors,
                Forward!Returns, Returns, Forward!RedeemLogicExecuteResult,
                RedeemLogicExecuteResult, Forward!Quantities, Quantities, Forward!U64, U64,
                Forward!Tranches, Tranches, Forward!Remainder, Remainder, Forward!Total,
                Total,
                Forward!Split, Split, Forward!DecFloor, DecFloor, Forward!Dec, Dec,
                Forward!Lesser, Lesser, Forward!Greater, Greater
  <2>4. QED
    BY <2>2, <2>3, FloorsConserve
<1>4. QED
  BY <1>2, <1>3

LEMMA SettledForwardConserves ==
  ASSUME NEW q \in Quantities, NEW new \in Int, NEW settle \in Nat, NEW strike \in Int,
         NEW notional \in Nat, NEW is_linear \in BOOLEAN, NEW is_standard \in BOOLEAN,
         NEW result \in SettledForward!execute_plugin(q, new, settle, strike, notional,
                                                      is_linear, is_standard)
  PROVE  Conserves(q, result) /\ result.fee_quantity <= 1
<1>1. Total(q) \in Nat /\ new \in Nat /\ strike \in Nat
  BY QuantityIsNat DEF SettledForward!execute_plugin
<1>2. CASE new = 0 /\ ~is_linear /\ strike > 0
  <2>1. result.new_quantity = SettledForward!Split(0, Total(q)) /\ result.fee_quantity = 0
    BY <1>1, <1>2 DEF SettledForward!execute_plugin, SettledForward!Returns,
                SettledForward!Total, Total
  <2>2. QED
    BY <1>1, <2>1 DEF SettledForward!Split, SettledForward!Tranches, Conserves, Total
<1>3. CASE ~(new = 0 /\ ~is_linear /\ strike > 0)
  <2> DEFINE payoff == SettledForward!DecMul(SettledForward!SettleRate(settle, is_standard),
                         SettledForward!Forward!Payoff(new, strike, notional, is_linear))
             x      == SettledForward!Dec(q[0]) + payoff
             senior == Lesser(Dec(Total(q)), Greater(0, x))
  <2>1. payoff \in Int
    BY <1>1, SettledPayoffIsInt
  <2>2. x \in Int
    BY <2>1, QuantityIsNat, ScaleAssumption DEF SettledForward!Dec
  <2>3. senior \in Int /\ Greater(0, Dec(Total(q)) - senior) = Dec(Total(q)) - senior
    BY <1>1, <2>2, ClampedShares
  <2>4. result \in ReturnsFloors(q, senior, Greater(0, Dec(Total(q)) - senior))
    BY <1>1, <1>3 DEF SettledForward!execute_plugin, SettledForward!ReturnsFloors,
           ReturnsFloors,
                SettledForward!Returns, Returns, SettledForward!RedeemLogicExecuteResult,
                RedeemLogicExecuteResult, SettledForward!Quantities, Quantities,
                SettledForward!U64, U64, SettledForward!Tranches, Tranches,
                SettledForward!Remainder, Remainder, SettledForward!Total, Total,
                SettledForward!Split, Split, SettledForward!DecFloor, DecFloor,
                SettledForward!Dec, Dec, SettledForward!Lesser, Lesser,
                SettledForward!Greater, Greater
  <2>5. QED
    BY <2>3, <2>4, FloorsConserve
<1>4. QED
  BY <1>2, <1>3

LEMMA FilaConserves ==
  ASSUME NEW q \in Quantities, NEW new \in Int, NEW strike \in Int, NEW notional \in Nat,
         NEW result \in Fila!execute_plugin(q, new, strike, notional)
  PROVE  Conserves(q, result) /\ result.fee_quantity <= 1
<1>1. PICK root \in Nat :
        LET senior == Lesser(Dec(q[1]), notional * Fila!Payoff(new, strike, root))
        IN  result \in ReturnsFloors(q, senior, Greater(0, Dec(Total(q)) - senior))
  BY DEF Fila!execute_plugin, Fila!DecSqrt, Fila!ReturnsFloors, ReturnsFloors,
         Fila!Returns, Returns, Fila!RedeemLogicExecuteResult,
         RedeemLogicExecuteResult, Fila!Quantities, Quantities, Fila!U64, U64,
         Fila!Tranches, Tranches, Fila!Remainder, Remainder, Fila!Total, Total,
         Fila!Split, Split, Fila!DecFloor, DecFloor, Fila!Dec, Dec,
         Fila!Lesser, Lesser, Fila!Greater, Greater
<1> DEFINE senior == Lesser(Dec(q[1]), notional * Fila!Payoff(new, strike, root))
<1>2. senior \in Int /\ senior <= Dec(q[1])
  BY QuantityIsNat, ScaleAssumption DEF Fila!Payoff, Dec, Lesser
<1>3. Dec(q[1]) <= Dec(Total(q)) /\ Dec(Total(q)) \in Int /\ Dec(q[1]) \in Int
  BY QuantityIsNat, ScaleAssumption DEF Dec, Total
<1> HIDE DEF senior
<1>4. Greater(0, Dec(Total(q)) - senior) = Dec(Total(q)) - senior
  BY <1>2, <1>3 DEF Greater
<1>5. result \in ReturnsFloors(q, senior, Greater(0, Dec(Total(q)) - senior))
  BY <1>1 DEF senior
<1>6. QED
  BY <1>2, <1>4, <1>5, FloorsConserve

\* The decimal operators of the farming module are those of this one, and return integers.
LEMMA FarmingDecimals ==
  /\ \A a, b \in Int : Farming!DecMul(a, b) \in Int
  /\ \A a \in Int, b \in Nat \ {0} : Farming!DecDiv(a, b) \in Int
  /\ Farming!Half \in Int
<1>1. ASSUME NEW n \in Int, NEW d \in Nat \ {0} PROVE Farming!RoundHalfEven(n, d) \in Int
  BY RoundingError DEF RoundHalfEven, Farming!RoundHalfEven
<1>2. ASSUME NEW a \in Int, NEW b \in Int PROVE Farming!DecMul(a, b) \in Int
  <2>1. a * b \in Int
    OBVIOUS
  <2>2. QED
    BY <1>1, <2>1, ScaleAssumption DEF Farming!DecMul
<1>3. ASSUME NEW a \in Int, NEW b \in Nat \ {0} PROVE Farming!DecDiv(a, b) \in Int
  <2>1. a * SCALE \in Int
    BY ScaleAssumption
  <2>2. QED
    BY <1>1, <2>1 DEF Farming!DecDiv
<1>4. Farming!Half \in Int
  BY <1>1, ScaleAssumption DEF Farming!Half, Farming!One
<1>5. QED
  BY <1>2, <1>3, <1>4

LEMMA NetValueIsInt ==
  ASSUME NEW old_lp \in Nat \ {0}, NEW old_ul \in Nat \ {0}, NEW new_lp \in Nat \ {0},
         NEW new_ul \in Nat \ {0}, NEW split \in Int, NEW low \in Int, NEW high \in Int,
         NEW il \in Farming!LpIl(old_lp, old_ul, new_ul),
         NEW cap_il \in Farming!LpIl(old_lp, old_ul,
                                     Farming!CappedUl(old_ul, new_ul, low, high))
  PROVE  Farming!NetValue(old_lp, old_ul, new_lp, new_ul, split, il, cap_il) \in Int
<1>1. Farming!BaseInLp(old_lp, old_ul) \in Int
  <2>1. Farming!DecDiv(old_lp, old_ul) \in Int
    BY FarmingDecimals
  <2>2. QED
    BY <2>1, FarmingDecimals DEF Farming!BaseInLp
<1>2. Farming!LpDelta(old_lp, old_ul, new_ul) \in Int
  BY <1>1, FarmingDecimals DEF Farming!LpDelta
<1>3. Farming!CappedUl(old_ul, new_ul, low, high) \in Int
  <2>1. Farming!DecDiv(new_ul, old_ul) \in Int
    BY FarmingDecimals
  <2>2. Farming!Greater(low, Farming!Lesser(high, Farming!DecDiv(new_ul, old_ul))) \in Int
    BY <2>1 DEF Farming!Greater, Farming!Lesser
  <2>3. QED
    BY <2>2, FarmingDecimals DEF Farming!CappedUl
<1>4. ASSUME NEW ul \in Int, NEW x \in Farming!LpIl(old_lp, old_ul, ul) PROVE x \in Int
  <2>1. PICK root \in Nat :
          x = Farming!DecMul(Farming!BaseInLp(old_lp, old_ul), 2 * root - old_ul - ul)
    BY <1>4 DEF Farming!LpIl, Farming!DecSqrt
  <2>2. QED
    BY <1>1, <2>1, FarmingDecimals
<1>5. il \in Int /\ cap_il \in Int
  BY <1>3, <1>4
<1> DEFINE accrued == Farming!Accrued(old_lp, old_ul, new_lp, new_ul, il)
<1>6. accrued \in Int
  BY <1>2, <1>5 DEF Farming!Accrued
<1>7. Farming!SeniorShare(accrued, split) \in Int
  <2>1. Farming!One - split \in Int
    BY ScaleAssumption DEF Farming!One
  <2>2. QED
    BY <1>6, <2>1, FarmingDecimals DEF Farming!SeniorShare
<1>8. QED
  BY <1>2, <1>5, <1>7 DEF Farming!NetValue

LEMMA FarmingConserves ==
  ASSUME NEW q \in Quantities, NEW old_lp \in Nat, NEW old_ul \in Nat, NEW new_lp \in Nat,
         NEW new_ul \in Nat, NEW split \in Int, NEW low \in Int, NEW high \in Int,
         NEW result \in Farming!execute_plugin(q, old_lp, old_ul, new_lp, new_ul,
                                               split, low, high)
  PROVE  Conserves(q, result) /\ result.fee_quantity <= 1
<1>1. CASE q[0] = 0 \/ q[1] = 0
  <2>1. result.new_quantity = q /\ result.fee_quantity = 0
    BY <1>1 DEF Farming!execute_plugin, Farming!Returns
  <2>2. QED
    BY <2>1, QuantityIsNat DEF Conserves
<1>2. CASE ~(q[0] = 0 \/ q[1] = 0) /\ 0 \in {old_lp, old_ul, new_lp, new_ul}
  <2>1. result.new_quantity = Farming!Split(Total(q), 0) /\ result.fee_quantity = 0
    BY <1>2 DEF Farming!execute_plugin, Farming!Returns, Farming!Total, Total
  <2>2. QED
    BY <2>1, QuantityIsNat DEF Farming!Split, Farming!Tranches, Conserves, Total
<1>3. CASE ~(q[0] = 0 \/ q[1] = 0) /\ 0 \notin {old_lp, old_ul, new_lp, new_ul}
  <2>1. PICK il \in Farming!LpIl(old_lp, old_ul, new_ul),
             cap_il \in Farming!LpIl(old_lp, old_ul,
                                     Farming!CappedUl(old_ul, new_ul, low, high)) :
          LET net    == Farming!NetValue(old_lp, old_ul, new_lp, new_ul, split, il, cap_il)
              senior == Lesser(Dec(Total(q)), Farming!DecDiv(q[0] * net, new_lp))
          IN  result \in ReturnsFloors(q, senior, Greater(0, Dec(Total(q)) - senior))
    BY <1>3 DEF Farming!execute_plugin, Farming!ReturnsFloors, ReturnsFloors,
                Farming!Returns, Returns, Farming!RedeemLogicExecuteResult,
                RedeemLogicExecuteResult, Farming!Quantities, Quantities, Farming!U64, U64,
                Farming!Tranches, Tranches, Farming!Remainder, Remainder, Farming!Total,
                Total, Farming!Split, Split, Farming!DecFloor, DecFloor, Farming!Dec, Dec,
                Farming!Lesser, Lesser, Farming!Greater, Greater
  <2> DEFINE net    == Farming!NetValue(old_lp, old_ul, new_lp, new_ul, split, il, cap_il)
             share  == Farming!DecDiv(q[0] * net, new_lp)
             senior == Lesser(Dec(Total(q)), share)
  <2>2. net \in Int
    BY <1>3, NetValueIsInt
  <2>3. share \in Int
    <3> HIDE DEF net
    <3>1. q[0] * net \in Int
      BY <2>2, QuantityIsNat
    <3>2. new_lp \in Nat \ {0}
      BY <1>3
    <3>3. QED
      BY <3>1, <3>2, FarmingDecimals
  <2> HIDE DEF share
  <2>4. Dec(Total(q)) \in Int
    BY QuantityIsNat, ScaleAssumption DEF Dec
  <2>5. senior \in Int /\ Greater(0, Dec(Total(q)) - senior) = Dec(Total(q)) - senior
    BY <2>3, <2>4 DEF Lesser, Greater
  <2>6. result \in ReturnsFloors(q, senior, Greater(0, Dec(Total(q)) - senior))
    BY <2>1 DEF share
  <2> HIDE DEF senior
  <2>7. QED
    BY <2>5, <2>6, FloorsConserve
<1>4. QED
  BY <1>1, <1>2, <1>3

----------------------------------------------------------------------------
(* All of them, at every rate they may be refreshed at *)

LEMMA FairValueIsInt ==
  ASSUME NEW v \in FairValues
  PROVE  v[0] \in Int /\ v[1] \in Int /\ DOMAIN v = 0 .. 1
BY RatesAssumption DEF FairValues, FairValue

LEMMA ValidIsNat ==
  ASSUME NEW old \in FairValues, NEW new \in FairValues, IsValid(old, new)
  PROVE  old[0] \in Nat /\ old[1] \in Nat /\ new[0] \in Nat /\ new[1] \in Nat
BY FairValueIsInt DEF IsValid

LEMMA ExecuteSharesOut ==
  ASSUME NEW p \in Plugins, NEW t \in Terms, NEW q \in Quantities,
         NEW old \in FairValues, NEW new \in FairValues,
         NEW result \in Execute(p, t, q, old, new)
  PROVE  /\ Conserves(q, result)
         /\ p \notin {"lending", "lending_fee"} => result.fee_quantity <= 1
<1>1. /\ t.strike \in Int /\ t.notional \in Nat /\ t.fixed_fee_per_tranche \in U64
      /\ t.is_call \in BOOLEAN /\ t.is_linear \in BOOLEAN /\ t.is_standard \in BOOLEAN
      /\ t.interest_split \in Int /\ t.cap_low \in Int /\ t.cap_high \in Int
  BY TermsAssumption, MaxU64Assumption DEF U64
<1>2. new[0] \in Int /\ new[1] \in Int
  BY FairValueIsInt
<1>3. CASE p = "lending"
  BY <1>1, <1>3, LendingConserves DEF Execute, Lending!execute
<1>4. CASE p = "lending_fee"
  BY <1>4, LendingFeeConserves DEF Execute, LendingFee!execute
<1>5. CASE p = "digital"
  BY <1>5, DigitalConserves DEF Execute, Digital!execute
<1>6. CASE p = "forward"
  BY <1>1, <1>2, <1>6, ForwardConserves DEF Execute, Forward!execute
<1>7. CASE p = "settled_forward"
  <2>1. IsValid(old, new)
    BY <1>7 DEF Execute, SettledForward!execute, SettledForward!IsValid, IsValid
  <2>2. QED
    BY <1>1, <1>2, <1>7, <2>1, ValidIsNat, SettledForwardConserves
    DEF Execute, SettledForward!execute
<1>8. CASE p = "vanilla_option"
  BY <1>8, VanillaOptionConserves DEF Execute, VanillaOption!execute
<1>9. CASE p = "fila"
  BY <1>1, <1>2, <1>9, FilaConserves DEF Execute, Fila!execute
<1>10. CASE p = "farming"
  <2>1. IsValid(old, new)
    BY <1>10 DEF Execute, Farming!execute, Farming!IsValid, IsValid
  <2>2. result \in Farming!execute_plugin(q, old[0], old[1], new[0], new[1],
                                         t.interest_split, t.cap_low, t.cap_high)
    BY <1>10 DEF Execute, Farming!execute
  <2>3. QED
    BY <1>1, <2>1, <2>2, ValidIsNat, FarmingConserves
<1>11. QED
  BY <1>3, <1>4, <1>5, <1>6, <1>7, <1>8, <1>9, <1>10, BoundsAssumption

LEMMA ExecuteReturnsU64 ==
  ASSUME NEW p \in Plugins, NEW t, NEW q, NEW old, NEW new,
         NEW result \in Execute(p, t, q, old, new)
  PROVE  result \in RedeemLogicExecuteResult
<1> USE DEF RedeemLogicExecuteResult, Quantities, U64, Tranches
<1>1. CASE p = "lending"
  BY <1>1 DEF Execute, Lending!execute, Lending!execute_plugin, Lending!Returns,
              Lending!Quantities, Lending!RedeemLogicExecuteResult, Lending!U64,
              Lending!Tranches
<1>2. CASE p = "lending_fee"
  BY <1>2 DEF Execute, LendingFee!execute, LendingFee!execute_plugin, LendingFee!Returns,
              LendingFee!ReturnsFloors, LendingFee!RedeemLogicExecuteResult,
              LendingFee!Quantities, LendingFee!U64, LendingFee!Tranches
<1>3. CASE p = "digital"
  BY <1>3 DEF Execute, Digital!execute, Digital!execute_plugin, Digital!Returns,
              Digital!ReturnsRest, Digital!RedeemLogicExecuteResult, Digital!Quantities,
              Digital!U64, Digital!Tranches
<1>4. CASE p = "forward"
  BY <1>4 DEF Execute, Forward!execute, Forward!execute_plugin, Forward!Returns,
              Forward!ReturnsFloors, Forward!RedeemLogicExecuteResult, Forward!Quantities,
              Forward!U64, Forward!Tranches
<1>5. CASE p = "settled_forward"
  BY <1>5 DEF Execute, SettledForward!execute, SettledForward!execute_plugin,
              SettledForward!Returns, SettledForward!ReturnsFloors,
              SettledForward!RedeemLogicExecuteResult, SettledForward!Quantities,
              SettledForward!U64, SettledForward!Tranches
<1>6. CASE p = "vanilla_option"
  BY <1>6 DEF Execute, VanillaOption!execute, VanillaOption!execute_plugin,
              VanillaOption!Returns, VanillaOption!ReturnsRest,
              VanillaOption!RedeemLogicExecuteResult, VanillaOption!Quantities,
              VanillaOption!U64, VanillaOption!Tranches
<1>7. CASE p = "fila"
  BY <1>7 DEF Execute, Fila!execute, Fila!execute_plugin, Fila!Returns, Fila!ReturnsFloors,
              Fila!RedeemLogicExecuteResult, Fila!Quantities, Fila!U64, Fila!Tranches
<1>8. CASE p = "farming"
  BY <1>8 DEF Execute, Farming!execute, Farming!execute_plugin, Farming!Returns,
              Farming!ReturnsFloors, Farming!RedeemLogicExecuteResult, Farming!Quantities,
              Farming!U64, Farming!Tranches
<1>9. QED
  BY <1>1, <1>2, <1>3, <1>4, <1>5, <1>6, <1>7, <1>8, BoundsAssumption

Typed ==
  /\ plugin \in Plugins
  /\ terms \in Terms
  /\ quantity \in Quantities
  /\ rate \in FairValues

LEMMA TypedHolds == Spec => []Typed
<1>1. Init => Typed
  BY BoundsAssumption, RatesAssumption
  DEF Init, Typed, Quantities, FairValues, InitFairValue
<1>2. Typed /\ [Next]_vars => Typed'
  <2>1. ASSUME Typed, NEW new \in FairValues, Refresh(new) PROVE Typed'
    <3>1. PICK result \in Execute(plugin, terms, quantity, rate, new) :
            quantity' = result.new_quantity
      BY <2>1 DEF Refresh
    <3>2. result \in RedeemLogicExecuteResult
      BY <2>1, ExecuteReturnsU64 DEF Typed
    <3>3. QED
      BY <2>1, <3>1, <3>2 DEF Refresh, Typed, RedeemLogicExecuteResult
  <2>2. Typed /\ UNCHANGED vars => Typed'
    BY DEF Typed, vars
  <2>3. QED
    BY <2>1, <2>2 DEF Next
<1>3. QED
  BY <1>1, <1>2, PTL DEF Spec

\* Refreshed at whatever rates, under whatever terms its config may hold, each plugin shares
\* out exactly what the tranches held, and those that charge no fee keep one token at most.
THEOREM PluginsShareOut == Spec => []CollateralSharedOut
<1>1. Typed => CollateralSharedOut
  BY ExecuteSharesOut DEF Typed, CollateralSharedOut, Results
<1>2. QED
  BY <1>1, TypedHolds, PTL

----------------------------------------------------------------------------
(* The plugins whose payoff is clamped to the collateral always have a result *)

\* A floor of what lies between nothing and n tokens lies there too.
LEMMA FloorWithin ==
  ASSUME NEW n \in Nat, NEW x \in Int, 0 <= x, x <= Dec(n)
  PROVE  DecFloor(x) \in 0 .. n
<1> DEFINE f == DecFloor(x)
<1>1. f \in Int /\ SCALE * f <= x /\ x < SCALE * f + SCALE
  BY FloorFact
<1>2. Dec(n) = SCALE * n
  BY ScaleAssumption DEF Dec
<1> HIDE DEF f
<1>3. f >= 0
  <2>1. SUFFICES ASSUME f <= -1 PROVE FALSE
    BY <1>1
  <2>2. SCALE * f + SCALE = SCALE * (f + 1) /\ f + 1 <= 0
    BY <1>1, <2>1, ScaleAssumption
  <2>3. SCALE * (f + 1) <= 0
    BY <1>1, <2>2, ScaleAssumption
  <2>4. SCALE * f \in Int /\ SCALE * (f + 1) \in Int /\ SCALE \in Int
    BY <1>1, ScaleAssumption
  <2>5. QED
    BY <1>1, <2>2, <2>3, <2>4
<1>4. f <= n
  <2>1. SUFFICES ASSUME f >= n + 1 PROVE FALSE
    BY <1>1
  <2>2. SCALE * f = SCALE * n + SCALE * (f - n) /\ SCALE * (f - n) >= SCALE
    BY <1>1, <2>1, ScaleAssumption
  <2>3. QED
    BY <1>1, <1>2, <2>2, ScaleAssumption
<1>5. QED
  BY <1>1, <1>3, <1>4 DEF f

LEMMA InRangeReturns ==
  ASSUME NEW new \in Quantities, NEW fee \in U64
  PROVE  Returns(new, fee) # {}
<1> DEFINE result == [new_quantity |-> new, fee_quantity |-> fee]
<1>1. result \in RedeemLogicExecuteResult
  BY DEF RedeemLogicExecuteResult
<1>2. result \in Returns(new, fee)
  BY <1>1 DEF Returns
<1>3. QED
  BY <1>2

\* Two shares of the collateral, and what they leave, are 64-bit quantities.
LEMMA SplitReturns ==
  ASSUME NEW q \in Quantities, Total(q) \in U64, NEW senior \in 0 .. Total(q),
         NEW junior \in 0 .. Total(q), senior + junior <= Total(q)
  PROVE  Returns(Split(senior, junior), Remainder(q, Split(senior, junior))) # {}
<1>1. Total(q) <= MaxU64 /\ Total(q) \in Nat
  BY MaxU64Assumption DEF U64
<1>2. Split(senior, junior) \in Quantities /\ Total(Split(senior, junior)) = senior + junior
  BY <1>1, MaxU64Assumption DEF Split, Quantities, U64, Tranches, Total
<1>3. Remainder(q, Split(senior, junior)) \in U64
  BY <1>1, <1>2, MaxU64Assumption DEF Remainder, U64
<1>4. QED
  BY <1>2, <1>3, InRangeReturns

LEMMA FloorsReturn ==
  ASSUME NEW q \in Quantities, Total(q) \in U64, NEW senior \in Int,
         0 <= senior, senior <= Dec(Total(q))
  PROVE  ReturnsFloors(q, senior, Dec(Total(q)) - senior) # {}
<1> DEFINE a == DecFloor(senior)
           b == DecFloor(Dec(Total(q)) - senior)
<1>1. Total(q) \in Nat /\ Dec(Total(q)) \in Int /\ Dec(Total(q)) = SCALE * Total(q)
  BY QuantityIsNat, ScaleAssumption DEF Dec
<1>2. Dec(Total(q)) - senior \in Int /\ 0 <= Dec(Total(q)) - senior
        /\ Dec(Total(q)) - senior <= Dec(Total(q))
  BY <1>1
<1>3. a \in 0 .. Total(q) /\ b \in 0 .. Total(q)
  BY <1>1, <1>2, FloorWithin
<1>4. SCALE * a <= senior /\ SCALE * b <= Dec(Total(q)) - senior
  BY <1>2, FloorFact
<1> HIDE DEF a, b
<1>5. a + b <= Total(q)
  <2>1. SUFFICES ASSUME a + b >= Total(q) + 1 PROVE FALSE
    BY <1>1, <1>3
  <2>2. SCALE * a + SCALE * b = SCALE * Total(q) + SCALE * (a + b - Total(q))
    BY <1>1, <1>3, ScaleAssumption
  <2>3. SCALE * (a + b - Total(q)) >= SCALE
    BY <1>1, <1>3, <2>1, ScaleAssumption
  <2>4. SCALE * a \in Int /\ SCALE * b \in Int /\ SCALE * (a + b - Total(q)) \in Int
    BY <1>1, <1>3, ScaleAssumption
  <2>5. QED
    BY <1>1, <1>4, <2>2, <2>3, <2>4, ScaleAssumption
<1>6. Returns(Split(a, b), Remainder(q, Split(a, b))) # {}
  BY <1>3, <1>5, SplitReturns
<1>7. QED
  BY <1>6 DEF ReturnsFloors, a, b

LEMMA ClampedReturn ==
  ASSUME NEW q \in Quantities, Total(q) \in U64, NEW x \in Int
  PROVE  LET senior == Lesser(Dec(Total(q)), Greater(0, x))
         IN  ReturnsFloors(q, senior, Greater(0, Dec(Total(q)) - senior)) # {}
<1> DEFINE senior == Lesser(Dec(Total(q)), Greater(0, x))
<1>1. Dec(Total(q)) \in Nat
  BY QuantityIsNat, ScaleAssumption DEF Dec
<1>2. senior \in Int /\ 0 <= senior /\ senior <= Dec(Total(q))
  BY <1>1 DEF Lesser, Greater
<1> HIDE DEF senior
<1>3. Greater(0, Dec(Total(q)) - senior) = Dec(Total(q)) - senior
  BY <1>1, <1>2 DEF Greater
<1>4. ReturnsFloors(q, senior, Greater(0, Dec(Total(q)) - senior)) # {}
  BY <1>2, <1>3, FloorsReturn
<1>5. QED
  BY <1>4 DEF senior

LEMMA RestReturns ==
  ASSUME NEW q \in Quantities, Total(q) \in U64, NEW senior \in Int,
         0 <= senior, senior <= Dec(q[1])
  PROVE  ReturnsRest(q, senior) # {}
<1> DEFINE a == DecFloor(senior)
           b == Total(q) - a
<1>1. q[0] \in Nat /\ q[1] \in Nat /\ Total(q) \in Nat /\ q[1] <= Total(q)
  BY QuantityIsNat DEF Total
<1>2. a \in 0 .. q[1]
  BY <1>1, FloorWithin
<1> HIDE DEF a
<1>3. a \in 0 .. Total(q) /\ b \in 0 .. Total(q) /\ a + b = Total(q)
  BY <1>1, <1>2
<1>4. Returns(Split(a, b), Remainder(q, Split(a, b))) # {}
  BY <1>1, <1>3, SplitReturns
<1>5. Remainder(q, Split(a, b)) = 0
  BY <1>1, <1>2 DEF Remainder, Total, Split, Tranches
<1>6. QED
  BY <1>4, <1>5 DEF ReturnsRest, a

LEMMA ForwardReturns ==
  ASSUME NEW q \in Quantities, Total(q) \in U64, NEW new \in Nat, NEW strike \in Nat,
         NEW notional \in Nat, NEW is_linear \in BOOLEAN
  PROVE  Forward!execute_plugin(q, new, strike, notional, is_linear) # {}
<1>1. CASE new = 0 /\ ~is_linear /\ strike > 0
  <2>1. Split(0, Total(q)) \in Quantities /\ 0 \in U64
    BY MaxU64Assumption DEF Split, Quantities, U64, Tranches
  <2>2. Returns(Split(0, Total(q)), 0) # {}
    BY <2>1, InRangeReturns
  <2>3. QED
    BY <1>1, <2>2 DEF Forward!execute_plugin, Forward!Returns, Returns,
                Forward!RedeemLogicExecuteResult, RedeemLogicExecuteResult,
                Forward!Quantities, Quantities, Forward!U64, U64, Forward!Tranches,
                Tranches,
                Forward!Total, Total, Forward!Split, Split
<1>2. CASE ~(new = 0 /\ ~is_linear /\ strike > 0)
  <2> DEFINE x      == Forward!Dec(q[0]) + Forward!Payoff(new, strike, notional, is_linear)
             senior == Lesser(Dec(Total(q)), Greater(0, x))
  <2>1. x \in Int
    BY QuantityIsNat, PayoffIsInt, ScaleAssumption DEF Forward!Dec
  <2>2. ReturnsFloors(q, senior, Greater(0, Dec(Total(q)) - senior)) # {}
    BY <2>1, ClampedReturn
  <2>3. Forward!execute_plugin(q, new, strike, notional, is_linear)
          = ReturnsFloors(q, senior, Greater(0, Dec(Total(q)) - senior))
    BY <1>2 DEF Forward!execute_plugin, Forward!ReturnsFloors, ReturnsFloors,
                Forward!Returns, Returns, Forward!RedeemLogicExecuteResult,
                RedeemLogicExecuteResult, Forward!Quantities, Quantities, Forward!U64, U64,
                Forward!Tranches, Tranches, Forward!Remainder, Remainder, Forward!Total,
                Total,
                Forward!Split, Split, Forward!DecFloor, DecFloor, Forward!Dec, Dec,
                Forward!Lesser, Lesser, Forward!Greater, Greater
  <2>4. QED
    BY <2>2, <2>3
<1>3. QED
  BY <1>1, <1>2

LEMMA SettledForwardReturns ==
  ASSUME NEW q \in Quantities, Total(q) \in U64, NEW new \in Nat, NEW settle \in Nat,
         NEW strike \in Nat,
         NEW notional \in Nat, NEW is_linear \in BOOLEAN, NEW is_standard \in BOOLEAN
  PROVE  SettledForward!execute_plugin(q, new, settle, strike, notional,
                                       is_linear, is_standard) # {}
<1>1. CASE new = 0 /\ ~is_linear /\ strike > 0
  <2>1. Split(0, Total(q)) \in Quantities /\ 0 \in U64
    BY MaxU64Assumption DEF Split, Quantities, U64, Tranches
  <2>2. Returns(Split(0, Total(q)), 0) # {}
    BY <2>1, InRangeReturns
  <2>3. QED
    BY <1>1, <2>2 DEF SettledForward!execute_plugin, SettledForward!Returns, Returns,
                SettledForward!RedeemLogicExecuteResult, RedeemLogicExecuteResult,
                SettledForward!Quantities, Quantities, SettledForward!U64, U64,
                SettledForward!Tranches, Tranches,
                SettledForward!Total, Total, SettledForward!Split, Split
<1>2. CASE ~(new = 0 /\ ~is_linear /\ strike > 0)
  <2> DEFINE payoff == SettledForward!DecMul(SettledForward!SettleRate(settle, is_standard),
                         SettledForward!Forward!Payoff(new, strike, notional, is_linear))
             x      == SettledForward!Dec(q[0]) + payoff
             senior == Lesser(Dec(Total(q)), Greater(0, x))
  <2>1. x \in Int
    <3>1. payoff \in Int
      BY SettledPayoffIsInt
    <3> HIDE DEF payoff
    <3>2. QED
      BY <3>1, QuantityIsNat, ScaleAssumption DEF SettledForward!Dec
  <2>2. ReturnsFloors(q, senior, Greater(0, Dec(Total(q)) - senior)) # {}
    BY <2>1, ClampedReturn
  <2>3. SettledForward!execute_plugin(q, new, settle, strike, notional,
                                        is_linear, is_standard)
          = ReturnsFloors(q, senior, Greater(0, Dec(Total(q)) - senior))
    BY <1>2 DEF SettledForward!execute_plugin, SettledForward!ReturnsFloors, ReturnsFloors,
                SettledForward!Returns, Returns, SettledForward!RedeemLogicExecuteResult,
                RedeemLogicExecuteResult, SettledForward!Quantities, Quantities,
                SettledForward!U64, U64,
                SettledForward!Tranches, Tranches, SettledForward!Remainder, Remainder,
                SettledForward!Total, Total,
                SettledForward!Split, Split, SettledForward!DecFloor, DecFloor,
                SettledForward!Dec, Dec,
                SettledForward!Lesser, Lesser, SettledForward!Greater, Greater
  <2>4. QED
    BY <2>2, <2>3
<1>3. QED
  BY <1>1, <1>2

LEMMA DigitalReturns ==
  ASSUME NEW q \in Quantities, Total(q) \in U64, NEW new, NEW strike, NEW is_call
  PROVE  Digital!execute_plugin(q, new, strike, is_call) # {}
<1> DEFINE won == IF Digital!InTheMoney(new, strike, is_call) THEN Dec(q[1]) ELSE 0
<1>1. won \in Int /\ 0 <= won /\ won <= Dec(q[1])
  BY QuantityIsNat, ScaleAssumption DEF Dec
<1>2. ReturnsRest(q, won) # {}
  BY <1>1, RestReturns
<1>3. Digital!execute_plugin(q, new, strike, is_call) = ReturnsRest(q, won)
  BY DEF Digital!execute_plugin, Digital!ReturnsRest, ReturnsRest, Digital!Returns, Returns,
         Digital!RedeemLogicExecuteResult, RedeemLogicExecuteResult, Digital!Quantities,
         Quantities, Digital!U64, U64, Digital!Tranches, Tranches, Digital!Total, Total,
         Digital!Split, Split, Digital!DecFloor, DecFloor, Digital!Dec, Dec
<1>4. QED
  BY <1>2, <1>3

LEMMA VanillaOptionReturns ==
  ASSUME NEW q \in Quantities, Total(q) \in U64, NEW new \in Nat, NEW strike \in Nat,
         NEW notional \in Nat, NEW is_call \in BOOLEAN, NEW is_linear \in BOOLEAN
  PROVE  VanillaOption!execute_plugin(q, new, strike, notional, is_call, is_linear) # {}
<1> DEFINE payoff == VanillaOption!PayoffOfOne(new, strike, is_call, is_linear)
           won    == Lesser(Dec(q[1]), notional * payoff)
<1>1. payoff \in Nat
  <2>1. VanillaOption!Intrinsic(new, strike, is_call) \in Nat
    BY DEF VanillaOption!Intrinsic, VanillaOption!Greater
  <2>2. CASE new = 0 \/ is_linear
    BY <2>1, <2>2, ScaleAssumption DEF VanillaOption!PayoffOfOne, VanillaOption!One
  <2>3. CASE ~(new = 0 \/ is_linear)
    <3>1. VanillaOption!Intrinsic(new, strike, is_call) * SCALE \in Nat /\ new \in Nat \ {0}
      BY <2>1, <2>3, ScaleAssumption
    <3>2. RoundHalfEven(VanillaOption!Intrinsic(new, strike, is_call) * SCALE, new) \in Nat
      BY <3>1, RoundingIsNat
    <3>3. QED
      BY <2>3, <3>2 DEF VanillaOption!PayoffOfOne, VanillaOption!DecDiv,
                        VanillaOption!RoundHalfEven, RoundHalfEven
  <2>4. QED
    BY <2>2, <2>3
<1> HIDE DEF payoff
<1>2. won \in Int /\ 0 <= won /\ won <= Dec(q[1])
  <2>1. notional * payoff \in Nat /\ Dec(q[1]) \in Nat
    BY <1>1, QuantityIsNat, ScaleAssumption DEF Dec
  <2>2. QED
    BY <2>1 DEF Lesser
<1>3. ReturnsRest(q, won) # {}
  BY <1>2, RestReturns
<1>4. VanillaOption!execute_plugin(q, new, strike, notional, is_call, is_linear)
        = ReturnsRest(q, won)
  BY DEF payoff, VanillaOption!execute_plugin, VanillaOption!ReturnsRest, ReturnsRest,
         VanillaOption!Returns, Returns, VanillaOption!RedeemLogicExecuteResult,
         RedeemLogicExecuteResult, VanillaOption!Quantities, Quantities, VanillaOption!U64,
         U64, VanillaOption!Tranches, Tranches, VanillaOption!Total, Total,
         VanillaOption!Split, Split, VanillaOption!DecFloor, DecFloor, VanillaOption!Dec,
         Dec,
         VanillaOption!Lesser, Lesser
<1>5. QED
  BY <1>3, <1>4

Clamped == {"forward", "settled_forward", "vanilla_option", "digital"}

\* What the terms and the deposits of a position keep for ever.
Solid ==
  /\ Typed
  /\ Accepts(plugin, terms)
  /\ Total(quantity) \in U64

LEMMA ExecuteReturns ==
  ASSUME NEW p \in Clamped, NEW t \in Terms, Accepts(p, t),
         NEW q \in Quantities, Total(q) \in U64,
         NEW old \in FairValues, NEW new \in FairValues, p # "digital" => IsValid(old, new)
  PROVE  Execute(p, t, q, old, new) # {}
<1>1. /\ t.strike \in Int /\ t.notional \in Nat
      /\ t.is_call \in BOOLEAN /\ t.is_linear \in BOOLEAN /\ t.is_standard \in BOOLEAN
  BY TermsAssumption, MaxU64Assumption DEF U64
<1>2. CASE p = "digital"
  BY <1>2, DigitalReturns DEF Execute, Digital!execute
<1>3. p # "digital" => new[0] \in Nat /\ new[1] \in Nat
  BY ValidIsNat
<1>4. CASE p = "forward"
  <2>1. t.strike \in Nat
    BY <1>1, <1>4 DEF Accepts, Forward!initialize
  <2>2. Forward!execute_plugin(q, new[0], t.strike, t.notional, t.is_linear) # {}
    BY <1>1, <1>3, <1>4, <2>1, ForwardReturns
  <2>3. QED
    BY <1>4, <2>2 DEF Execute, Forward!execute, Forward!IsValid, IsValid
<1>5. CASE p = "settled_forward"
  <2>1. t.strike \in Nat
    BY <1>1, <1>5 DEF Accepts, SettledForward!initialize
  <2>2. SettledForward!execute_plugin(q, new[0], new[1], t.strike, t.notional, t.is_linear,
                                      t.is_standard) # {}
    BY <1>1, <1>3, <1>5, <2>1, SettledForwardReturns
  <2>3. QED
    BY <1>5, <2>2 DEF Execute, SettledForward!execute, SettledForward!IsValid, IsValid
<1>6. CASE p = "vanilla_option"
  <2>1. t.strike \in Nat
    BY <1>1, <1>6 DEF Accepts, VanillaOption!initialize
  <2>2. VanillaOption!execute_plugin(q, new[0], t.strike, t.notional, t.is_call,
                                     t.is_linear) # {}
    BY <1>1, <1>3, <1>6, <2>1, VanillaOptionReturns
  <2>3. QED
    BY <1>6, <2>2 DEF Execute, VanillaOption!execute, VanillaOption!IsValid, IsValid
<1>7. QED
  BY <1>2, <1>4, <1>5, <1>6 DEF Clamped

LEMMA NextKeepsSolid == Solid /\ Typed' /\ [Next]_vars => Solid'
<1> SUFFICES ASSUME Solid, Typed', [Next]_vars PROVE Solid'
  OBVIOUS
<1>1. ASSUME NEW new \in FairValues, Refresh(new) PROVE Total(quantity') \in U64
  <2>1. PICK result \in Execute(plugin, terms, quantity, rate, new) :
          quantity' = result.new_quantity
    BY <1>1 DEF Refresh
  <2>2. Conserves(quantity, result)
    BY <2>1, ExecuteSharesOut DEF Solid, Typed
  <2>3. result.fee_quantity \in U64
    BY <2>1, ExecuteReturnsU64 DEF Solid, Typed, RedeemLogicExecuteResult
  <2>4. Total(quantity') \in Nat
    BY QuantityIsNat DEF Typed
  <2>5. QED
    BY <2>1, <2>2, <2>3, <2>4, MaxU64Assumption DEF Solid, Conserves, U64
<1>2. plugin' = plugin /\ terms' = terms /\ Total(quantity') \in U64
  BY <1>1 DEF Next, Refresh, vars, Solid
<1>3. Accepts(plugin', terms')
  BY <1>2 DEF Solid
<1>4. QED
  BY <1>2, <1>3 DEF Solid, Accepts

\* Forwards, options and digitals, whose payoff is clamped to the collateral, always have an
\* answer, at every rate that is not negative and whatever refreshes came before, as long as
\* what the tranches hold at first fits 64 bits together.
THEOREM ClampedNeverBlocked ==
  ASSUME Plugins \subseteq Clamped, \A q \in [Tranches -> Deposits] : Total(q) \in U64
  PROVE  Spec => []RefreshNeverBlocked
<1>1. Init /\ Typed => Solid
  BY DEF Init, Solid
<1>2. Solid => RefreshNeverBlocked
  BY ExecuteReturns DEF Solid, Typed, RefreshNeverBlocked, Results
<1>3. QED
  BY <1>1, <1>2, NextKeepsSolid, TypedHolds, PTL DEF Spec

----------------------------------------------------------------------------
(* The senior quantity of the payoffs that follow a rate *)

\* What the long side holds after a payoff, clamped to the collateral.
Clamp(q, payoff) == Lesser(Dec(Total(q)), Greater(0, Dec(q[0]) + payoff))

LEMMA SeniorOfFloors ==
  ASSUME NEW q, NEW senior, NEW junior, NEW result \in ReturnsFloors(q, senior, junior)
  PROVE  result.new_quantity[0] = DecFloor(senior)
         /\ result.new_quantity[1] = DecFloor(junior)
BY DEF ReturnsFloors, Returns, Split, Tranches

LEMMA SeniorOfRest ==
  ASSUME NEW q, NEW senior, NEW result \in ReturnsRest(q, senior)
  PROVE  result.new_quantity[0] = DecFloor(senior)
BY DEF ReturnsRest, Returns, Split, Tranches

LEMMA ForwardSenior ==
  ASSUME NEW q \in Quantities, NEW new \in Nat, NEW strike \in Nat, NEW notional \in Nat,
         NEW is_linear \in BOOLEAN,
         NEW result \in Forward!execute_plugin(q, new, strike, notional, is_linear)
  PROVE  result.new_quantity[0] =
           IF new = 0 /\ ~is_linear /\ strike > 0 THEN 0
           ELSE DecFloor(Clamp(q, Forward!Payoff(new, strike, notional, is_linear)))
<1>1. CASE new = 0 /\ ~is_linear /\ strike > 0
  BY <1>1 DEF Forward!execute_plugin, Forward!Returns, Forward!Split, Forward!Tranches
<1>2. CASE ~(new = 0 /\ ~is_linear /\ strike > 0)
  <2> DEFINE senior == Clamp(q, Forward!Payoff(new, strike, notional, is_linear))
  <2>1. result \in ReturnsFloors(q, senior, Greater(0, Dec(Total(q)) - senior))
    BY <1>2 DEF Clamp, Forward!execute_plugin, Forward!ReturnsFloors, ReturnsFloors,
                Forward!Returns, Returns, Forward!RedeemLogicExecuteResult,
                RedeemLogicExecuteResult, Forward!Quantities, Quantities, Forward!U64, U64,
                Forward!Tranches, Tranches, Forward!Remainder, Remainder, Forward!Total,
                Total, Forward!Split, Split, Forward!DecFloor, DecFloor, Forward!Dec, Dec,
                Forward!Lesser, Lesser, Forward!Greater, Greater
  <2>2. QED
    BY <1>2, <2>1, SeniorOfFloors
<1>3. QED
  BY <1>1, <1>2

LEMMA SettledSenior ==
  ASSUME NEW q \in Quantities, NEW new \in Nat, NEW settle \in Nat, NEW strike \in Nat,
         NEW notional \in Nat, NEW is_linear \in BOOLEAN, NEW is_standard \in BOOLEAN,
         NEW result \in SettledForward!execute_plugin(q, new, settle, strike, notional,
                                                      is_linear, is_standard)
  PROVE  result.new_quantity[0] =
           IF new = 0 /\ ~is_linear /\ strike > 0 THEN 0
           ELSE DecFloor(Clamp(q, DecMul(SettledForward!SettleRate(settle, is_standard),
                                         Forward!Payoff(new, strike, notional, is_linear))))
<1>1. CASE new = 0 /\ ~is_linear /\ strike > 0
  BY <1>1 DEF SettledForward!execute_plugin, SettledForward!Returns,
              SettledForward!Split, SettledForward!Tranches
<1>2. CASE ~(new = 0 /\ ~is_linear /\ strike > 0)
  <2> DEFINE payoff == SettledForward!DecMul(SettledForward!SettleRate(settle, is_standard),
                         SettledForward!Forward!Payoff(new, strike, notional, is_linear))
             senior == Clamp(q, payoff)
  <2>1. result \in ReturnsFloors(q, senior, Greater(0, Dec(Total(q)) - senior))
    BY <1>2 DEF Clamp, SettledForward!execute_plugin, SettledForward!ReturnsFloors,
                ReturnsFloors, SettledForward!Returns, Returns,
                SettledForward!RedeemLogicExecuteResult, RedeemLogicExecuteResult,
                SettledForward!Quantities, Quantities, SettledForward!U64, U64,
                SettledForward!Tranches, Tranches, SettledForward!Remainder, Remainder,
                SettledForward!Total, Total, SettledForward!Split, Split,
                SettledForward!DecFloor, DecFloor, SettledForward!Dec, Dec,
                SettledForward!Lesser, Lesser, SettledForward!Greater, Greater
  <2>2. payoff = DecMul(SettledForward!SettleRate(settle, is_standard),
                        Forward!Payoff(new, strike, notional, is_linear))
    BY DEF SettledForward!DecMul, DecMul, SettledForward!RoundHalfEven, RoundHalfEven,
           SettledForward!Forward!Payoff, Forward!Payoff, SettledForward!Forward!Dec,
           Forward!Dec, SettledForward!Forward!DecDiv, Forward!DecDiv,
           SettledForward!Forward!RoundHalfEven, Forward!RoundHalfEven
  <2> HIDE DEF payoff
  <2>3. QED
    BY <1>2, <2>1, <2>2, SeniorOfFloors
<1>3. QED
  BY <1>1, <1>2

LEMMA VanillaSenior ==
  ASSUME NEW q \in Quantities, NEW new, NEW strike, NEW notional, NEW is_call,
         NEW is_linear,
         NEW result \in VanillaOption!execute_plugin(q, new, strike, notional,
                                                     is_call, is_linear)
  PROVE  result.new_quantity[0] =
           DecFloor(Lesser(Dec(q[1]),
             notional * VanillaOption!PayoffOfOne(new, strike, is_call, is_linear)))
<1> DEFINE won == Lesser(Dec(q[1]),
                    notional * VanillaOption!PayoffOfOne(new, strike, is_call, is_linear))
<1>1. result \in ReturnsRest(q, won)
  BY DEF VanillaOption!execute_plugin, VanillaOption!ReturnsRest, ReturnsRest,
         VanillaOption!Returns, Returns, VanillaOption!RedeemLogicExecuteResult,
         RedeemLogicExecuteResult, VanillaOption!Quantities, Quantities, VanillaOption!U64,
         U64, VanillaOption!Tranches, Tranches, VanillaOption!Total, Total,
         VanillaOption!Split, Split, VanillaOption!DecFloor, DecFloor, VanillaOption!Dec,
         Dec, VanillaOption!Lesser, Lesser
<1>2. QED
  BY <1>1, SeniorOfRest

LEMMA DigitalSenior ==
  ASSUME NEW q \in Quantities, NEW new, NEW strike, NEW is_call,
         NEW result \in Digital!execute_plugin(q, new, strike, is_call)
  PROVE  result.new_quantity[0] =
           DecFloor(IF Digital!InTheMoney(new, strike, is_call) THEN Dec(q[1]) ELSE 0)
<1> DEFINE won == IF Digital!InTheMoney(new, strike, is_call) THEN Dec(q[1]) ELSE 0
<1>1. result \in ReturnsRest(q, won)
  BY DEF Digital!execute_plugin, Digital!ReturnsRest, ReturnsRest, Digital!Returns, Returns,
         Digital!RedeemLogicExecuteResult, RedeemLogicExecuteResult, Digital!Quantities,
         Quantities, Digital!U64, U64, Digital!Tranches, Tranches, Digital!Total, Total,
         Digital!Split, Split, Digital!DecFloor, DecFloor, Digital!Dec, Dec
<1>2. QED
  BY <1>1, SeniorOfRest

LEMMA ClampMonotone ==
  ASSUME NEW q \in Quantities, NEW x \in Int, NEW y \in Int, x <= y
  PROVE  0 <= DecFloor(Clamp(q, x)) /\ DecFloor(Clamp(q, x)) <= DecFloor(Clamp(q, y))
<1>1. /\ Clamp(q, x) \in Int /\ Clamp(q, y) \in Int /\ Clamp(q, x) <= Clamp(q, y)
      /\ 0 <= Clamp(q, x) /\ Clamp(q, x) <= Dec(Total(q))
  BY QuantityIsNat, ScaleAssumption DEF Clamp, Dec, Lesser, Greater
<1>2. DecFloor(Clamp(q, x)) \in 0 .. Total(q)
  BY <1>1, QuantityIsNat, FloorWithin
<1>3. QED
  BY <1>1, <1>2, FloorMonotone

\* A forward pays its long side more at a higher rate, rounded quotient or not.
LEMMA ForwardPayoffGrows ==
  ASSUME NEW low \in Nat, NEW high \in Nat, low <= high, NEW strike \in Nat,
         NEW notional \in Nat, NEW is_linear \in BOOLEAN,
         ~(low = 0 /\ ~is_linear /\ strike > 0)
  PROVE  Forward!Payoff(low, strike, notional, is_linear)
           <= Forward!Payoff(high, strike, notional, is_linear)
<1>1. CASE is_linear
  <2>1. notional * (low - strike) <= notional * (high - strike)
    BY SMT
  <2>2. QED
    BY <1>1, <2>1 DEF Forward!Payoff
<1>2. CASE ~is_linear /\ low = 0
  <2>1. strike = 0
    BY <1>2
  <2>2. CASE high = 0
    BY <1>2, <2>2, ScaleAssumption DEF Forward!Payoff, Forward!Dec
  <2>3. CASE high # 0
    <3>1. RoundHalfEven((notional * SCALE) * high, high) = notional * SCALE
      BY <2>3, ScaleAssumption, RoundingExact
    <3>2. notional * (high - 0) * SCALE = (notional * SCALE) * high
      BY ScaleAssumption
    <3>3. Forward!Payoff(high, strike, notional, is_linear) = notional * SCALE
      BY <1>2, <2>1, <2>3, <3>1, <3>2
      DEF Forward!Payoff, Forward!DecDiv, Forward!RoundHalfEven, RoundHalfEven
    <3>4. QED
      BY <1>2, <3>3, ScaleAssumption DEF Forward!Payoff, Forward!Dec
  <2>4. QED
    BY <2>2, <2>3
<1>3. CASE ~is_linear /\ low # 0
  <2> DEFINE a == notional * (low - strike) * SCALE
             b == notional * (high - strike) * SCALE
  <2>1. a \in Int /\ b \in Int /\ low \in Nat \ {0} /\ high \in Nat \ {0}
    BY <1>3, ScaleAssumption
  <2>2. a * high <= b * low
    <3>1. b * low - a * high = (notional * SCALE) * (strike * (high - low))
      BY ScaleAssumption, SMTT(30)
    <3>2. strike * (high - low) \in Nat /\ notional * SCALE \in Nat
      BY ScaleAssumption
    <3>3. (notional * SCALE) * (strike * (high - low)) \in Nat
      BY <3>2
    <3>4. a * high \in Int /\ b * low \in Int
      BY <2>1
    <3> HIDE DEF a, b
    <3>5. QED
      BY <3>1, <3>3, <3>4
  <2>3. RoundHalfEven(a, low) <= RoundHalfEven(b, high)
    <3> HIDE DEF a, b
    <3>1. QED
      BY <2>1, <2>2, RoundingMonotone
  <2>4. QED
    BY <1>3, <2>1, <2>3
    DEF Forward!Payoff, Forward!DecDiv, Forward!RoundHalfEven, RoundHalfEven
<1>4. QED
  BY <1>1, <1>2, <1>3

LEMMA SettleRateIsNat ==
  ASSUME NEW settle \in Nat, NEW is_standard \in BOOLEAN
  PROVE  SettledForward!SettleRate(settle, is_standard) \in Nat
<1>1. CASE is_standard \/ settle = 0
  BY <1>1 DEF SettledForward!SettleRate
<1>2. CASE ~(is_standard \/ settle = 0)
  <2>1. RoundHalfEven(SCALE * SCALE, settle) \in Nat
    BY <1>2, RoundingIsNat, ScaleAssumption
  <2>2. QED
    BY <1>2, <2>1 DEF SettledForward!SettleRate, SettledForward!DecDiv,
                      SettledForward!One, SettledForward!RoundHalfEven, RoundHalfEven
<1>3. QED
  BY <1>1, <1>2

\* So does one that is settled at a rate that is not negative.
LEMMA SettledPayoffGrows ==
  ASSUME NEW x \in Int, NEW y \in Int, x <= y, NEW settle \in Nat,
         NEW is_standard \in BOOLEAN
  PROVE  DecMul(SettledForward!SettleRate(settle, is_standard), x)
           <= DecMul(SettledForward!SettleRate(settle, is_standard), y)
<1> DEFINE s == SettledForward!SettleRate(settle, is_standard)
<1>1. s \in Nat
  BY SettleRateIsNat
<1> HIDE DEF s
<1>2. s * x \in Int /\ s * y \in Int /\ s * x <= s * y
  BY <1>1
<1>3. (s * x) * SCALE <= (s * y) * SCALE
  BY <1>2, ScaleAssumption
<1>4. RoundHalfEven(s * x, SCALE) <= RoundHalfEven(s * y, SCALE)
  BY <1>2, <1>3, RoundingMonotone, ScaleAssumption
<1>5. QED
  BY <1>4 DEF DecMul, s

LEMMA IntrinsicIsNat ==
  ASSUME NEW spot \in Nat, NEW strike \in Nat, NEW is_call \in BOOLEAN
  PROVE  VanillaOption!Intrinsic(spot, strike, is_call) \in Nat
BY DEF VanillaOption!Intrinsic, VanillaOption!Greater

LEMMA PayoffOfOneIsNat ==
  ASSUME NEW spot \in Nat, NEW strike \in Nat, NEW is_call \in BOOLEAN,
         NEW is_linear \in BOOLEAN
  PROVE  VanillaOption!PayoffOfOne(spot, strike, is_call, is_linear) \in Nat
<1>1. CASE spot = 0 \/ is_linear
  BY <1>1, IntrinsicIsNat, ScaleAssumption DEF VanillaOption!PayoffOfOne, VanillaOption!One
<1>2. CASE ~(spot = 0 \/ is_linear)
  <2>1. RoundHalfEven(VanillaOption!Intrinsic(spot, strike, is_call) * SCALE, spot) \in Nat
    BY <1>2, IntrinsicIsNat, RoundingIsNat, ScaleAssumption
  <2>2. QED
    BY <1>2, <2>1 DEF VanillaOption!PayoffOfOne, VanillaOption!DecDiv,
                      VanillaOption!RoundHalfEven, RoundHalfEven
<1>3. QED
  BY <1>1, <1>2

LEMMA InverseOptionRatio ==
  ASSUME NEW spot \in Nat \ {0}, NEW strike \in Nat, NEW is_call \in BOOLEAN
  PROVE  VanillaOption!PayoffOfOne(spot, strike, is_call, FALSE)
           = RoundHalfEven(VanillaOption!Intrinsic(spot, strike, is_call) * SCALE, spot)
BY DEF VanillaOption!PayoffOfOne, VanillaOption!DecDiv, VanillaOption!RoundHalfEven,
       RoundHalfEven

\* A call is worth more at a higher rate.
LEMMA CallGrows ==
  ASSUME NEW low \in Nat, NEW high \in Nat, low <= high, NEW strike \in Nat,
         NEW is_linear \in BOOLEAN, NEW is_call \in BOOLEAN, is_call = TRUE
  PROVE  VanillaOption!PayoffOfOne(low, strike, is_call, is_linear)
           <= VanillaOption!PayoffOfOne(high, strike, is_call, is_linear)
<1> DEFINE i == VanillaOption!Intrinsic(low, strike, is_call)
           j == VanillaOption!Intrinsic(high, strike, is_call)
<1>1. /\ i \in Nat /\ j \in Nat /\ i <= j
      /\ low >= strike => i = low - strike
      /\ low < strike => i = 0
      /\ high >= strike => j = high - strike
  BY DEF VanillaOption!Intrinsic, VanillaOption!Greater
<1> HIDE DEF i, j
<1>2. CASE is_linear
  BY <1>1, <1>2 DEF i, j, VanillaOption!PayoffOfOne
<1>3. CASE ~is_linear /\ low = 0 /\ (strike # 0 \/ high = 0)
  <2>1. CASE high = 0
    BY <1>3, <2>1, ScaleAssumption DEF VanillaOption!PayoffOfOne, VanillaOption!One
  <2>2. CASE strike # 0
    <3> DEFINE x == VanillaOption!PayoffOfOne(low, strike, is_call, is_linear)
               y == VanillaOption!PayoffOfOne(high, strike, is_call, is_linear)
    <3>1. x = 0
      BY <1>3, <2>2 DEF VanillaOption!PayoffOfOne
    <3>2. y \in Nat
      BY PayoffOfOneIsNat
    <3> HIDE DEF x, y
    <3>3. x <= y
      BY <3>1, <3>2
    <3>4. QED
      BY <3>3 DEF x, y
  <2>3. QED
    BY <1>3, <2>1, <2>2
<1>4. CASE ~is_linear /\ low = 0 /\ strike = 0 /\ high # 0
  <2>1. RoundHalfEven(SCALE * high, high) = SCALE
    BY <1>4, RoundingExact, ScaleAssumption
  <2>2. j * SCALE = SCALE * high
    BY <1>1, <1>4, ScaleAssumption
  <2>3. VanillaOption!PayoffOfOne(high, strike, is_call, is_linear) = SCALE
    BY <1>4, <2>1, <2>2, InverseOptionRatio DEF j
  <2>4. VanillaOption!PayoffOfOne(low, strike, is_call, is_linear) = SCALE
    BY <1>4 DEF VanillaOption!PayoffOfOne, VanillaOption!One
  <2>5. QED
    BY <2>3, <2>4, ScaleAssumption
<1>5. CASE ~is_linear /\ low # 0
  <2>1. i * SCALE \in Int /\ j * SCALE \in Int /\ low \in Nat \ {0} /\ high \in Nat \ {0}
    BY <1>1, <1>5, ScaleAssumption
  <2>2. (i * SCALE) * high <= (j * SCALE) * low
    <3>1. j * low - i * high \in Nat
      <4>1. CASE low >= strike
        <5>1. j * low - i * high = strike * (high - low)
          BY <1>1, <4>1
        <5>2. QED
          BY <5>1
      <4>2. CASE ~(low >= strike)
        BY <1>1, <4>2
      <4>3. QED
        BY <4>1, <4>2
    <3>2. (j * SCALE) * low - (i * SCALE) * high = SCALE * (j * low - i * high)
      BY <1>1, ScaleAssumption
    <3>3. SCALE * (j * low - i * high) \in Nat
      BY <3>1, ScaleAssumption
    <3>4. (j * SCALE) * low \in Int /\ (i * SCALE) * high \in Int
      BY <2>1
    <3>5. QED
      BY <3>2, <3>3, <3>4
  <2>3. RoundHalfEven(i * SCALE, low) <= RoundHalfEven(j * SCALE, high)
    BY <2>1, <2>2, RoundingMonotone
  <2>4. QED
    BY <1>5, <2>1, <2>3, InverseOptionRatio DEF i, j
<1>6. QED
  BY <1>2, <1>3, <1>4, <1>5, Zenon

\* A put is worth less at a higher rate, but for an inverse one at a rate of zero.
LEMMA PutShrinks ==
  ASSUME NEW low \in Nat, NEW high \in Nat, low <= high, NEW strike \in Nat,
         NEW is_linear \in BOOLEAN, ~(~is_linear /\ low = 0),
         NEW is_call \in BOOLEAN, ~is_call
  PROVE  VanillaOption!PayoffOfOne(high, strike, is_call, is_linear)
           <= VanillaOption!PayoffOfOne(low, strike, is_call, is_linear)
<1> DEFINE i == VanillaOption!Intrinsic(low, strike, is_call)
           j == VanillaOption!Intrinsic(high, strike, is_call)
<1>1. i \in Nat /\ j \in Nat /\ j <= i
  BY DEF VanillaOption!Intrinsic, VanillaOption!Greater
<1>2. CASE is_linear
  BY <1>1, <1>2 DEF VanillaOption!PayoffOfOne
<1>3. CASE ~is_linear
  <2>1. i * SCALE \in Nat /\ j * SCALE \in Nat /\ low \in Nat \ {0} /\ high \in Nat \ {0}
          /\ j * SCALE <= i * SCALE
    BY <1>1, <1>3, ScaleAssumption
  <2>2. (j * SCALE) * low <= (i * SCALE) * high
    <3> HIDE DEF i, j
    <3>1. (j * SCALE) * low <= (i * SCALE) * low /\ (i * SCALE) * low <= (i * SCALE) * high
      BY <2>1
    <3>2. /\ (j * SCALE) * low \in Int /\ (i * SCALE) * low \in Int
          /\ (i * SCALE) * high \in Int
      BY <2>1
    <3>3. QED
      BY <3>1, <3>2
  <2>3. RoundHalfEven(j * SCALE, high) <= RoundHalfEven(i * SCALE, low)
    BY <2>1, <2>2, RoundingMonotone
  <2>4. QED
    BY <1>3, <2>1, <2>3, InverseOptionRatio
<1>4. QED
  BY <1>2, <1>3

LEMMA CoverMonotone ==
  ASSUME NEW n \in Nat, NEW notional \in Nat, NEW x \in Nat, NEW y \in Nat, x <= y
  PROVE  DecFloor(Lesser(Dec(n), notional * x)) <= DecFloor(Lesser(Dec(n), notional * y))
<1>1. notional * x \in Nat /\ notional * y \in Nat /\ notional * x <= notional * y
        /\ Dec(n) \in Nat
  BY ScaleAssumption DEF Dec
<1>2. /\ Lesser(Dec(n), notional * x) \in Int /\ Lesser(Dec(n), notional * y) \in Int
      /\ Lesser(Dec(n), notional * x) <= Lesser(Dec(n), notional * y)
  BY <1>1 DEF Lesser
<1>3. QED
  BY <1>2, FloorMonotone

\* What holds of a position for ever, whatever its deposits.
Termed == Typed /\ Accepts(plugin, terms)

LEMMA TermedHolds == Spec => []Termed
<1>1. Init /\ Typed => Termed
  BY DEF Init, Termed
<1>2. Termed /\ Typed' /\ [Next]_vars => Termed'
  <2> SUFFICES ASSUME Termed, Typed', [Next]_vars PROVE Termed'
    OBVIOUS
  <2>1. plugin' = plugin /\ terms' = terms
    BY DEF Next, Refresh, vars
  <2>2. QED
    BY <2>1 DEF Termed, Accepts
<1>3. QED
  BY <1>1, <1>2, TypedHolds, PTL DEF Spec

LEMMA TermTypes ==
  ASSUME NEW t \in Terms
  PROVE  /\ t.strike \in Int /\ t.notional \in Nat
         /\ t.is_call \in BOOLEAN /\ t.is_linear \in BOOLEAN /\ t.is_standard \in BOOLEAN
         /\ t.interest_split \in Int /\ t.mgmt_fee \in Int /\ t.perf_fee \in Int
         /\ t.fixed_fee_per_tranche \in Nat
BY TermsAssumption, MaxU64Assumption DEF U64

\* A plugin other than the digital answers only to rates that are not negative, and stores
\* only a strike that is not.
LEMMA ForwardInputs ==
  ASSUME NEW t \in Terms, Accepts("forward", t), NEW q, NEW old \in FairValues,
         NEW new \in FairValues, NEW result \in Execute("forward", t, q, old, new)
  PROVE  /\ t.strike \in Nat /\ new[0] \in Nat
         /\ result \in Forward!execute_plugin(q, new[0], t.strike, t.notional, t.is_linear)
<1>1. IsValid(old, new)
  BY DEF Execute, Forward!execute, Forward!IsValid, IsValid
<1>2. QED
  BY <1>1, ValidIsNat, TermTypes DEF Execute, Accepts, Forward!execute, Forward!initialize

LEMMA SettledInputs ==
  ASSUME NEW t \in Terms, Accepts("settled_forward", t), NEW q, NEW old \in FairValues,
         NEW new \in FairValues, NEW result \in Execute("settled_forward", t, q, old, new)
  PROVE  /\ t.strike \in Nat /\ new[0] \in Nat /\ new[1] \in Nat
         /\ result \in SettledForward!execute_plugin(q, new[0], new[1], t.strike,
                         t.notional, t.is_linear, t.is_standard)
<1>1. IsValid(old, new)
  BY DEF Execute, SettledForward!execute, SettledForward!IsValid, IsValid
<1>2. QED
  BY <1>1, ValidIsNat, TermTypes
  DEF Execute, Accepts, SettledForward!execute, SettledForward!initialize

LEMMA VanillaInputs ==
  ASSUME NEW t \in Terms, Accepts("vanilla_option", t), NEW q, NEW old \in FairValues,
         NEW new \in FairValues, NEW result \in Execute("vanilla_option", t, q, old, new)
  PROVE  /\ t.strike \in Nat /\ new[0] \in Nat
         /\ result \in VanillaOption!execute_plugin(q, new[0], t.strike, t.notional,
                         t.is_call, t.is_linear)
<1>1. IsValid(old, new)
  BY DEF Execute, VanillaOption!execute, VanillaOption!IsValid, IsValid
<1>2. QED
  BY <1>1, ValidIsNat, TermTypes
  DEF Execute, Accepts, VanillaOption!execute, VanillaOption!initialize

LEMMA ForwardFollowsRate ==
  ASSUME NEW t \in Terms, Accepts("forward", t), NEW q \in Quantities,
         NEW old \in FairValues, NEW low \in FairValues, NEW high \in FairValues,
         low[0] <= high[0],
         NEW l \in Execute("forward", t, q, old, low),
         NEW h \in Execute("forward", t, q, old, high)
  PROVE  l.new_quantity[0] <= h.new_quantity[0]
<1> DEFINE x == Forward!Payoff(low[0], t.strike, t.notional, t.is_linear)
           y == Forward!Payoff(high[0], t.strike, t.notional, t.is_linear)
<1>1. /\ t.strike \in Nat /\ low[0] \in Nat /\ high[0] \in Nat
      /\ l \in Forward!execute_plugin(q, low[0], t.strike, t.notional, t.is_linear)
      /\ h \in Forward!execute_plugin(q, high[0], t.strike, t.notional, t.is_linear)
  BY ForwardInputs
<1>2. t.notional \in Nat /\ t.is_linear \in BOOLEAN
  BY TermTypes
<1>3. x \in Int /\ y \in Int
  BY <1>1, <1>2, PayoffIsInt
<1>4. CASE low[0] = 0 /\ ~t.is_linear /\ t.strike > 0
  <2>1. l.new_quantity[0] = 0
    BY <1>1, <1>2, <1>4, ForwardSenior
  <2>2. 0 <= DecFloor(Clamp(q, y))
    BY <1>3, ClampMonotone
  <2>3. h.new_quantity[0] = 0 \/ h.new_quantity[0] = DecFloor(Clamp(q, y))
    BY <1>1, <1>2, ForwardSenior
  <2>4. QED
    BY <2>1, <2>2, <2>3
<1>5. CASE ~(low[0] = 0 /\ ~t.is_linear /\ t.strike > 0)
  <2>1. ~(high[0] = 0 /\ ~t.is_linear /\ t.strike > 0)
    BY <1>1, <1>5
  <2>2. x <= y
    BY <1>1, <1>2, <1>5, ForwardPayoffGrows
  <2>3. l.new_quantity[0] = DecFloor(Clamp(q, x))
    BY <1>1, <1>2, <1>5, ForwardSenior
  <2>4. h.new_quantity[0] = DecFloor(Clamp(q, y))
    BY <1>1, <1>2, <2>1, ForwardSenior
  <2>5. DecFloor(Clamp(q, x)) <= DecFloor(Clamp(q, y))
    BY <1>3, <2>2, ClampMonotone
  <2>6. QED
    BY <2>3, <2>4, <2>5
<1>6. QED
  BY <1>4, <1>5

LEMMA SettledQuantity ==
  ASSUME NEW t \in Terms, Accepts("settled_forward", t), NEW q \in Quantities,
         NEW old \in FairValues, NEW new \in FairValues,
         NEW result \in Execute("settled_forward", t, q, old, new)
  PROVE  LET payoff == DecMul(SettledForward!SettleRate(new[1], t.is_standard),
                              Forward!Payoff(new[0], t.strike, t.notional, t.is_linear))
             unbounded == new[0] = 0 /\ ~t.is_linear /\ t.strike > 0
         IN  \/ unbounded /\ result.new_quantity[0] = 0
             \/ ~unbounded /\ result.new_quantity[0] = DecFloor(Clamp(q, payoff))
<1> DEFINE linear == t.is_linear
           standard == t.is_standard
           strike == t.strike
           notional == t.notional
           rate0 == new[0]
           settled == new[1]
<1>1. /\ rate0 \in Nat /\ settled \in Nat /\ strike \in Nat /\ notional \in Nat
      /\ linear \in BOOLEAN /\ standard \in BOOLEAN
      /\ result \in SettledForward!execute_plugin(q, rate0, settled, strike, notional,
                                                  linear, standard)
  BY SettledInputs, TermTypes
<1> HIDE DEF linear, standard, strike, notional, rate0, settled
<1>2. result.new_quantity[0] =
        IF rate0 = 0 /\ ~linear /\ strike > 0 THEN 0
        ELSE DecFloor(Clamp(q, DecMul(SettledForward!SettleRate(settled, standard),
                                      Forward!Payoff(rate0, strike, notional, linear))))
  BY <1>1, SettledSenior
<1>3. QED
  BY <1>2, Zenon DEF linear, standard, strike, notional, rate0, settled

LEMMA SettledFollowsRate ==
  ASSUME NEW t \in Terms, Accepts("settled_forward", t), NEW q \in Quantities,
         NEW old \in FairValues, NEW low \in FairValues, NEW high \in FairValues,
         low[0] <= high[0], low[1] = high[1],
         NEW l \in Execute("settled_forward", t, q, old, low),
         NEW h \in Execute("settled_forward", t, q, old, high)
  PROVE  l.new_quantity[0] <= h.new_quantity[0]
<1> DEFINE settle == SettledForward!SettleRate(low[1], t.is_standard)
           x == Forward!Payoff(low[0], t.strike, t.notional, t.is_linear)
           y == Forward!Payoff(high[0], t.strike, t.notional, t.is_linear)
           u == DecMul(settle, x)
           v == DecMul(settle, y)
<1>1. /\ t.strike \in Nat /\ low[0] \in Nat /\ high[0] \in Nat /\ low[1] \in Nat
      /\ l \in SettledForward!execute_plugin(q, low[0], low[1], t.strike, t.notional,
                 t.is_linear, t.is_standard)
      /\ h \in SettledForward!execute_plugin(q, high[0], low[1], t.strike, t.notional,
                 t.is_linear, t.is_standard)
  BY SettledInputs
<1>2. t.notional \in Nat /\ t.is_linear \in BOOLEAN /\ t.is_standard \in BOOLEAN
  BY TermTypes
<1>3. x \in Int /\ y \in Int
  BY <1>1, <1>2, PayoffIsInt
<1>4. u \in Int /\ v \in Int
  <2>1. settle \in Int
    BY <1>1, <1>2, SettleRateIsNat
  <2> HIDE DEF settle, x, y
  <2>2. settle * x \in Int /\ settle * y \in Int
    BY <1>3, <2>1
  <2>3. QED
    BY <2>2, RoundingError, ScaleAssumption DEF DecMul
<1>5. \/ low[0] = 0 /\ ~t.is_linear /\ t.strike > 0 /\ l.new_quantity[0] = 0
      \/ /\ ~(low[0] = 0 /\ ~t.is_linear /\ t.strike > 0)
         /\ l.new_quantity[0] = DecFloor(Clamp(q, u))
  BY SettledQuantity, Zenon
<1>6. \/ high[0] = 0 /\ ~t.is_linear /\ t.strike > 0 /\ h.new_quantity[0] = 0
      \/ /\ ~(high[0] = 0 /\ ~t.is_linear /\ t.strike > 0)
         /\ h.new_quantity[0] = DecFloor(Clamp(q, v))
  <2> DEFINE w == DecMul(SettledForward!SettleRate(high[1], t.is_standard), y)
  <2>1. \/ high[0] = 0 /\ ~t.is_linear /\ t.strike > 0 /\ h.new_quantity[0] = 0
        \/ /\ ~(high[0] = 0 /\ ~t.is_linear /\ t.strike > 0)
           /\ h.new_quantity[0] = DecFloor(Clamp(q, w))
    BY SettledQuantity, Zenon
  <2>2. v = w
    BY Zenon
  <2> HIDE DEF v, w
  <2>3. QED
    BY <2>1, <2>2
<1>7. CASE low[0] = 0 /\ ~t.is_linear /\ t.strike > 0
  <2>1. l.new_quantity[0] = 0
    BY <1>5, <1>7
  <2>2. 0 <= DecFloor(Clamp(q, v))
    BY <1>4, ClampMonotone
  <2>3. h.new_quantity[0] = 0 \/ h.new_quantity[0] = DecFloor(Clamp(q, v))
    BY <1>6
  <2> HIDE DEF u, v
  <2>4. QED
    BY <2>1, <2>2, <2>3
<1>8. CASE ~(low[0] = 0 /\ ~t.is_linear /\ t.strike > 0)
  <2>1. ~(high[0] = 0 /\ ~t.is_linear /\ t.strike > 0)
    BY <1>1, <1>8
  <2>2. x <= y
    BY <1>1, <1>2, <1>8, ForwardPayoffGrows
  <2>3. u <= v
    BY <1>1, <1>2, <1>3, <2>2, SettledPayoffGrows
  <2>4. l.new_quantity[0] = DecFloor(Clamp(q, u))
    BY <1>5, <1>8
  <2>5. h.new_quantity[0] = DecFloor(Clamp(q, v))
    BY <1>6, <2>1
  <2>6. DecFloor(Clamp(q, u)) <= DecFloor(Clamp(q, v))
    BY <1>4, <2>3, ClampMonotone
  <2> HIDE DEF u, v
  <2>7. QED
    BY <2>4, <2>5, <2>6
<1>9. QED
  BY <1>7, <1>8

LEMMA VanillaFollowsRate ==
  ASSUME NEW t \in Terms, Accepts("vanilla_option", t), NEW q \in Quantities,
         NEW old \in FairValues, NEW low \in FairValues, NEW high \in FairValues,
         low[0] <= high[0],
         NEW l \in Execute("vanilla_option", t, q, old, low),
         NEW h \in Execute("vanilla_option", t, q, old, high)
  PROVE  /\ t.is_call => l.new_quantity[0] <= h.new_quantity[0]
         /\ ~t.is_call /\ ~(~t.is_linear /\ low[0] = 0)
            => l.new_quantity[0] >= h.new_quantity[0]
<1> DEFINE x == VanillaOption!PayoffOfOne(low[0], t.strike, t.is_call, t.is_linear)
           y == VanillaOption!PayoffOfOne(high[0], t.strike, t.is_call, t.is_linear)
           m == DecFloor(Lesser(Dec(q[1]), t.notional * x))
           n == DecFloor(Lesser(Dec(q[1]), t.notional * y))
<1>1. /\ t.strike \in Nat /\ low[0] \in Nat /\ high[0] \in Nat
      /\ l \in VanillaOption!execute_plugin(q, low[0], t.strike, t.notional, t.is_call,
                 t.is_linear)
      /\ h \in VanillaOption!execute_plugin(q, high[0], t.strike, t.notional, t.is_call,
                 t.is_linear)
  BY VanillaInputs
<1>2. t.notional \in Nat /\ t.is_call \in BOOLEAN /\ t.is_linear \in BOOLEAN
  BY TermTypes
<1>3. x \in Nat /\ y \in Nat
  BY <1>1, <1>2, PayoffOfOneIsNat
<1>4. l.new_quantity[0] = m
  BY <1>1, <1>2, VanillaSenior
<1>5. h.new_quantity[0] = n
  BY <1>1, <1>2, VanillaSenior
<1>6. ASSUME t.is_call PROVE m <= n
  <2>1. t.is_call = TRUE
    BY <1>2, <1>6
  <2>2. x <= y
    BY <1>1, <1>2, <2>1, CallGrows
  <2> HIDE DEF x, y
  <2>3. QED
    BY <1>2, <1>3, <2>2, QuantityIsNat, CoverMonotone
<1>7. ASSUME ~t.is_call, ~(~t.is_linear /\ low[0] = 0) PROVE n <= m
  <2>1. y <= x
    BY <1>1, <1>2, <1>7, PutShrinks
  <2> HIDE DEF x, y
  <2>2. QED
    BY <1>2, <1>3, <2>1, QuantityIsNat, CoverMonotone
<1>8. m \in Int /\ n \in Int
  <2> HIDE DEF x, y
  <2>1. Lesser(Dec(q[1]), t.notional * x) \in Int /\ Lesser(Dec(q[1]), t.notional * y) \in Int
    BY <1>2, <1>3, QuantityIsNat, ScaleAssumption DEF Lesser, Dec
  <2>2. QED
    BY <2>1, FloorFact
<1> HIDE DEF m, n
<1>9. QED
  BY <1>4, <1>5, <1>6, <1>7, <1>8

LEMMA DigitalFollowsRate ==
  ASSUME NEW t \in Terms, NEW q \in Quantities,
         NEW old \in FairValues, NEW low \in FairValues, NEW high \in FairValues,
         low[0] <= high[0],
         NEW l \in Execute("digital", t, q, old, low),
         NEW h \in Execute("digital", t, q, old, high)
  PROVE  /\ t.is_call => l.new_quantity[0] <= h.new_quantity[0]
         /\ ~t.is_call => l.new_quantity[0] >= h.new_quantity[0]
<1> DEFINE x == IF Digital!InTheMoney(low[0], t.strike, t.is_call) THEN Dec(q[1]) ELSE 0
           y == IF Digital!InTheMoney(high[0], t.strike, t.is_call) THEN Dec(q[1]) ELSE 0
<1>1. l.new_quantity[0] = DecFloor(x) /\ h.new_quantity[0] = DecFloor(y)
  BY DigitalSenior DEF Execute, Digital!execute
<1>2. low[0] \in Int /\ high[0] \in Int /\ t.strike \in Int /\ t.is_call \in BOOLEAN
  BY FairValueIsInt, TermTypes
<1>3. Dec(q[1]) \in Nat
  BY QuantityIsNat, ScaleAssumption DEF Dec
<1>4. t.is_call => x <= y
  BY <1>2, <1>3 DEF Digital!InTheMoney
<1>5. ~t.is_call => y <= x
  BY <1>2, <1>3 DEF Digital!InTheMoney
<1>6. x \in Int /\ y \in Int
  BY <1>3
<1> HIDE DEF x, y
<1>7. DecFloor(x) \in Int /\ DecFloor(y) \in Int
  BY <1>6, FloorFact
<1>8. /\ t.is_call => DecFloor(x) <= DecFloor(y)
      /\ ~t.is_call => DecFloor(y) <= DecFloor(x)
  BY <1>4, <1>5, <1>6, FloorMonotone
<1>9. QED
  BY <1>1, <1>7, <1>8

\* Whatever the notional, the strike, the quantities and the rates, rounding included: the
\* side that is long never gets less at a higher rate, the side that is short never more.
THEOREM PayoffsAreMonotone == Spec => []PayoffFollowsRate
<1>1. Termed => PayoffFollowsRate
  <2> SUFFICES ASSUME Termed, SeniorLong \/ SeniorShort,
                      NEW low \in FairValues, NEW high \in FairValues,
                      low[0] <= high[0], low[1] = high[1],
                      ~(plugin = "vanilla_option" /\ SeniorShort /\ ~terms.is_linear
                        /\ low[0] = 0),
                      NEW l \in Results(plugin, low), NEW h \in Results(plugin, high)
               PROVE  /\ SeniorLong  => l.new_quantity[0] <= h.new_quantity[0]
                      /\ SeniorShort => l.new_quantity[0] >= h.new_quantity[0]
    BY DEF PayoffFollowsRate
  <2>1. /\ terms \in Terms /\ quantity \in Quantities /\ rate \in FairValues
        /\ Accepts(plugin, terms)
    BY DEF Termed, Typed
  <2>2. CASE plugin = "forward"
    <3>1. l.new_quantity[0] <= h.new_quantity[0]
      BY <2>1, <2>2, ForwardFollowsRate DEF Results
    <3>2. QED
      BY <2>2, <3>1 DEF SeniorShort
  <2>3. CASE plugin = "settled_forward"
    <3>1. l.new_quantity[0] <= h.new_quantity[0]
      BY <2>1, <2>3, SettledFollowsRate DEF Results
    <3>2. QED
      BY <2>3, <3>1 DEF SeniorShort
  <2>4. CASE plugin = "vanilla_option"
    BY <2>1, <2>4, VanillaFollowsRate DEF Results, SeniorLong, SeniorShort
  <2>5. CASE plugin = "digital"
    BY <2>1, <2>5, DigitalFollowsRate DEF Results, SeniorLong, SeniorShort
  <2>6. QED
    BY <2>2, <2>3, <2>4, <2>5 DEF SeniorLong, SeniorShort
<1>2. QED
  BY <1>1, TermedHolds, PTL

----------------------------------------------------------------------------
(* Lending: the senior tranche is made whole *)

\* A whole number of tokens times a decimal is exact.
LEMMA WholeTimes ==
  ASSUME NEW n \in Int, NEW d \in Int
  PROVE  DecMul(Dec(n), d) = n * d
<1>1. (n * SCALE) * d = (n * d) * SCALE /\ n * d \in Int
  BY ScaleAssumption
<1>2. RoundHalfEven((n * d) * SCALE, SCALE) = n * d
  BY <1>1, RoundingExact, ScaleAssumption
<1>3. QED
  BY <1>1, <1>2 DEF DecMul, Dec

\* A product with a factor of one and more is no less.
LEMMA TimesOneAndMore ==
  ASSUME NEW x \in Nat, NEW g \in Nat
  PROVE  DecMul(x, One + g) \in Int /\ DecMul(x, One + g) >= x
<1>1. x * (SCALE + g) \in Int /\ x * SCALE \in Int /\ x * SCALE <= x * (SCALE + g)
  BY ScaleAssumption
<1>2. (x * SCALE) * SCALE <= (x * (SCALE + g)) * SCALE
  BY <1>1, ScaleAssumption
<1>3. RoundHalfEven(x * SCALE, SCALE) <= RoundHalfEven(x * (SCALE + g), SCALE)
  BY <1>1, <1>2, RoundingMonotone, ScaleAssumption
<1>4. RoundHalfEven(x * SCALE, SCALE) = x
  BY RoundingExact, ScaleAssumption
<1>5. RoundHalfEven(x * (SCALE + g), SCALE) \in Int
  BY <1>1, RoundingError, ScaleAssumption
<1>6. QED
  BY <1>3, <1>4, <1>5 DEF DecMul, One

\* The senior quantity whose value at the new rate is what it was at the old one.
Preserved(n, old, new) == DecDiv(n * old, new)

LEMMA SeniorQuantityFact ==
  ASSUME NEW q \in Quantities, NEW old \in Nat \ {0}, NEW new \in Nat \ {0},
         NEW split \in Int, split <= One
  PROVE  LET s == Lending!SeniorQuantity(q, old, new, split)
             p == Preserved(q[0], old, new)
         IN  s \in Int /\ (s >= p \/ s = Dec(Total(q)))
<1> DEFINE s == Lending!SeniorQuantity(q, old, new, split)
           p == Preserved(q[0], old, new)
           ratio == DecDiv(new, old)
           g == DecMul(ratio - One, One - split)
<1> SUFFICES s \in Int /\ (s >= p \/ s = Dec(Total(q)))
  OBVIOUS
<1>1. q[0] \in Nat /\ Total(q) \in Nat /\ q[0] * old \in Nat
  BY QuantityIsNat
<1>2. p \in Nat
  <2>1. (q[0] * old) * SCALE \in Nat
    BY <1>1, ScaleAssumption
  <2>2. QED
    BY <2>1, RoundingIsNat DEF Preserved, DecDiv
<1>3. s = IF new > old THEN DecMul(p, One + g) ELSE Lesser(Dec(Total(q)), p)
  <2>1. DecMul(Dec(q[0]), old) = q[0] * old
    <3>1. q[0] \in Int /\ old \in Int
      BY <1>1
    <3>2. QED
      BY <3>1, WholeTimes, Zenon
  <2>2. s = IF new > old
            THEN DecMul(DecDiv(DecMul(Dec(q[0]), old), new), One + g)
            ELSE Lesser(Dec(Total(q)), DecDiv(DecMul(Dec(q[0]), old), new))
    BY DEF Lending!SeniorQuantity, Lending!DecMul, DecMul, Lending!DecDiv, DecDiv,
           Lending!RoundHalfEven, RoundHalfEven, Lending!Dec, Dec, Lending!One, One,
           Lending!Lesser, Lesser, Lending!Total, Total
  <2>3. QED
    BY <2>1, <2>2 DEF Preserved
<1>4. CASE new > old
  <2>1. ratio \in Int /\ ratio >= One
    <3>1. new * SCALE \in Int /\ SCALE * old \in Int /\ SCALE * old <= new * SCALE
      BY <1>4, ScaleAssumption
    <3>2. (SCALE * old) * old <= (new * SCALE) * old
      BY <3>1
    <3>3. RoundHalfEven(SCALE * old, old) <= RoundHalfEven(new * SCALE, old)
      BY <3>1, <3>2, RoundingMonotone
    <3>4. RoundHalfEven(SCALE * old, old) = SCALE
      BY RoundingExact, ScaleAssumption
    <3>5. RoundHalfEven(new * SCALE, old) \in Int
      BY <3>1, RoundingError
    <3>6. QED
      BY <3>3, <3>4, <3>5 DEF DecDiv, One
  <2> HIDE DEF ratio
  <2>2. g \in Nat
    <3>1. ratio - SCALE \in Nat /\ SCALE - split \in Nat
      BY <2>1, ScaleAssumption DEF One
    <3>2. (ratio - SCALE) * (SCALE - split) \in Nat
      BY <3>1
    <3>3. QED
      BY <3>2, RoundingIsNat, ScaleAssumption DEF DecMul, One
  <2> HIDE DEF g, p, s
  <2>3. QED
    BY <1>2, <1>3, <1>4, <2>2, TimesOneAndMore
<1>5. CASE ~(new > old)
  <2>1. Dec(Total(q)) \in Int
    BY <1>1, ScaleAssumption DEF Dec
  <2> HIDE DEF p, s
  <2>2. QED
    BY <1>2, <1>3, <1>5, <2>1 DEF Lesser
<1>6. QED
  BY <1>4, <1>5

\* What the instruction returns, before and after the fixed fees.
LEMMA LendingResult ==
  ASSUME NEW q \in Quantities, NEW old \in Nat \ {0}, NEW new \in Nat, NEW split \in Int,
         NEW fee \in Nat,
         NEW result \in Lending!execute_plugin(q, old, new, split, fee)
  PROVE  LET senior == DecRound(Lending!SeniorQuantity(q, old, new, split))
         IN  /\ senior \in Nat /\ senior <= Total(q)
             /\ result.new_quantity[0] \in Nat
             /\ result.new_quantity[0] + fee >= senior
             /\ senior = Total(q) => result.new_quantity[1] = 0
<1> DEFINE senior == DecRound(Lending!SeniorQuantity(q, old, new, split))
           junior == Total(q) - senior
<1>1. /\ senior \in Nat /\ junior \in Nat
      /\ result.new_quantity[0] = senior - Lending!TrancheFee(senior, fee)
      /\ result.new_quantity[1] = junior - Lending!TrancheFee(junior, fee)
  BY MaxU64Assumption
  DEF Lending!execute_plugin, Lending!Returns, Lending!Split, Lending!Tranches,
      Lending!Total, Total, Lending!U64, Lending!DecRound, DecRound,
      Lending!RoundHalfEven, RoundHalfEven
<1> HIDE DEF senior
<1>2. Lending!TrancheFee(senior, fee) \in 0 .. fee
        /\ Lending!TrancheFee(senior, fee) <= senior
  BY <1>1 DEF Lending!TrancheFee
<1>3. Lending!TrancheFee(0, fee) = 0
  BY DEF Lending!TrancheFee
<1>4. Total(q) \in Nat
  BY QuantityIsNat
<1>5. QED
  BY <1>1, <1>2, <1>3, <1>4 DEF senior

LEMMA LesserIsLess ==
  ASSUME NEW a \in Int, NEW b \in Int
  PROVE  Lesser(a, b) \in Int /\ Lesser(a, b) <= a /\ Lesser(a, b) <= b
BY DEF Lesser

LEMMA MadeWhole ==
  ASSUME NEW q \in Quantities, NEW old \in Nat \ {0}, NEW new \in Nat \ {0},
         NEW split \in Int, split <= One, NEW m \in Nat,
         m >= DecRound(Lending!SeniorQuantity(q, old, new, split)),
         DecRound(Lending!SeniorQuantity(q, old, new, split)) \in Nat
  PROVE  new * (2 * One * m + One + 1)
           >= 2 * One * Lesser(old * q[0], new * Total(q))
<1> DEFINE x == Lending!SeniorQuantity(q, old, new, split)
           s == DecRound(x)
           p == Preserved(q[0], old, new)
           less == Lesser(old * q[0], new * Total(q))
<1>1. q[0] \in Nat /\ Total(q) \in Nat
  BY QuantityIsNat
<1>2. less \in Int /\ less <= old * q[0] /\ less <= new * Total(q)
  <2>1. old * q[0] \in Int /\ new * Total(q) \in Int
    BY <1>1
  <2>2. QED
    BY <2>1, LesserIsLess, Zenon
<1>3. x \in Int /\ (x >= p \/ x = Dec(Total(q)))
  BY SeniorQuantityFact
<1>4. p \in Int /\ 2 * ((q[0] * old) * SCALE - new * p) <= new
  <2>1. (q[0] * old) * SCALE \in Int
    BY <1>1, ScaleAssumption
  <2>2. QED
    BY <2>1, RoundingError DEF Preserved, DecDiv
<1> HIDE DEF less, p
<1>5. s \in Int /\ 2 * (x - SCALE * s) <= SCALE
  BY <1>3, RoundingError, ScaleAssumption DEF DecRound
<1>6. CASE x >= p
  <2>1. 2 * SCALE * m + SCALE + 1 >= 2 * p + 1
    <3>1. SCALE * m >= SCALE * s
      BY <1>5, ScaleAssumption
    <3>2. SCALE * m \in Int /\ SCALE * s \in Int
      BY <1>5, ScaleAssumption
    <3> HIDE DEF x, s
    <3>3. QED
      BY <1>3, <1>4, <1>5, <1>6, <3>1, <3>2, ScaleAssumption
  <2>2. new * (2 * SCALE * m + SCALE + 1) >= new * (2 * p + 1)
    <3>1. 2 * SCALE * m + SCALE + 1 \in Int /\ 2 * p + 1 \in Int
      BY <1>4, ScaleAssumption
    <3>2. QED
      BY <2>1, <3>1
  <2>3. new * (2 * p + 1) = 2 * (new * p) + new
    BY <1>4
  <2>4. 2 * ((q[0] * old) * SCALE) >= 2 * SCALE * less
    <3>1. (q[0] * old) * SCALE >= less * SCALE
      BY <1>1, <1>2, ScaleAssumption
    <3>2. QED
      BY <1>1, <1>2, <3>1, ScaleAssumption
  <2>5. /\ new * (2 * SCALE * m + SCALE + 1) \in Int /\ new * p \in Int
        /\ (q[0] * old) * SCALE \in Int /\ 2 * SCALE * less \in Int
    BY <1>1, <1>2, <1>4, ScaleAssumption
  <2>6. new * (2 * SCALE * m + SCALE + 1) >= 2 * SCALE * less
    BY <1>4, <2>2, <2>3, <2>4, <2>5
  <2>7. QED
    BY <2>6 DEF less, One
<1>7. CASE x = Dec(Total(q))
  <2>1. s = Total(q)
    BY <1>1, <1>7, RoundingExact, ScaleAssumption DEF DecRound, Dec
  <2>2. m >= Total(q)
    BY <2>1
  <2>3. new * (2 * SCALE * m + SCALE + 1) >= 2 * SCALE * less
    <3>1. new * Total(q) <= new * m
      BY <1>1, <2>2
    <3>2. less <= new * m /\ new * m \in Int
      BY <1>1, <1>2, <3>1
    <3>3. SCALE * less <= SCALE * (new * m)
      BY <1>2, <3>2, ScaleAssumption
    <3>4. new * (2 * SCALE * m + SCALE + 1) = 2 * (SCALE * (new * m)) + new * (SCALE + 1)
      BY ScaleAssumption
    <3>5. new * (SCALE + 1) \in Nat /\ SCALE * (new * m) \in Int /\ SCALE * less \in Int
      BY <1>2, ScaleAssumption
    <3>6. QED
      BY <1>2, <3>3, <3>4, <3>5, ScaleAssumption
  <2>4. QED
    BY <2>3 DEF less, One
<1>8. QED
  BY <1>3, <1>6, <1>7

\* At a rate of zero the senior tranche takes all there is.
LEMMA TotalLoss ==
  ASSUME NEW q \in Quantities, NEW old \in Nat \ {0}, NEW split
  PROVE  DecRound(Lending!SeniorQuantity(q, old, 0, split)) = Total(q)
<1>1. Lending!SeniorQuantity(q, old, 0, split) = Total(q) * SCALE
  BY DEF Lending!SeniorQuantity, Lending!Dec, Lending!Total, Total
<1>2. QED
  BY <1>1, QuantityIsNat, RoundingExact, ScaleAssumption DEF DecRound

\* The lender is made whole as far as the collateral goes, whatever the interest split, the
\* fee, the quantities and the rates.
THEOREM LendersKeepTheirValue == Spec => []LendersMadeWhole
<1>1. Termed => LendersMadeWhole
  <2> SUFFICES ASSUME Termed, plugin = "lending", NEW new \in FairValues,
                      NEW result \in Results("lending", new)
               PROVE  LET senior == result.new_quantity[0] + terms.fixed_fee_per_tranche
                      IN  /\ new[0] * (2 * One * senior + One + 1)
                               >= 2 * One * Lesser(rate[0] * quantity[0],
                                                   new[0] * Total(quantity))
                          /\ new[0] = 0 /\ rate[0] > 0 => result.new_quantity[1] = 0
    BY DEF LendersMadeWhole
  <2> DEFINE split == terms.interest_split
             fee == terms.fixed_fee_per_tranche
             s == DecRound(Lending!SeniorQuantity(quantity, rate[0], new[0], split))
             senior == result.new_quantity[0] + fee
             less == Lesser(rate[0] * quantity[0], new[0] * Total(quantity))
  <2>1. /\ quantity \in Quantities /\ rate \in FairValues /\ split \in Int /\ split <= One
        /\ fee \in Nat
    BY TermTypes DEF Termed, Typed, Accepts, Lending!initialize, Lending!One, One
  <2>2. IsValid(rate, new)
    BY DEF Results, Execute, Lending!execute, Lending!IsValid, IsValid
  <2>3. rate[0] \in Nat /\ new[0] \in Nat
    BY <2>1, <2>2, ValidIsNat
  <2>4. result \in Lending!execute_plugin(quantity, rate[0], new[0], split, fee)
    BY DEF Results, Execute, Lending!execute
  <2>5. result.new_quantity[0] \in Nat
    <3>1. result \in Lending!RedeemLogicExecuteResult
      BY <2>4 DEF Lending!execute_plugin, Lending!Returns
    <3>2. QED
      BY <3>1, MaxU64Assumption DEF Lending!RedeemLogicExecuteResult, Lending!Quantities,
                  Lending!U64, Lending!Tranches
  <2>6. senior \in Nat /\ quantity[0] \in Nat /\ Total(quantity) \in Nat
    BY <2>1, <2>5, QuantityIsNat
  <2>7. less \in Int /\ less <= rate[0] * quantity[0] /\ less <= new[0] * Total(quantity)
    <3>1. rate[0] * quantity[0] \in Int /\ new[0] * Total(quantity) \in Int
      BY <2>3, <2>6
    <3>2. QED
      BY <3>1, LesserIsLess, Zenon
  <2>8. CASE rate[0] # 0 /\ new[0] # 0
    <3>1. s \in Nat /\ senior >= s
      BY <2>1, <2>3, <2>4, <2>8, LendingResult
    <3>2. QED
      BY <2>1, <2>3, <2>6, <2>8, <3>1, MadeWhole
  <2>9. CASE rate[0] # 0 /\ new[0] = 0
    <3>1. s = Total(quantity)
      BY <2>1, <2>3, <2>9, TotalLoss
    <3>2. result.new_quantity[1] = 0
      BY <2>1, <2>3, <2>4, <2>9, <3>1, LendingResult
    <3>3. less <= 0 /\ less \in Int
      BY <2>6, <2>9, <2>7
    <3>4. 2 * One * less <= 0
      <4> HIDE DEF less
      <4>1. QED
        BY <3>3, ScaleAssumption DEF One
    <3>5. new[0] * (2 * One * senior + One + 1) = 0
      BY <2>6, <2>9, ScaleAssumption DEF One
    <3> HIDE DEF less, senior
    <3>6. QED
      BY <3>2, <3>3, <3>4, <3>5, ScaleAssumption DEF less, senior, One
  <2>10. CASE rate[0] = 0
    <3>1. less <= 0 /\ less \in Int
      BY <2>6, <2>10, <2>7
    <3>2. 2 * One * less <= 0 /\ 2 * One * less \in Int
      <4> HIDE DEF less
      <4>1. QED
        BY <3>1, ScaleAssumption DEF One
    <3>3. new[0] * (2 * One * senior + One + 1) \in Nat
      <4> HIDE DEF senior
      <4>1. 2 * One * senior + One + 1 \in Nat
        BY <2>6, ScaleAssumption DEF One
      <4>2. QED
        BY <2>3, <4>1
    <3> HIDE DEF less, senior
    <3>4. new[0] * (2 * One * senior + One + 1) >= 2 * One * less
      BY <3>2, <3>3
    <3>5. QED
      BY <2>10, <3>4 DEF less, senior
  <2>11. QED
    BY <2>8, <2>9, <2>10
<1>2. QED
  BY <1>1, TermedHolds, PTL

\* The lending plugin without a fixed fee changes nothing at an unchanged rate, whatever the
\* quantities, the rate and the interest split: dividing the value by the rate it was
\* multiplied with gives the quantity back exactly, in spite of both roundings.  It is the
\* hypothesis of VyperCore's NeutralPluginNeutralRefresh.
THEOREM LendingIsNeutral ==
  ASSUME NEW q \in Quantities, NEW value \in Nat, NEW split,
         NEW result \in Lending!execute_plugin(q, value, value, split, 0)
  PROVE  result.new_quantity = q
<1>1. q[0] \in Nat /\ q[1] \in Nat /\ Total(q) = q[0] + q[1]
  BY QuantityIsNat DEF Total
<1>2. CASE value = 0
  BY <1>2 DEF Lending!execute_plugin, Lending!Returns
<1>3. CASE value # 0
  <2> DEFINE senior == DecRound(Lending!SeniorQuantity(q, value, value, split))
             junior == Total(q) - senior
             p == Preserved(q[0], value, value)
  <2>1. p = Dec(q[0])
    <3>1. q[0] * value * SCALE = (q[0] * SCALE) * value /\ q[0] * SCALE \in Int
      BY <1>1, ScaleAssumption
    <3>2. RoundHalfEven((q[0] * SCALE) * value, value) = q[0] * SCALE
      BY <1>3, <3>1, RoundingExact
    <3>3. QED
      BY <3>1, <3>2 DEF Preserved, DecDiv, Dec
  <2>2. Lending!SeniorQuantity(q, value, value, split) = Dec(q[0])
    <3>1. Lending!SeniorQuantity(q, value, value, split) = Lesser(Dec(Total(q)), p)
      <4>1. DecMul(Dec(q[0]), value) = q[0] * value
        <5>1. q[0] \in Int /\ value \in Int
          BY <1>1
        <5>2. QED
          BY <5>1, WholeTimes, Zenon
      <4>2. Lending!SeniorQuantity(q, value, value, split)
              = Lesser(Dec(Total(q)), DecDiv(DecMul(Dec(q[0]), value), value))
        BY <1>3
        DEF Lending!SeniorQuantity, Lending!DecDiv, DecDiv, Lending!DecMul, DecMul,
            Lending!RoundHalfEven, RoundHalfEven, Lending!Dec, Dec, Lending!Lesser, Lesser,
            Lending!Total, Total
      <4>3. QED
        BY <4>1, <4>2, Zenon DEF Preserved
    <3>2. Dec(Total(q)) >= Dec(q[0]) /\ Dec(Total(q)) \in Int /\ Dec(q[0]) \in Int
      BY <1>1, ScaleAssumption DEF Dec
    <3> HIDE DEF p
    <3>3. QED
      BY <2>1, <3>1, <3>2 DEF Lesser
  <2>3. senior = q[0]
    <3>1. senior = RoundHalfEven(q[0] * SCALE, SCALE)
      BY <2>2, Zenon DEF DecRound, Dec
    <3>2. q[0] \in Int
      BY <1>1
    <3> HIDE DEF senior
    <3>3. QED
      BY <3>1, <3>2, RoundingExact, ScaleAssumption
  <2>4. result.new_quantity = Split(senior - Lending!TrancheFee(senior, 0),
                                    junior - Lending!TrancheFee(junior, 0))
    BY <1>3
    DEF Lending!execute_plugin, Lending!Returns, Lending!Split, Split, Lending!Tranches,
        Tranches, Lending!Total, Total, Lending!DecRound, DecRound,
        Lending!RoundHalfEven, RoundHalfEven
  <2> HIDE DEF senior
  <2>5. \A n : Lending!TrancheFee(n, 0) = 0
    BY DEF Lending!TrancheFee
  <2>6. result.new_quantity = Split(q[0], q[1])
    BY <1>1, <2>3, <2>4, <2>5
  <2>7. q = Split(q[0], q[1])
    BY DEF Quantities, Split, Tranches
  <2>8. QED
    BY <2>6, <2>7
<1>4. QED
  BY <1>2, <1>3

----------------------------------------------------------------------------
(* Put-call parity *)

\* The payoff of one option is its intrinsic value, as it is or divided by the rate.
LEMMA OptionPayoff ==
  ASSUME NEW spot \in Nat, NEW strike \in Nat, NEW is_call \in BOOLEAN,
         NEW is_linear \in BOOLEAN, spot # 0 \/ is_linear
  PROVE  LET i == VanillaOption!Intrinsic(spot, strike, is_call)
             x == VanillaOption!PayoffOfOne(spot, strike, is_call, is_linear)
         IN  /\ i \in Nat /\ x \in Nat
             /\ is_linear => x = i
             /\ ~is_linear => /\ 2 * (spot * x - i * SCALE) <= spot
                              /\ 2 * (i * SCALE - spot * x) <= spot
             /\ i = 0 => x = 0
<1> DEFINE i == VanillaOption!Intrinsic(spot, strike, is_call)
           x == VanillaOption!PayoffOfOne(spot, strike, is_call, is_linear)
<1>1. i \in Nat /\ x \in Nat
  BY IntrinsicIsNat, PayoffOfOneIsNat
<1>2. CASE is_linear
  <2>1. x = i
    BY <1>2 DEF VanillaOption!PayoffOfOne
  <2> HIDE DEF x, i
  <2>2. QED
    BY <1>1, <1>2, <2>1 DEF x, i
<1>3. CASE ~is_linear
  <2>1. spot \in Nat \ {0}
    BY <1>3
  <2>2. x = RoundHalfEven(i * SCALE, spot)
    BY <1>3, <2>1, InverseOptionRatio
  <2> HIDE DEF x, i
  <2>3. i * SCALE \in Int
    BY <1>1, ScaleAssumption
  <2>4. /\ 2 * (spot * x - i * SCALE) <= spot
        /\ 2 * (i * SCALE - spot * x) <= spot
    BY <2>1, <2>2, <2>3, RoundingError
  <2>5. i = 0 => x = 0
    <3>1. RoundHalfEven(0 * spot, spot) = 0
      BY <2>1, RoundingExact
    <3>2. 0 * SCALE = 0 /\ 0 * spot = 0
      BY <2>1, ScaleAssumption
    <3>3. QED
      BY <2>2, <3>1, <3>2
  <2>6. QED
    BY <1>1, <1>3, <2>4, <2>5 DEF x, i
<1>4. QED
  BY <1>2, <1>3

LEMMA ForwardRatio ==
  ASSUME NEW spot \in Nat \ {0}, NEW strike \in Nat, NEW notional \in Nat,
         NEW is_linear \in BOOLEAN
  PROVE  LET a == Forward!Payoff(spot, strike, notional, is_linear)
             n == notional * (spot - strike)
         IN  /\ a \in Int /\ n \in Int
             /\ is_linear => a = n
             /\ ~is_linear => /\ 2 * (spot * a - n * SCALE) <= spot
                              /\ 2 * (n * SCALE - spot * a) <= spot
<1> DEFINE a == Forward!Payoff(spot, strike, notional, is_linear)
           n == notional * (spot - strike)
<1>1. a \in Int /\ n \in Int
  BY PayoffIsInt
<1>2. CASE is_linear
  BY <1>1, <1>2 DEF Forward!Payoff
<1>3. CASE ~is_linear
  <2>1. a = RoundHalfEven(n * SCALE, spot)
    BY <1>3 DEF Forward!Payoff, Forward!DecDiv, Forward!RoundHalfEven, RoundHalfEven
  <2> HIDE DEF a, n
  <2>2. n * SCALE \in Int
    BY <1>1, ScaleAssumption
  <2>3. /\ 2 * (spot * a - n * SCALE) <= spot
        /\ 2 * (n * SCALE - spot * a) <= spot
    BY <2>1, <2>2, RoundingError
  <2>4. QED
    BY <1>1, <1>3, <2>3 DEF a, n
<1>4. QED
  BY <1>2, <1>3

\* Rounded per option or once: what that can differ by, for a notional of at most SCALE.
LEMMA RoundedOnceOrEach ==
  ASSUME NEW spot \in Nat \ {0}, NEW notional \in Nat, notional <= SCALE,
         NEW i \in Int, NEW x \in Int, NEW a \in Int,
         2 * (spot * x - i * SCALE) <= spot, 2 * (i * SCALE - spot * x) <= spot,
         2 * (spot * a - notional * i * SCALE) <= spot,
         2 * (notional * i * SCALE - spot * a) <= spot
  PROVE  a - notional * x \in (-SCALE) .. SCALE
<1> DEFINE d == a - notional * x
           e == spot * x - i * SCALE
           f == spot * a - notional * i * SCALE
<1>1. d \in Int /\ e \in Int /\ f \in Int /\ notional * e \in Int
  BY ScaleAssumption
<1>2. spot * d = f - notional * e
  BY ScaleAssumption
<1>3. 2 * (notional * e) <= notional * spot /\ -(notional * spot) <= 2 * (notional * e)
  <2> HIDE DEF e
  <2>1. 2 * e <= spot /\ -spot <= 2 * e
    BY <1>1, ScaleAssumption DEF e
  <2>2. notional * (2 * e) <= notional * spot /\ notional * (-spot) <= notional * (2 * e)
    BY <1>1, <2>1
  <2>3. notional * (2 * e) = 2 * (notional * e) /\ notional * (-spot) = -(notional * spot)
    BY <1>1
  <2>4. QED
    BY <2>2, <2>3
<1>4. 2 * f <= spot /\ -spot <= 2 * f
  BY ScaleAssumption
<1>5. notional * spot <= SCALE * spot /\ spot <= SCALE * spot
  BY ScaleAssumption
<1> HIDE DEF d, e, f
<1>6. 2 * (spot * d) <= 2 * (SCALE * spot) /\ -(2 * (SCALE * spot)) <= 2 * (spot * d)
  <2>1. notional * spot \in Int /\ SCALE * spot \in Int /\ spot * d \in Int
    BY <1>1, ScaleAssumption
  <2>2. QED
    BY <1>1, <1>2, <1>3, <1>4, <1>5, <2>1
<1>7. d <= SCALE
  <2>1. SUFFICES ASSUME d >= SCALE + 1 PROVE FALSE
    BY <1>1, ScaleAssumption
  <2>2. spot * d >= spot * (SCALE + 1)
    BY <1>1, <2>1, ScaleAssumption
  <2>3. spot * (SCALE + 1) = SCALE * spot + spot /\ spot * d \in Int /\ SCALE * spot \in Int
    BY <1>1, ScaleAssumption
  <2>4. QED
    BY <1>6, <2>2, <2>3
<1>8. d >= -SCALE
  <2>1. SUFFICES ASSUME d <= -SCALE - 1 PROVE FALSE
    BY <1>1, ScaleAssumption
  <2>2. spot * d <= spot * (-SCALE - 1)
    BY <1>1, <2>1, ScaleAssumption
  <2>3. /\ spot * (-SCALE - 1) = -(SCALE * spot) - spot
        /\ spot * d \in Int /\ SCALE * spot \in Int
    BY <1>1, ScaleAssumption
  <2>4. QED
    BY <1>6, <2>2, <2>3
<1>9. QED
  BY <1>1, <1>7, <1>8, ScaleAssumption DEF d

\* Floors of decimals at most one token apart are at most one apart.
LEMMA FloorsOneApart ==
  ASSUME NEW x \in Int, NEW y \in Int, x - y \in (-SCALE) .. SCALE
  PROVE  DecFloor(x) - DecFloor(y) \in -1 .. 1
<1> DEFINE f == DecFloor(x)
           g == DecFloor(y)
<1>1. /\ f \in Int /\ g \in Int
      /\ SCALE * f <= x /\ x < SCALE * f + SCALE /\ SCALE * g <= y /\ y < SCALE * g + SCALE
  BY FloorFact
<1> HIDE DEF f, g
<1>2. SCALE * (f - g) = SCALE * f - SCALE * g /\ SCALE * (f - g) \in Int
        /\ SCALE * f \in Int /\ SCALE * g \in Int
  BY <1>1, ScaleAssumption
<1>3. SCALE * (f - g) < 2 * SCALE /\ -(2 * SCALE) < SCALE * (f - g)
  BY <1>1, <1>2, ScaleAssumption
<1>4. f - g <= 1
  <2>1. SUFFICES ASSUME f - g >= 2 PROVE FALSE
    BY <1>1
  <2>2. SCALE * (f - g) >= SCALE * 2
    BY <1>1, <2>1, ScaleAssumption
  <2>3. QED
    BY <1>2, <1>3, <2>2, ScaleAssumption
<1>5. f - g >= -1
  <2>1. SUFFICES ASSUME f - g <= -2 PROVE FALSE
    BY <1>1
  <2>2. SCALE * (f - g) <= SCALE * (-2)
    BY <1>1, <2>1, ScaleAssumption
  <2>3. QED
    BY <1>2, <1>3, <2>2, ScaleAssumption
<1>6. QED
  BY <1>1, <1>4, <1>5 DEF f, g

\* A floor of whole tokens and a decimal.
LEMMA FloorShift ==
  ASSUME NEW n \in Int, NEW x \in Int
  PROVE  DecFloor(Dec(n) + x) = n + DecFloor(x)
<1> DEFINE f == DecFloor(Dec(n) + x)
           g == DecFloor(x)
<1>1. Dec(n) = SCALE * n /\ Dec(n) + x \in Int
  BY ScaleAssumption DEF Dec
<1>2. /\ f \in Int /\ g \in Int
      /\ SCALE * f <= Dec(n) + x /\ Dec(n) + x < SCALE * f + SCALE
      /\ SCALE * g <= x /\ x < SCALE * g + SCALE
  BY <1>1, FloorFact
<1> HIDE DEF f, g
<1>3. SCALE * (f - n - g) = SCALE * f - SCALE * n - SCALE * g
        /\ SCALE * (f - n - g) \in Int
        /\ SCALE * f \in Int /\ SCALE * n \in Int /\ SCALE * g \in Int
  BY <1>2, ScaleAssumption
<1>4. SCALE * (f - n - g) < SCALE /\ -SCALE < SCALE * (f - n - g)
  BY <1>1, <1>2, <1>3, ScaleAssumption
<1>5. f - n - g <= 0
  <2>1. SUFFICES ASSUME f - n - g >= 1 PROVE FALSE
    BY <1>2
  <2>2. SCALE * (f - n - g) >= SCALE * 1
    BY <1>2, <2>1, ScaleAssumption
  <2>3. QED
    BY <1>3, <1>4, <2>2, ScaleAssumption
<1>6. f - n - g >= 0
  <2>1. SUFFICES ASSUME f - n - g <= -1 PROVE FALSE
    BY <1>2
  <2>2. SCALE * (f - n - g) <= SCALE * (-1)
    BY <1>2, <2>1, ScaleAssumption
  <2>3. QED
    BY <1>3, <1>4, <2>2, ScaleAssumption
<1>7. QED
  BY <1>2, <1>5, <1>6 DEF f, g

\* A forward that gains is a covered call.
LEMMA ParityUp ==
  ASSUME NEW q \in Quantities, NEW a \in Nat, NEW c \in Nat, a - c \in (-SCALE) .. SCALE
  PROVE  LET gap == DecFloor(Clamp(q, a)) - q[0] - DecFloor(Lesser(Dec(q[1]), c))
         IN  gap \in -1 .. 1 /\ (a = c => gap = 0)
<1> DEFINE x == Lesser(Dec(q[1]), a)
           y == Lesser(Dec(q[1]), c)
<1>1. q[0] \in Nat /\ q[1] \in Nat /\ Dec(q[0]) \in Nat /\ Dec(q[1]) \in Nat
        /\ Dec(Total(q)) = Dec(q[0]) + Dec(q[1])
  BY QuantityIsNat, ScaleAssumption DEF Dec, Total
<1>2. Clamp(q, a) = Dec(q[0]) + x
  BY <1>1 DEF Clamp, Lesser, Greater
<1>3. x \in Int /\ y \in Int /\ x - y \in (-SCALE) .. SCALE
  BY <1>1, ScaleAssumption DEF Lesser
<1>4. a = c => x = y
  OBVIOUS
<1> HIDE DEF x, y
<1>5. DecFloor(Clamp(q, a)) = q[0] + DecFloor(x)
  BY <1>1, <1>2, <1>3, FloorShift
<1>6. DecFloor(x) - DecFloor(y) \in -1 .. 1 /\ DecFloor(x) \in Int /\ DecFloor(y) \in Int
  BY <1>3, FloorsOneApart, FloorFact
<1>7. DecFloor(Clamp(q, a)) - q[0] - DecFloor(y) = DecFloor(x) - DecFloor(y)
  BY <1>1, <1>5, <1>6
<1>8. a = c => DecFloor(x) - DecFloor(y) = 0
  BY <1>4, <1>6
<1>9. QED
  BY <1>6, <1>7, <1>8 DEF y

\* A forward that loses is a written put, covered by the senior quantity.
LEMMA ParityDown ==
  ASSUME NEW q \in Quantities, NEW a \in Int, a <= 0, NEW p \in Nat,
         a + p \in (-SCALE) .. SCALE
  PROVE  LET gap == DecFloor(Clamp(q, a)) - q[0] + DecFloor(Lesser(Dec(q[0]), p))
         IN  gap \in -2 .. 1 /\ (a + p = 0 => gap \in -1 .. 0)
<1> DEFINE u == Clamp(q, a)
           v == Lesser(Dec(q[0]), p)
           f == DecFloor(u)
           g == DecFloor(v)
           gap == f - q[0] + g
<1>1. q[0] \in Nat /\ q[1] \in Nat /\ Dec(q[0]) \in Nat /\ Dec(q[1]) \in Nat
        /\ Dec(Total(q)) = Dec(q[0]) + Dec(q[1]) /\ Dec(q[0]) = SCALE * q[0]
  BY QuantityIsNat, ScaleAssumption DEF Dec, Total
<1>2. /\ u \in Int /\ v \in Int
      /\ u + v - Dec(q[0]) \in (-SCALE) .. SCALE
      /\ a + p = 0 => u + v = Dec(q[0])
  <2>1. u = IF Dec(q[0]) + a >= 0 THEN Dec(q[0]) + a ELSE 0
    BY <1>1 DEF Clamp, Lesser, Greater
  <2>2. v = IF p <= Dec(q[0]) THEN p ELSE Dec(q[0])
    BY <1>1 DEF Lesser
  <2> HIDE DEF u, v
  <2>3. QED
    BY <1>1, <2>1, <2>2, ScaleAssumption
<1> HIDE DEF u, v
<1>3. /\ f \in Int /\ g \in Int
      /\ SCALE * f <= u /\ u < SCALE * f + SCALE /\ SCALE * g <= v /\ v < SCALE * g + SCALE
  BY <1>2, FloorFact
<1> HIDE DEF f, g
<1>4. gap \in Int
  BY <1>1, <1>3
<1>5. SCALE * gap = SCALE * f - SCALE * q[0] + SCALE * g /\ SCALE * gap \in Int
        /\ SCALE * f \in Int /\ SCALE * g \in Int /\ SCALE * q[0] \in Int
  BY <1>1, <1>3, ScaleAssumption
<1> HIDE DEF gap
<1>6. SCALE * gap <= SCALE /\ -(3 * SCALE) < SCALE * gap
  BY <1>1, <1>2, <1>3, <1>5, ScaleAssumption
<1>7. a + p = 0 => SCALE * gap <= 0 /\ -(2 * SCALE) < SCALE * gap
  BY <1>1, <1>2, <1>3, <1>5, ScaleAssumption
<1>8. ASSUME NEW k \in Int, gap >= k PROVE SCALE * gap >= SCALE * k
  BY <1>4, <1>8, ScaleAssumption
<1>9. ASSUME NEW k \in Int, gap <= k PROVE SCALE * gap <= SCALE * k
  BY <1>4, <1>9, ScaleAssumption
<1>10. gap <= 1
  <2>1. SUFFICES ASSUME gap >= 2 PROVE FALSE
    BY <1>4
  <2>2. SCALE * gap >= SCALE * 2
    BY <1>8, <2>1
  <2>3. QED
    BY <1>5, <1>6, <2>2, ScaleAssumption
<1>11. gap >= -2
  <2>1. SUFFICES ASSUME gap <= -3 PROVE FALSE
    BY <1>4
  <2>2. SCALE * gap <= SCALE * (-3)
    BY <1>9, <2>1
  <2>3. QED
    BY <1>5, <1>6, <2>2, ScaleAssumption
<1>12. ASSUME a + p = 0 PROVE gap <= 0
  <2>1. SUFFICES ASSUME gap >= 1 PROVE FALSE
    BY <1>4
  <2>2. SCALE * gap >= SCALE * 1
    BY <1>8, <2>1
  <2>3. QED
    BY <1>5, <1>7, <1>12, <2>2, ScaleAssumption
<1>13. ASSUME a + p = 0 PROVE gap >= -1
  <2>1. SUFFICES ASSUME gap <= -2 PROVE FALSE
    BY <1>4
  <2>2. SCALE * gap <= SCALE * (-2)
    BY <1>9, <2>1
  <2>3. QED
    BY <1>5, <1>7, <1>13, <2>2, ScaleAssumption
<1>14. QED
  BY <1>4, <1>10, <1>11, <1>12, <1>13 DEF gap, f, g, u, v

\* One option against one forward, before the collateral is looked at.
LEMMA OptionAgainstForward ==
  ASSUME NEW spot \in Nat, NEW strike \in Nat, NEW notional \in Nat,
         NEW is_linear \in BOOLEAN, NEW is_call \in BOOLEAN, spot # 0 \/ is_linear,
         notional <= SCALE
  PROVE  LET a == Forward!Payoff(spot, strike, notional, is_linear)
             w == notional * VanillaOption!PayoffOfOne(spot, strike, is_call, is_linear)
         IN  /\ a \in Int /\ w \in Nat
             /\ is_call /\ spot >= strike =>
                  a >= 0 /\ a - w \in (-SCALE) .. SCALE /\ (is_linear => a = w)
             /\ ~is_call /\ spot < strike =>
                  a <= 0 /\ a + w \in (-SCALE) .. SCALE /\ (is_linear => a + w = 0)
             /\ w = 0 \/ ~is_call \/ spot > strike
             /\ ~is_call /\ spot >= strike => w = 0
<1> DEFINE a == Forward!Payoff(spot, strike, notional, is_linear)
           i == VanillaOption!Intrinsic(spot, strike, is_call)
           x == VanillaOption!PayoffOfOne(spot, strike, is_call, is_linear)
           w == notional * x
           Goal == /\ a \in Int /\ w \in Nat
                   /\ is_call /\ spot >= strike =>
                        a >= 0 /\ a - w \in (-SCALE) .. SCALE /\ (is_linear => a = w)
                   /\ ~is_call /\ spot < strike =>
                        a <= 0 /\ a + w \in (-SCALE) .. SCALE /\ (is_linear => a + w = 0)
                   /\ w = 0 \/ ~is_call \/ spot > strike
                   /\ ~is_call /\ spot >= strike => w = 0
<1> SUFFICES Goal
  OBVIOUS
<1>1. /\ is_call /\ spot >= strike => i = spot - strike
      /\ ~is_call /\ spot < strike => i = strike - spot
      /\ is_call /\ spot <= strike => i = 0
      /\ ~is_call /\ spot >= strike => i = 0
  BY DEF VanillaOption!Intrinsic, VanillaOption!Greater
<1>2. /\ i \in Nat /\ x \in Nat
      /\ is_linear => x = i
      /\ ~is_linear => /\ 2 * (spot * x - i * SCALE) <= spot
                       /\ 2 * (i * SCALE - spot * x) <= spot
      /\ i = 0 => x = 0
  BY OptionPayoff
<1>3. a \in Int
  BY PayoffIsInt
<1>4. is_linear => a = notional * (spot - strike)
  BY DEF Forward!Payoff
<1>5. ~is_linear =>
        /\ spot \in Nat \ {0}
        /\ 2 * (spot * a - notional * (spot - strike) * SCALE) <= spot
        /\ 2 * (notional * (spot - strike) * SCALE - spot * a) <= spot
  BY ForwardRatio
<1>6. ~is_linear => a = RoundHalfEven(notional * (spot - strike) * SCALE, spot)
  BY <1>5 DEF Forward!Payoff, Forward!DecDiv, Forward!RoundHalfEven, RoundHalfEven
<1> HIDE DEF a, i, x
<1>7. w \in Nat
  BY <1>2
<1>8. i = 0 => w = 0
  BY <1>2
<1>9. ASSUME is_call, spot >= strike
      PROVE  a >= 0 /\ a - w \in (-SCALE) .. SCALE /\ (is_linear => a = w)
  <2>1. i = spot - strike
    BY <1>1, <1>9
  <2>2. CASE is_linear
    BY <1>2, <1>4, <1>9, <2>1, <2>2, ScaleAssumption
  <2>3. CASE ~is_linear
    <3>1. a >= 0
      <4>1. notional * (spot - strike) * SCALE \in Nat
        BY <1>9, ScaleAssumption
      <4>2. QED
        BY <1>3, <1>5, <1>6, <2>3, <4>1, RoundingIsNat
    <3>2. a - w \in (-SCALE) .. SCALE
      <4>1. notional * i * SCALE = notional * (spot - strike) * SCALE
        BY <2>1
      <4>2. /\ 2 * (spot * a - notional * i * SCALE) <= spot
            /\ 2 * (notional * i * SCALE - spot * a) <= spot
        BY <1>5, <2>3, <4>1
      <4>3. spot \in Nat \ {0} /\ i \in Int /\ x \in Int
        BY <1>2, <1>5, <2>3
      <4>4. /\ 2 * (spot * x - i * SCALE) <= spot
            /\ 2 * (i * SCALE - spot * x) <= spot
        BY <1>2, <2>3
      <4>5. QED
        BY <1>3, <4>2, <4>3, <4>4, RoundedOnceOrEach
    <3>3. QED
      BY <2>3, <3>1, <3>2
  <2>4. QED
    BY <2>2, <2>3
<1>10. ASSUME ~is_call, spot < strike
       PROVE  a <= 0 /\ a + w \in (-SCALE) .. SCALE /\ (is_linear => a + w = 0)
  <2>1. i = strike - spot
    BY <1>1, <1>10
  <2>2. CASE is_linear
    <3>1. a = -w
      BY <1>2, <1>4, <2>1, <2>2
    <3>2. QED
      BY <1>7, <3>1, ScaleAssumption
  <2>3. CASE ~is_linear
    <3>1. a <= 0
      <4>1. spot \in Nat \ {0} /\ notional * (spot - strike) * SCALE \in Int
              /\ 0 * spot = 0
        BY <1>5, <2>3, ScaleAssumption
      <4>2. notional * (spot - strike) * SCALE <= 0
        <5>1. notional * (strike - spot) * SCALE \in Nat
          BY <1>10, ScaleAssumption
        <5>2. notional * (spot - strike) * SCALE = -(notional * (strike - spot) * SCALE)
          BY ScaleAssumption
        <5>3. QED
          BY <5>1, <5>2
      <4>3. (notional * (spot - strike) * SCALE) * 1 <= 0 * spot
        BY <4>1, <4>2
      <4>4. RoundHalfEven(notional * (spot - strike) * SCALE, spot) <= RoundHalfEven(0, 1)
        BY <4>1, <4>3, RoundingMonotone
      <4>5. RoundHalfEven(0, 1) = 0
        BY DEF RoundHalfEven
      <4>6. QED
        BY <1>3, <1>6, <2>3, <4>4, <4>5
    <3>2. (-a) - w \in (-SCALE) .. SCALE
      <4>1. /\ 2 * (spot * (-a) - notional * i * SCALE) <= spot
            /\ 2 * (notional * i * SCALE - spot * (-a)) <= spot
        <5>1. notional * i * SCALE = -(notional * (spot - strike) * SCALE)
          BY <2>1, ScaleAssumption
        <5>2. spot * (-a) = -(spot * a)
          BY <1>3
        <5>3. notional * (spot - strike) * SCALE \in Int /\ spot * a \in Int
          BY <1>3, ScaleAssumption
        <5>4. QED
          BY <1>5, <2>3, <5>1, <5>2, <5>3
      <4>2. -a \in Int /\ spot \in Nat \ {0} /\ i \in Int /\ x \in Int
        BY <1>2, <1>3, <1>5, <2>3
      <4>3. /\ 2 * (spot * x - i * SCALE) <= spot
            /\ 2 * (i * SCALE - spot * x) <= spot
        BY <1>2, <2>3
      <4>4. QED
        BY <4>1, <4>2, <4>3, RoundedOnceOrEach
    <3>3. QED
      BY <1>3, <1>7, <2>3, <3>1, <3>2, ScaleAssumption
  <2>4. QED
    BY <2>2, <2>3
<1>11. QED
  BY <1>1, <1>3, <1>7, <1>8, <1>9, <1>10

\* The option programs under the forward's terms.
LEMMA OptionSenior ==
  ASSUME NEW t \in Terms, NEW b \in BOOLEAN, NEW q \in Quantities, NEW old, NEW new,
         NEW result \in Execute("vanilla_option", [t EXCEPT !.is_call = b], q, old, new)
  PROVE  result.new_quantity[0] =
           DecFloor(Lesser(Dec(q[1]),
             t.notional * VanillaOption!PayoffOfOne(new[0], t.strike, b, t.is_linear)))
<1> DEFINE u == [t EXCEPT !.is_call = b]
<1>1. /\ u.strike = t.strike /\ u.notional = t.notional /\ u.is_linear = t.is_linear
      /\ u.is_call = b
  BY TermsAssumption
<1> HIDE DEF u
<1>2. result \in Execute("vanilla_option", u, q, old, new)
  BY DEF u
<1>3. result \in VanillaOption!execute_plugin(q, new[0], u.strike, u.notional, u.is_call,
                                              u.is_linear)
  BY <1>2 DEF Execute, VanillaOption!execute
<1>4. result.new_quantity[0] =
        DecFloor(Lesser(Dec(q[1]),
          u.notional * VanillaOption!PayoffOfOne(new[0], u.strike, u.is_call, u.is_linear)))
  BY <1>3, VanillaSenior
<1>5. QED
  BY <1>1, <1>4

LEMMA ParityHolds ==
  ASSUME NEW q \in Quantities, NEW spot \in Nat, NEW strike \in Nat,
         NEW is_linear \in BOOLEAN, NEW a \in Int, NEW w \in Nat, NEW v \in Nat,
         spot >= strike =>
           v = 0 /\ a >= 0 /\ a - w \in (-SCALE) .. SCALE /\ (is_linear => a = w),
         spot < strike =>
           w = 0 /\ a <= 0 /\ a + v \in (-SCALE) .. SCALE /\ (is_linear => a + v = 0)
  PROVE  LET gap == DecFloor(Clamp(q, a)) - (q[0] + DecFloor(Lesser(Dec(q[1]), w))
                                                  - DecFloor(Lesser(Dec(q[0]), v)))
         IN  gap \in IF is_linear THEN -1 .. 0 ELSE -2 .. 1
<1> DEFINE F == DecFloor(Clamp(q, a))
           C == DecFloor(Lesser(Dec(q[1]), w))
           P == DecFloor(Lesser(Dec(q[0]), v))
           gap == F - (q[0] + C - P)
<1>1. q[0] \in Nat /\ q[1] \in Nat
  BY QuantityIsNat
<1>2. F \in Int /\ C \in Int /\ P \in Int
  <2>1. /\ Clamp(q, a) \in Int /\ Lesser(Dec(q[1]), w) \in Int
        /\ Lesser(Dec(q[0]), v) \in Int
    BY <1>1, QuantityIsNat, ScaleAssumption DEF Clamp, Lesser, Greater, Dec
  <2>2. QED
    BY <2>1, FloorFact
<1>3. ASSUME NEW n \in Nat PROVE DecFloor(Lesser(Dec(n), 0)) = 0
  <2>1. Lesser(Dec(n), 0) = 0
    BY ScaleAssumption DEF Lesser, Dec
  <2>2. DecFloor(0) \in 0 .. 0
    BY FloorWithin, ScaleAssumption DEF Dec
  <2>3. QED
    BY <2>1, <2>2
<1>4. CASE spot >= strike
  <2>1. P = 0
    BY <1>1, <1>3, <1>4
  <2>2. F - q[0] - C \in -1 .. 1 /\ (a = w => F - q[0] - C = 0)
    BY <1>4, ParityUp
  <2> HIDE DEF F, C, P
  <2>3. gap = F - q[0] - C
    BY <1>1, <1>2, <2>1
  <2> HIDE DEF gap
  <2>4. gap \in IF is_linear THEN -1 .. 0 ELSE -2 .. 1
    BY <1>4, <2>2, <2>3
  <2>5. QED
    BY <2>4 DEF gap, F, C, P
<1>5. CASE spot < strike
  <2>1. C = 0
    BY <1>1, <1>3, <1>5
  <2>2. F - q[0] + P \in -2 .. 1 /\ (a + v = 0 => F - q[0] + P \in -1 .. 0)
    BY <1>5, ParityDown
  <2> HIDE DEF F, C, P
  <2>3. gap = F - q[0] + P
    BY <1>1, <1>2, <2>1
  <2> HIDE DEF gap
  <2>4. gap \in IF is_linear THEN -1 .. 0 ELSE -2 .. 1
    BY <1>5, <2>2, <2>3
  <2>5. QED
    BY <2>4 DEF gap, F, C, P
<1>6. QED
  BY <1>4, <1>5

LEMMA CallPutGap ==
  ASSUME NEW q \in Quantities, NEW spot \in Nat, NEW strike \in Nat, NEW notional \in Nat,
         notional <= SCALE, NEW is_linear \in BOOLEAN, spot # 0 \/ is_linear,
         NEW call \in BOOLEAN, NEW put \in BOOLEAN
  PROVE  LET a == Forward!Payoff(spot, strike, notional, is_linear)
             w == notional * VanillaOption!PayoffOfOne(spot, strike, call, is_linear)
             v == notional * VanillaOption!PayoffOfOne(spot, strike, put, is_linear)
             gap == DecFloor(Clamp(q, a)) - (q[0] + DecFloor(Lesser(Dec(q[1]), w))
                                                  - DecFloor(Lesser(Dec(q[0]), v)))
         IN  call /\ ~put => gap \in IF is_linear THEN -1 .. 0 ELSE -2 .. 1
<1> DEFINE a == Forward!Payoff(spot, strike, notional, is_linear)
           w == notional * VanillaOption!PayoffOfOne(spot, strike, call, is_linear)
           v == notional * VanillaOption!PayoffOfOne(spot, strike, put, is_linear)
           gap == DecFloor(Clamp(q, a)) - (q[0] + DecFloor(Lesser(Dec(q[1]), w))
                                                - DecFloor(Lesser(Dec(q[0]), v)))
<1>1. a \in Int /\ w \in Nat /\ v \in Nat
  BY OptionAgainstForward
<1>2. SUFFICES ASSUME call /\ ~put PROVE gap \in IF is_linear THEN -1 .. 0 ELSE -2 .. 1
  OBVIOUS
<1>3. spot >= strike =>
        v = 0 /\ a >= 0 /\ a - w \in (-SCALE) .. SCALE /\ (is_linear => a = w)
  <2>1. call /\ spot >= strike =>
          a >= 0 /\ a - w \in (-SCALE) .. SCALE /\ (is_linear => a = w)
    BY OptionAgainstForward
  <2>2. ~put /\ spot >= strike => v = 0
    BY OptionAgainstForward
  <2>3. QED
    BY <1>2, <2>1, <2>2, Zenon
<1>4. spot < strike =>
        w = 0 /\ a <= 0 /\ a + v \in (-SCALE) .. SCALE /\ (is_linear => a + v = 0)
  <2>1. ~put /\ spot < strike =>
          a <= 0 /\ a + v \in (-SCALE) .. SCALE /\ (is_linear => a + v = 0)
    BY OptionAgainstForward
  <2>2. w = 0 \/ ~call \/ spot > strike
    BY OptionAgainstForward
  <2>3. spot < strike => ~(spot > strike)
    OBVIOUS
  <2>4. QED
    BY <1>2, <2>1, <2>2, <2>3, Zenon
<1> HIDE DEF a, w, v
<1>5. QED
  BY <1>1, <1>3, <1>4, ParityHolds

LEMMA ForwardSplit ==
  ASSUME NEW t \in Terms, NEW call \in BOOLEAN, NEW put \in BOOLEAN,
         Accepts("forward", t), t.notional <= SCALE, NEW q \in Quantities,
         NEW old \in FairValues, NEW new \in FairValues, new[0] > 0 \/ t.is_linear,
         NEW f \in Execute("forward", t, q, old, new),
         NEW c \in Execute("vanilla_option", [t EXCEPT !.is_call = call], q, old, new),
         NEW p \in Execute("vanilla_option", [t EXCEPT !.is_call = put], Split(q[1], q[0]),
                           old, new)
  PROVE  call /\ ~put =>
           f.new_quantity[0] - (q[0] + c.new_quantity[0] - p.new_quantity[0])
             \in IF t.is_linear THEN -1 .. 0 ELSE -2 .. 1
<1> DEFINE a == Forward!Payoff(new[0], t.strike, t.notional, t.is_linear)
           w == t.notional * VanillaOption!PayoffOfOne(new[0], t.strike, call, t.is_linear)
           v == t.notional * VanillaOption!PayoffOfOne(new[0], t.strike, put, t.is_linear)
<1>1. /\ t.strike \in Nat /\ new[0] \in Nat
      /\ f \in Forward!execute_plugin(q, new[0], t.strike, t.notional, t.is_linear)
  BY ForwardInputs
<1>2. t.notional \in Nat /\ t.is_linear \in BOOLEAN
  BY TermTypes
<1>3. new[0] # 0 \/ t.is_linear
  BY <1>1
<1>4. f.new_quantity[0] = DecFloor(Clamp(q, a))
  <2>1. ~(new[0] = 0 /\ ~t.is_linear /\ t.strike > 0)
    BY <1>3
  <2>2. QED
    BY <1>1, <1>2, <2>1, ForwardSenior
<1>5. c.new_quantity[0] = DecFloor(Lesser(Dec(q[1]), w))
  BY OptionSenior
<1>6. p.new_quantity[0] = DecFloor(Lesser(Dec(q[0]), v))
  <2>1. Split(q[1], q[0]) \in Quantities /\ Split(q[1], q[0])[1] = q[0]
    BY DEF Split, Quantities, Tranches
  <2>2. QED
    BY <2>1, OptionSenior
<1>7. call /\ ~put =>
        DecFloor(Clamp(q, a)) - (q[0] + DecFloor(Lesser(Dec(q[1]), w))
                                      - DecFloor(Lesser(Dec(q[0]), v)))
          \in IF t.is_linear THEN -1 .. 0 ELSE -2 .. 1
  BY <1>1, <1>2, <1>3, CallPutGap
<1> HIDE DEF a, w, v
<1>8. QED
  BY <1>4, <1>5, <1>6, <1>7

\* Put-call parity between the two programs, whatever the collateral covers, as long as a
\* notional is no more than the number of units in one decimal: a u64 never is, with the
\* crate's 28 digits.
THEOREM ForwardIsCallLessPut ==
  ASSUME MaxU64 <= SCALE
  PROVE  Spec => []CallPutParity
<1>1. ASSUME Termed, plugin = "forward", NEW new \in FairValues,
             new[0] > 0 \/ terms.is_linear,
             NEW f \in Results("forward", new),
             NEW c \in Execute("vanilla_option", [terms EXCEPT !.is_call = TRUE],
                               quantity, rate, new),
             NEW p \in Execute("vanilla_option", [terms EXCEPT !.is_call = FALSE],
                               Split(quantity[1], quantity[0]), rate, new)
      PROVE  f.new_quantity[0] - (quantity[0] + c.new_quantity[0] - p.new_quantity[0])
               \in IF terms.is_linear THEN -1 .. 0 ELSE -2 .. 1
  <2>1. /\ terms \in Terms /\ Accepts("forward", terms) /\ quantity \in Quantities
        /\ rate \in FairValues
    BY <1>1 DEF Termed, Typed
  <2>2. terms.notional <= SCALE
    BY <2>1, TermsAssumption, MaxU64Assumption, ScaleAssumption DEF U64
  <2>3. f \in Execute("forward", terms, quantity, rate, new)
    BY DEF Results
  <2>4. TRUE \in BOOLEAN /\ FALSE \in BOOLEAN
    OBVIOUS
  <2>5. QED
    BY <1>1, <2>1, <2>2, <2>3, <2>4, ForwardSplit
<1>2. Termed => CallPutParity
  BY <1>1 DEF CallPutParity
<1>3. QED
  BY <1>2, TermedHolds, PTL

----------------------------------------------------------------------------
(* Lending with fees: the performance fee comes out of the gain *)

\* The value of a tranche's quantity before the new rate, after the management fee; the same
\* quantity's value at the new rate, before and after the performance fee.
OldValue(n, old, mgmt) == DecMul(DecMul(Dec(n), old), One - mgmt)
Revalued(v, old, new)  == DecMul(DecDiv(v, old), new)
NewValue(n, old, new, mgmt, perf) ==
  LendingFee!AfterPerfFee(OldValue(n, old, mgmt), Revalued(OldValue(n, old, mgmt), old, new),
                          perf)

LEMMA OldValueFact ==
  ASSUME NEW n \in Nat, NEW old \in Nat \ {0}, NEW mgmt \in Int, LendingFee!IsShare(mgmt)
  PROVE  LET v == OldValue(n, old, mgmt)
             x == n * (One - mgmt)
         IN  /\ v \in Nat /\ x \in Nat
             /\ v = RoundHalfEven(x * old, SCALE)
             /\ 2 * (SCALE * v - x * old) <= SCALE /\ 2 * (x * old - SCALE * v) <= SCALE
<1> DEFINE v == OldValue(n, old, mgmt)
           x == n * (One - mgmt)
<1>1. One - mgmt \in Nat
  BY ScaleAssumption DEF LendingFee!IsShare, LendingFee!One, One
<1>2. x \in Nat /\ x * old \in Nat /\ (n * old) * (One - mgmt) = x * old
  <2> DEFINE rest == One - mgmt
  <2> HIDE DEF rest
  <2>1. n * rest \in Nat /\ (n * rest) * old \in Nat /\ (n * old) * rest = (n * rest) * old
    BY <1>1 DEF rest
  <2>2. QED
    BY <2>1 DEF rest
<1>3. DecMul(Dec(n), old) = n * old
  <2>1. n \in Int /\ old \in Int
    OBVIOUS
  <2>2. QED
    BY <2>1, WholeTimes, Zenon
<1>4. v = RoundHalfEven(x * old, SCALE)
  <2>1. v = RoundHalfEven((n * old) * (One - mgmt), SCALE)
    BY <1>3, Zenon DEF OldValue, DecMul
  <2>2. QED
    BY <1>2, <2>1, Zenon
<1> HIDE DEF v, x
<1>5. v \in Nat
  BY <1>2, <1>4, RoundingIsNat, ScaleAssumption
<1>6. 2 * (SCALE * v - x * old) <= SCALE /\ 2 * (x * old - SCALE * v) <= SCALE
  BY <1>2, <1>4, RoundingError, ScaleAssumption
<1>7. QED
  BY <1>2, <1>4, <1>5, <1>6 DEF v, x

\* Division by the old rate and multiplication by a higher one never lose value, although
\* both round: an old rate of more than one gives the quantity back exactly, and the error
\* of a lower one is less than the unit that a lost value would take.
LEMMA RevaluedGrows ==
  ASSUME NEW x \in Nat, NEW old \in Nat \ {0}, NEW new \in Nat, new > old,
         NEW v \in Nat, v = RoundHalfEven(x * old, SCALE)
  PROVE  Revalued(v, old, new) \in Int /\ Revalued(v, old, new) >= v
<1> DEFINE d == DecDiv(v, old)
           w == Revalued(v, old, new)
<1>1. v * SCALE \in Nat /\ x * old \in Nat
  BY ScaleAssumption
<1>2. d \in Nat /\ 2 * (old * d - v * SCALE) <= old /\ 2 * (v * SCALE - old * d) <= old
  BY <1>1, RoundingError, RoundingIsNat DEF DecDiv
<1> HIDE DEF d
<1>3. d * new \in Nat /\ w = RoundHalfEven(d * new, SCALE)
  BY <1>2 DEF Revalued, DecMul, d
<1> HIDE DEF w
<1>4. w \in Int /\ 2 * (d * new - SCALE * w) <= SCALE
  BY <1>3, RoundingError, ScaleAssumption
<1>5. 2 * (SCALE * v - x * old) <= SCALE /\ 2 * (x * old - SCALE * v) <= SCALE
  BY <1>1, RoundingError, ScaleAssumption
<1>6. CASE old >= SCALE
  <2>1. d = x
    <3>1. CASE old = SCALE
      <4>1. v = x
        BY <3>1, RoundingExact, ScaleAssumption
      <4>2. QED
        BY <3>1, <4>1, RoundingExact, ScaleAssumption DEF d, DecDiv
    <3>2. CASE old > SCALE
      <4>1. old * (d - x) = (old * d - v * SCALE) + (SCALE * v - x * old)
              /\ old * (d - x) \in Int /\ old * d \in Int /\ SCALE * v \in Int
              /\ v * SCALE = SCALE * v
        BY <1>2, ScaleAssumption
      <4>2. old * (d - x) < old /\ -old < old * (d - x)
        BY <1>1, <1>2, <1>5, <3>2, <4>1, ScaleAssumption
      <4>3. d - x <= 0
        <5>1. SUFFICES ASSUME d - x >= 1 PROVE FALSE
          BY <1>2
        <5>2. old * (d - x) >= old * 1
          BY <1>2, <5>1
        <5>3. QED
          BY <4>1, <4>2, <5>2
      <4>4. d - x >= 0
        <5>1. SUFFICES ASSUME d - x <= -1 PROVE FALSE
          BY <1>2
        <5>2. old * (d - x) <= old * (-1)
          BY <1>2, <5>1
        <5>3. QED
          BY <4>1, <4>2, <5>2
      <4>5. QED
        BY <1>2, <4>3, <4>4
    <3>3. QED
      BY <1>6, <3>1, <3>2, ScaleAssumption
  <2>2. x * new \in Nat /\ x * old <= x * new
    OBVIOUS
  <2>3. (x * old) * SCALE <= (x * new) * SCALE
    BY <1>1, <2>2, ScaleAssumption
  <2>4. RoundHalfEven(x * old, SCALE) <= RoundHalfEven(x * new, SCALE)
    BY <1>1, <2>2, <2>3, RoundingMonotone, ScaleAssumption
  <2>5. v <= w
    BY <1>3, <2>1, <2>4
  <2>6. QED
    BY <1>4, <2>5 DEF w
<1>7. CASE old < SCALE
  <2>1. d * new >= d * old + d
    <3>1. d * new >= d * (old + 1)
      BY <1>2
    <3>2. QED
      BY <1>2, <3>1
  <2>2. v <= w
    <3>1. SUFFICES ASSUME w <= v - 1 PROVE FALSE
      BY <1>4
    <3>2. SCALE * w <= SCALE * (v - 1)
      BY <1>4, <3>1, ScaleAssumption
    <3>3. /\ SCALE * (v - 1) = SCALE * v - SCALE /\ v * SCALE = SCALE * v
          /\ d * old = old * d
      BY <1>2, ScaleAssumption
    <3>4. /\ SCALE * w \in Int /\ SCALE * v \in Int /\ old * d \in Int /\ d * new \in Int
      BY <1>2, <1>4, ScaleAssumption
    <3>5. QED
      BY <1>2, <1>4, <1>7, <2>1, <3>2, <3>3, <3>4, ScaleAssumption
  <2>3. QED
    BY <1>4, <2>2 DEF w
<1>8. QED
  BY <1>6, <1>7, ScaleAssumption

\* Neither rounding nor the performance fee takes a tranche below its value before the rise.
LEMMA NewValueFact ==
  ASSUME NEW n \in Nat, NEW old \in Nat \ {0}, NEW new \in Nat, new > old, NEW mgmt \in Int,
         LendingFee!IsShare(mgmt), NEW perf \in Int, LendingFee!IsShare(perf)
  PROVE  LET w == NewValue(n, old, new, mgmt, perf)
         IN  w \in Int /\ 2 * (n * (One - mgmt) * old - SCALE * w) <= SCALE
<1> DEFINE v == OldValue(n, old, mgmt)
           x == n * (One - mgmt)
           u == Revalued(v, old, new)
           w == NewValue(n, old, new, mgmt, perf)
<1>1. /\ v \in Nat /\ x \in Nat /\ v = RoundHalfEven(x * old, SCALE)
      /\ 2 * (x * old - SCALE * v) <= SCALE
  BY OldValueFact
<1> HIDE DEF v, x
<1>2. u \in Int /\ u >= v
  BY <1>1, RevaluedGrows
<1> HIDE DEF u
<1>3. w \in Int /\ w >= v
  <2>1. w = IF u > v THEN v + DecMul(u - v, One - perf) ELSE u
    BY DEF NewValue, LendingFee!AfterPerfFee, LendingFee!DecMul, DecMul,
           LendingFee!RoundHalfEven, RoundHalfEven, LendingFee!One, One, u, v
  <2>2. CASE u > v
    <3>1. One - perf \in Nat
      BY ScaleAssumption DEF LendingFee!IsShare, LendingFee!One, One
    <3>2. u - v \in Nat
      BY <1>1, <1>2, <2>2
    <3>3. (u - v) * (One - perf) \in Nat
      <4> DEFINE a == u - v
                 b == One - perf
      <4> HIDE DEF a, b
      <4>1. a * b \in Nat
        BY <3>1, <3>2 DEF a, b
      <4>2. QED
        BY <4>1 DEF a, b
    <3>4. DecMul(u - v, One - perf) \in Nat
      BY <3>3, RoundingIsNat, ScaleAssumption DEF DecMul
    <3> HIDE DEF w
    <3>5. QED
      BY <1>1, <2>1, <2>2, <3>4 DEF w
  <2>3. CASE ~(u > v)
    <3> HIDE DEF w
    <3>1. QED
      BY <1>1, <1>2, <2>1, <2>3 DEF w
  <2>4. QED
    BY <2>2, <2>3
<1> HIDE DEF w
<1>4. 2 * (x * old - SCALE * w) <= SCALE
  <2>1. SCALE * w >= SCALE * v /\ SCALE * w \in Int /\ SCALE * v \in Int /\ x * old \in Int
    BY <1>1, <1>3, ScaleAssumption
  <2>2. QED
    BY <1>1, <2>1, ScaleAssumption
<1>5. QED
  BY <1>3, <1>4 DEF w, x

\* A value, divided by the rate and floored to tokens, is less than one token short.
LEMMA FlooredQuotient ==
  ASSUME NEW s \in Int, NEW new \in Nat \ {0}
  PROVE  /\ DecFloor(DecDiv(s, new)) \in Int
         /\ new * (DecFloor(DecDiv(s, new)) + 1) >= s + 1
<1> DEFINE d == DecDiv(s, new)
           a == DecFloor(d)
<1>1. s * SCALE \in Int
  BY ScaleAssumption
<1>2. d \in Int /\ 2 * (s * SCALE - new * d) <= new
  BY <1>1, RoundingError DEF DecDiv
<1> HIDE DEF d
<1>3. a \in Int /\ d <= SCALE * a + SCALE - 1
  BY <1>2, FloorFact, ScaleAssumption
<1> HIDE DEF a
<1>4. new * d <= new * (SCALE * a + SCALE - 1)
  BY <1>2, <1>3, ScaleAssumption
<1>5. new * (SCALE * a + SCALE - 1) = SCALE * (new * (a + 1)) - new
  BY <1>3, ScaleAssumption
<1>6. SUFFICES ASSUME new * (a + 1) <= s PROVE FALSE
  BY <1>3 DEF a, d
<1>7. SCALE * (new * (a + 1)) <= SCALE * s
  BY <1>3, <1>6, ScaleAssumption
<1>8. /\ s * SCALE = SCALE * s /\ SCALE * s \in Int /\ new * d \in Int
      /\ SCALE * (new * (a + 1)) \in Int
  BY <1>2, <1>3, ScaleAssumption
<1>9. QED
  BY <1>2, <1>4, <1>5, <1>7, <1>8

LEMMA LendingFeeResult ==
  ASSUME NEW q \in Quantities, NEW old \in Nat \ {0}, NEW new \in Nat \ {0}, new > old,
         NEW split \in Int, NEW mgmt \in Int, NEW perf \in Int,
         NEW result \in LendingFee!execute_plugin(q, old, new, split, mgmt, perf)
  PROVE  /\ LendingFee!IsShare(mgmt) /\ LendingFee!IsShare(perf)
         /\ \E senior \in Int, junior \in Int :
              /\ senior + junior = NewValue(q[0], old, new, mgmt, perf)
                                     + NewValue(q[1], old, new, mgmt, perf)
              /\ result.new_quantity[0] = DecFloor(DecDiv(senior, new))
              /\ result.new_quantity[1] = DecFloor(DecDiv(junior, new))
<1> DEFINE O(i) == LendingFee!DecMul(LendingFee!DecMul(LendingFee!Dec(q[i]), old),
                                     LendingFee!One - mgmt)
           W(i) == LendingFee!AfterPerfFee(
                     O(i), LendingFee!DecMul(LendingFee!DecDiv(O(i), old), new), perf)
           total == W(0) + W(1)
           senior == IF W(0) > O(0)
                     THEN O(0) + LendingFee!DecMul(W(0) - O(0),
                                                   LendingFee!InterestShare(split))
                     ELSE LendingFee!Lesser(O(0), total)
<1>1. LendingFee!IsShare(mgmt) /\ LendingFee!IsShare(perf)
  BY DEF LendingFee!execute_plugin
<1>2. result \in LendingFee!ReturnsFloors(q, LendingFee!DecDiv(senior, new),
                                          LendingFee!DecDiv(total - senior, new))
  <2>1. ~(old = 0 \/ new = 0)
    OBVIOUS
  <2>2. LendingFee!IsShare(split) /\ LendingFee!IsShare(mgmt) /\ LendingFee!IsShare(perf)
    BY DEF LendingFee!execute_plugin
  <2>3. QED
    BY <2>1, <2>2, Zenon DEF LendingFee!execute_plugin
<1>3. \A a, b : /\ LendingFee!DecMul(a, b) = DecMul(a, b)
                /\ LendingFee!DecDiv(a, b) = DecDiv(a, b)
  BY Zenon DEF LendingFee!DecMul, LendingFee!DecDiv, LendingFee!RoundHalfEven,
               DecMul, DecDiv, RoundHalfEven
<1>4. \A i : /\ O(i) = OldValue(q[i], old, mgmt)
             /\ W(i) = NewValue(q[i], old, new, mgmt, perf)
  BY <1>3, Zenon DEF LendingFee!Dec, LendingFee!One, Dec, One, OldValue, Revalued, NewValue
<1>5. \A a, b : LendingFee!ReturnsFloors(q, a, b) = ReturnsFloors(q, a, b)
  BY Zenon DEF LendingFee!ReturnsFloors, ReturnsFloors, LendingFee!Returns, Returns,
         LendingFee!RedeemLogicExecuteResult, RedeemLogicExecuteResult,
         LendingFee!Quantities, Quantities, LendingFee!U64, U64, LendingFee!Tranches,
         Tranches, LendingFee!Remainder, Remainder, LendingFee!Total, Total,
         LendingFee!Split, Split, LendingFee!DecFloor, DecFloor
<1>6. result \in ReturnsFloors(q, DecDiv(senior, new), DecDiv(total - senior, new))
  <2> HIDE DEF O, W, senior, total
  <2>1. /\ LendingFee!DecDiv(senior, new) = DecDiv(senior, new)
        /\ LendingFee!DecDiv(total - senior, new) = DecDiv(total - senior, new)
    BY <1>3, Zenon
  <2>2. result \in LendingFee!ReturnsFloors(q, DecDiv(senior, new),
                                            DecDiv(total - senior, new))
    BY <1>2, <2>1, Zenon
  <2>3. QED
    BY <1>5, <2>2, Zenon
<1>7. O(0) \in Int /\ W(0) \in Int /\ W(1) \in Int
  <2>1. q[0] \in Nat /\ q[1] \in Nat
    BY QuantityIsNat
  <2>2. OldValue(q[0], old, mgmt) \in Nat
    BY <1>1, <2>1, OldValueFact, Zenon
  <2>3. NewValue(q[0], old, new, mgmt, perf) \in Int
    BY <1>1, <2>1, NewValueFact, Zenon
  <2>4. NewValue(q[1], old, new, mgmt, perf) \in Int
    BY <1>1, <2>1, NewValueFact, Zenon
  <2>5. \A i \in Nat : i \in Int
    OBVIOUS
  <2>6. QED
    BY <1>4, <2>2, <2>3, <2>4, <2>5, Zenon
<1>8. total = NewValue(q[0], old, new, mgmt, perf) + NewValue(q[1], old, new, mgmt, perf)
  <2>1. /\ W(0) = NewValue(q[0], old, new, mgmt, perf)
        /\ W(1) = NewValue(q[1], old, new, mgmt, perf)
    BY <1>4, Zenon
  <2> HIDE DEF W
  <2>2. QED
    BY <2>1
<1> HIDE DEF O, W
<1>9. senior \in Int
  <2>1. LendingFee!DecMul(W(0) - O(0), LendingFee!InterestShare(split)) \in Int
    <3> DEFINE d == W(0) - O(0)
               r == LendingFee!InterestShare(split)
    <3>1. d \in Int /\ r \in Int
      BY <1>7, ScaleAssumption DEF LendingFee!InterestShare, LendingFee!One
    <3> HIDE DEF d, r
    <3>2. d * r \in Int
      BY <3>1
    <3>3. DecMul(d, r) \in Int
      BY <3>2, RoundingError, ScaleAssumption DEF DecMul
    <3>4. QED
      BY <1>3, <3>3 DEF d, r
  <2>2. LendingFee!Lesser(O(0), total) \in Int
    BY <1>7 DEF LendingFee!Lesser
  <2>3. QED
    BY <1>7, <2>1, <2>2
<1> DEFINE junior == total - senior
<1> HIDE DEF senior, total
<1>10. /\ result.new_quantity[0] = DecFloor(DecDiv(senior, new))
       /\ result.new_quantity[1] = DecFloor(DecDiv(total - senior, new))
  BY <1>6 DEF ReturnsFloors, Returns, Split, Tranches
<1>11. junior \in Int /\ senior + junior = total
  <2>1. total \in Int
    BY <1>7 DEF total
  <2>2. QED
    BY <1>9, <2>1
<1>12. result.new_quantity[1] = DecFloor(DecDiv(junior, new))
  BY <1>10
<1> HIDE DEF junior
<1>13. QED
  BY <1>1, <1>8, <1>9, <1>10, <1>11, <1>12

\* The values of both tranches are rounded to within half a unit each, and flooring takes
\* less than a token from each.
LEMMA FeePaid ==
  ASSUME NEW x0 \in Nat, NEW x1 \in Nat, NEW old \in Nat \ {0}, NEW new \in Nat \ {0},
         NEW w0 \in Int, NEW w1 \in Int, NEW senior \in Int, NEW junior \in Int,
         senior + junior = w0 + w1,
         2 * (x0 * old - SCALE * w0) <= SCALE, 2 * (x1 * old - SCALE * w1) <= SCALE
  PROVE  LET a == DecFloor(DecDiv(senior, new))
             b == DecFloor(DecDiv(junior, new))
         IN  new * (a + b + 2) * One >= old * (x0 + x1)
<1> DEFINE a == DecFloor(DecDiv(senior, new))
           b == DecFloor(DecDiv(junior, new))
<1>1. a \in Int /\ new * (a + 1) >= senior + 1
  BY FlooredQuotient
<1>2. b \in Int /\ new * (b + 1) >= junior + 1
  BY FlooredQuotient
<1> HIDE DEF a, b
<1>3. new * (a + b + 2) = new * (a + 1) + new * (b + 1) /\ new * (a + b + 2) \in Int
  BY <1>1, <1>2
<1>4. new * (a + b + 2) >= w0 + w1 + 2
  <2>1. new * (a + 1) \in Int /\ new * (b + 1) \in Int
    BY <1>1, <1>2
  <2>2. QED
    BY <1>1, <1>2, <1>3, <2>1
<1>5. SCALE * (new * (a + b + 2)) >= SCALE * (w0 + w1 + 2)
  BY <1>3, <1>4, ScaleAssumption
<1>6. SCALE * (w0 + w1 + 2) = SCALE * w0 + SCALE * w1 + 2 * SCALE
  BY ScaleAssumption
<1>7. old * (x0 + x1) = x0 * old + x1 * old
  OBVIOUS
<1>8. /\ SCALE * w0 \in Int /\ SCALE * w1 \in Int /\ x0 * old \in Int /\ x1 * old \in Int
      /\ SCALE * (new * (a + b + 2)) \in Int
      /\ SCALE * (new * (a + b + 2)) = new * (a + b + 2) * SCALE
  BY <1>3, ScaleAssumption
<1>9. SCALE * (new * (a + b + 2)) >= old * (x0 + x1)
  BY <1>5, <1>6, <1>7, <1>8, ScaleAssumption
<1>10. QED
  BY <1>8, <1>9 DEF a, b, One

\* The performance fee is paid out of the gain, however the rounding falls: the holders of
\* both tranches are left with no less value than before the rise, net of the management fee
\* and of the two tokens that flooring may take.
THEOREM FeeComesOutOfGain == Spec => []FeePaidFromGain
<1>1. Termed => FeePaidFromGain
  <2> SUFFICES ASSUME Termed, plugin = "lending_fee", NEW new \in FairValues,
                      NEW result \in Results("lending_fee", new),
                      rate[0] > 0, new[0] > rate[0]
               PROVE  new[0] * (Total(result.new_quantity) + 2) * One
                        >= rate[0] * Total(quantity) * (One - terms.mgmt_fee)
    BY DEF FeePaidFromGain
  <2> DEFINE split == terms.interest_split
             mgmt == terms.mgmt_fee
             perf == terms.perf_fee
             old == rate[0]
             rest == One - mgmt
  <2>1. /\ quantity \in Quantities /\ rate \in FairValues
        /\ split \in Int /\ mgmt \in Int /\ perf \in Int
    BY TermTypes DEF Termed, Typed
  <2>2. IsValid(rate, new)
    BY DEF Results, Execute, LendingFee!execute, LendingFee!IsValid, IsValid
  <2>3. old \in Nat \ {0} /\ new[0] \in Nat \ {0}
    BY <2>1, <2>2, ValidIsNat
  <2>4. result \in LendingFee!execute_plugin(quantity, old, new[0], split, mgmt, perf)
    BY DEF Results, Execute, LendingFee!execute
  <2>5. quantity[0] \in Nat /\ quantity[1] \in Nat
    BY <2>1, QuantityIsNat
  <2> DEFINE n == new[0]
             w0 == NewValue(quantity[0], old, n, mgmt, perf)
             w1 == NewValue(quantity[1], old, n, mgmt, perf)
  <2>6. /\ LendingFee!IsShare(mgmt) /\ LendingFee!IsShare(perf)
        /\ \E senior \in Int, junior \in Int :
             /\ senior + junior = w0 + w1
             /\ result.new_quantity[0] = DecFloor(DecDiv(senior, n))
             /\ result.new_quantity[1] = DecFloor(DecDiv(junior, n))
    <3>1. /\ n > old /\ n \in Nat \ {0}
          /\ result \in LendingFee!execute_plugin(quantity, old, n, split, mgmt, perf)
      BY <2>3, <2>4
    <3> HIDE DEF split, mgmt, perf, old, n
    <3>2. QED
      BY <2>1, <2>3, <3>1, LendingFeeResult
  <2>7. rest \in Nat
    <3> HIDE DEF mgmt
    <3>1. QED
      BY <2>1, <2>6, ScaleAssumption DEF LendingFee!IsShare, LendingFee!One, One
  <2>8. w0 \in Int /\ 2 * (quantity[0] * rest * old - SCALE * w0) <= SCALE
    BY <2>1, <2>3, <2>5, <2>6, NewValueFact
  <2>9. w1 \in Int /\ 2 * (quantity[1] * rest * old - SCALE * w1) <= SCALE
    BY <2>1, <2>3, <2>5, <2>6, NewValueFact
  <2>10. PICK senior \in Int, junior \in Int :
           /\ senior + junior = w0 + w1
           /\ result.new_quantity[0] = DecFloor(DecDiv(senior, n))
           /\ result.new_quantity[1] = DecFloor(DecDiv(junior, n))
    BY <2>6
  <2> DEFINE q0 == quantity[0]
             q1 == quantity[1]
  <2> HIDE DEF w0, w1, rest, old, q0, q1, n
  <2>11. q0 * rest \in Nat /\ q1 * rest \in Nat
    BY <2>5, <2>7 DEF q0, q1
  <2>12. n * (DecFloor(DecDiv(senior, n)) + DecFloor(DecDiv(junior, n)) + 2) * One
           >= old * (q0 * rest + q1 * rest)
    BY <2>3, <2>8, <2>9, <2>10, <2>11, FeePaid DEF q0, q1, n
  <2>13. old * (q0 * rest + q1 * rest) = old * (q0 + q1) * rest
    BY <2>3, <2>5, <2>7 DEF q0, q1
  <2>14. QED
    BY <2>10, <2>12, <2>13 DEF q0, q1, n, old, rest, Total
<1>2. QED
  BY <1>1, TermedHolds, PTL

----------------------------------------------------------------------------
(* The lending programs always have a result *)

\* What a share of a decimal keeps of it lies between nothing and all of it.
LEMMA ShareWithin ==
  ASSUME NEW x \in Nat, NEW share \in Nat, share <= One
  PROVE  DecMul(x, share) \in 0 .. x
<1>1. x * share \in Nat /\ x * SCALE \in Nat /\ x * share <= x * SCALE
  BY ScaleAssumption DEF One
<1>2. (x * share) * SCALE <= (x * SCALE) * SCALE
  BY <1>1, ScaleAssumption
<1>3. RoundHalfEven(x * share, SCALE) <= RoundHalfEven(x * SCALE, SCALE)
  BY <1>1, <1>2, RoundingMonotone, ScaleAssumption
<1>4. RoundHalfEven(x * SCALE, SCALE) = x
  BY RoundingExact, ScaleAssumption
<1>5. RoundHalfEven(x * share, SCALE) \in Nat
  BY <1>1, RoundingIsNat, ScaleAssumption
<1>6. QED
  BY <1>3, <1>4, <1>5 DEF DecMul

\* A quotient of what n times the divisor bounds is bounded by n.
LEMMA QuotientWithin ==
  ASSUME NEW x \in Nat, NEW d \in Nat \ {0}, NEW n \in Nat, x <= n * d
  PROVE  RoundHalfEven(x, d) \in 0 .. n
<1>1. n * d \in Nat
  OBVIOUS
<1>2. x * d <= (n * d) * d
  BY <1>1
<1>3. RoundHalfEven(x, d) <= RoundHalfEven(n * d, d)
  BY <1>1, <1>2, RoundingMonotone
<1>4. RoundHalfEven(n * d, d) = n
  BY RoundingExact
<1>5. QED
  BY <1>3, <1>4, RoundingIsNat

\* The old value of n tokens revalued at the new rate is at most what n tokens cost there.
LEMMA RevaluedWithin ==
  ASSUME NEW n \in Nat, NEW old \in Nat \ {0}, NEW new \in Nat, NEW v \in 0 .. n * old
  PROVE  Revalued(v, old, new) \in 0 .. n * new
<1> DEFINE d == DecDiv(v, old)
<1>1. d \in 0 .. n * SCALE
  <2>1. /\ v * SCALE \in Nat /\ n * SCALE \in Nat /\ (n * SCALE) * old = (n * old) * SCALE
        /\ n * old \in Nat
    BY ScaleAssumption
  <2>2. v * SCALE <= (n * SCALE) * old
    BY <2>1, ScaleAssumption
  <2>3. QED
    BY <2>1, <2>2, QuotientWithin DEF DecDiv
<1> HIDE DEF d
<1>2. n * SCALE \in Nat /\ n * new \in Nat /\ (n * SCALE) * new = (n * new) * SCALE
  BY ScaleAssumption
<1>3. d * new \in Nat /\ d * new <= (n * new) * SCALE
  BY <1>1, <1>2
<1>4. RoundHalfEven(d * new, SCALE) \in 0 .. n * new
  BY <1>2, <1>3, QuotientWithin, ScaleAssumption
<1>5. QED
  BY <1>4 DEF Revalued, DecMul, d

\* Neither of a tranche's two values is negative, and the new one is at most what its
\* quantity costs at the new rate.
LEMMA ValuesWithin ==
  ASSUME NEW n \in Nat, NEW old \in Nat \ {0}, NEW new \in Nat \ {0}, NEW mgmt \in Int,
         LendingFee!IsShare(mgmt), NEW perf \in Int, LendingFee!IsShare(perf)
  PROVE  /\ OldValue(n, old, mgmt) \in Nat
         /\ NewValue(n, old, new, mgmt, perf) \in 0 .. n * new
<1> DEFINE v == OldValue(n, old, mgmt)
           u == Revalued(v, old, new)
           w == NewValue(n, old, new, mgmt, perf)
<1>1. /\ One - mgmt \in Nat /\ One - mgmt <= One /\ One - perf \in Nat /\ One - perf <= One
  BY ScaleAssumption DEF LendingFee!IsShare, LendingFee!One, One
<1>2. v \in 0 .. n * old
  <2>1. n * old \in Nat
    OBVIOUS
  <2>2. DecMul(Dec(n), old) = n * old
    <3>1. n \in Int /\ old \in Int
      OBVIOUS
    <3>2. QED
      BY <3>1, WholeTimes, Zenon
  <2>3. DecMul(n * old, One - mgmt) \in 0 .. n * old
    BY <1>1, <2>1, ShareWithin, Zenon
  <2>4. QED
    BY <2>2, <2>3, Zenon DEF OldValue
<1>3. v \in Nat
  BY <1>2
<1> HIDE DEF v
<1>4. u \in 0 .. n * new
  BY <1>2, RevaluedWithin
<1>5. w = IF u > v THEN v + DecMul(u - v, One - perf) ELSE u
  BY DEF NewValue, LendingFee!AfterPerfFee, LendingFee!DecMul, DecMul,
         LendingFee!RoundHalfEven, RoundHalfEven, LendingFee!One, One, u, v
<1> HIDE DEF u, w
<1>6. w \in 0 .. n * new
  <2>1. u \in Nat /\ n * new \in Nat /\ u <= n * new
    BY <1>4
  <2>2. CASE u > v
    <3>1. u - v \in Nat
      BY <1>3, <2>1, <2>2
    <3>2. DecMul(u - v, One - perf) \in 0 .. u - v
      BY <1>1, <3>1, ShareWithin, Zenon
    <3>3. w = v + DecMul(u - v, One - perf)
      BY <1>5, <2>2
    <3>4. QED
      BY <1>3, <2>1, <3>2, <3>3
  <2>3. CASE ~(u > v)
    BY <1>4, <1>5, <2>3
  <2>4. QED
    BY <2>2, <2>3
<1>7. QED
  BY <1>3, <1>6 DEF v, w

\* Two values that T tokens cover, each divided by the rate and floored, are no more than T
\* tokens together: both quotients may be rounded up, but not by a token.
LEMMA FlooredWithin ==
  ASSUME NEW T \in Nat, NEW new \in Nat \ {0}, NEW s \in Nat, NEW j \in Nat,
         s + j <= T * new, SCALE > 1
  PROVE  LET a == DecFloor(DecDiv(s, new))
             b == DecFloor(DecDiv(j, new))
         IN  a \in 0 .. T /\ b \in 0 .. T /\ a + b <= T
<1> DEFINE x == DecDiv(s, new)
           y == DecDiv(j, new)
           a == DecFloor(x)
           b == DecFloor(y)
<1>1. /\ s * SCALE \in Nat /\ j * SCALE \in Nat /\ T * SCALE \in Nat /\ T * new \in Nat
      /\ (T * SCALE) * new = (T * new) * SCALE
      /\ (s + j) * SCALE = s * SCALE + j * SCALE
  BY ScaleAssumption
<1>2. /\ s * SCALE <= (T * SCALE) * new /\ j * SCALE <= (T * SCALE) * new
      /\ (s + j) * SCALE <= (T * SCALE) * new
  <2>1. s <= T * new /\ j <= T * new
    BY <1>1
  <2>2. /\ s * SCALE <= (T * new) * SCALE /\ j * SCALE <= (T * new) * SCALE
        /\ (s + j) * SCALE <= (T * new) * SCALE
    BY <1>1, <2>1, ScaleAssumption
  <2>3. QED
    BY <1>1, <2>2
<1>3. x \in 0 .. T * SCALE /\ y \in 0 .. T * SCALE
  BY <1>1, <1>2, QuotientWithin DEF DecDiv
<1>4. 2 * (new * x - s * SCALE) <= new /\ 2 * (new * y - j * SCALE) <= new
  BY <1>1, RoundingError DEF DecDiv
<1> HIDE DEF x, y
<1>5. x + y <= T * SCALE + 1
  <2>1. SUFFICES ASSUME x + y >= T * SCALE + 2 PROVE FALSE
    BY <1>1, <1>3
  <2>2. new * (x + y) >= new * (T * SCALE + 2)
    BY <1>1, <1>3, <2>1
  <2>3. /\ new * (x + y) = new * x + new * y
        /\ new * (T * SCALE + 2) = (T * SCALE) * new + 2 * new
        /\ new * x \in Int /\ new * y \in Int /\ (T * SCALE) * new \in Int
    BY <1>1, <1>3
  <2>4. QED
    BY <1>1, <1>2, <1>4, <2>2, <2>3
<1>6. a \in 0 .. T /\ b \in 0 .. T
  BY <1>1, <1>3, FloorWithin DEF Dec
<1>7. SCALE * a <= x /\ SCALE * b <= y
  BY <1>1, <1>3, FloorFact
<1> HIDE DEF a, b
<1>8. a + b <= T
  <2>1. SUFFICES ASSUME a + b >= T + 1 PROVE FALSE
    BY <1>6
  <2>2. SCALE * (a + b) >= SCALE * (T + 1)
    BY <1>6, <2>1, ScaleAssumption
  <2>3. /\ SCALE * (a + b) = SCALE * a + SCALE * b /\ SCALE * (T + 1) = T * SCALE + SCALE
        /\ SCALE * a \in Int /\ SCALE * b \in Int
    BY <1>6, ScaleAssumption
  <2>4. QED
    BY <1>1, <1>3, <1>5, <1>7, <2>2, <2>3, ScaleAssumption
<1>9. QED
  BY <1>6, <1>8 DEF a, b, x, y

LEMMA LendingFeeReturns ==
  ASSUME NEW q \in Quantities, Total(q) \in U64, NEW old \in Nat, NEW new \in Nat,
         NEW split \in Int, NEW mgmt \in Int, NEW perf \in Int, SCALE > 1,
         LendingFee!IsShare(split), LendingFee!IsShare(mgmt), LendingFee!IsShare(perf)
  PROVE  LendingFee!execute_plugin(q, old, new, split, mgmt, perf) # {}
<1> DEFINE O(i) == LendingFee!DecMul(LendingFee!DecMul(LendingFee!Dec(q[i]), old),
                                     LendingFee!One - mgmt)
           W(i) == LendingFee!AfterPerfFee(
                     O(i), LendingFee!DecMul(LendingFee!DecDiv(O(i), old), new), perf)
           total == W(0) + W(1)
           senior == IF W(0) > O(0)
                     THEN O(0) + LendingFee!DecMul(W(0) - O(0),
                                                   LendingFee!InterestShare(split))
                     ELSE LendingFee!Lesser(O(0), total)
           rest == LendingFee!DecFloor(LendingFee!DecMul(LendingFee!Dec(LendingFee!Total(q)),
                                                         LendingFee!One - mgmt))
<1>0. q[0] \in Nat /\ q[1] \in Nat /\ Total(q) = q[0] + q[1]
  BY QuantityIsNat DEF Total
<1>1. \A a, b : /\ LendingFee!DecMul(a, b) = DecMul(a, b)
                /\ LendingFee!DecDiv(a, b) = DecDiv(a, b)
  BY Zenon DEF LendingFee!DecMul, LendingFee!DecDiv, LendingFee!RoundHalfEven,
               DecMul, DecDiv, RoundHalfEven
<1>2. \A a, b : LendingFee!ReturnsFloors(q, a, b) = ReturnsFloors(q, a, b)
  BY Zenon DEF LendingFee!ReturnsFloors, ReturnsFloors, LendingFee!Returns, Returns,
         LendingFee!RedeemLogicExecuteResult, RedeemLogicExecuteResult,
         LendingFee!Quantities, Quantities, LendingFee!U64, U64, LendingFee!Tranches,
         Tranches, LendingFee!Remainder, Remainder, LendingFee!Total, Total,
         LendingFee!Split, Split, LendingFee!DecFloor, DecFloor
<1>3. CASE old = 0 \/ new = 0
  <2>1. rest \in 0 .. Total(q)
    <3>1. One - mgmt \in Nat /\ One - mgmt <= One /\ Dec(Total(q)) \in Nat
      BY <1>0, ScaleAssumption DEF LendingFee!IsShare, LendingFee!One, One, Dec
    <3>2. DecMul(Dec(Total(q)), One - mgmt) \in 0 .. Dec(Total(q))
      BY <3>1, ShareWithin, Zenon
    <3> DEFINE x == DecMul(Dec(Total(q)), One - mgmt)
    <3>3. rest = DecFloor(x)
      BY <1>1, Zenon DEF LendingFee!DecFloor, DecFloor, LendingFee!Dec, Dec, LendingFee!One,
                         One, LendingFee!Total, Total
    <3> HIDE DEF x, rest
    <3>4. Total(q) \in Nat /\ x \in Int /\ 0 <= x /\ x <= Dec(Total(q))
      BY <1>0, <3>1, <3>2 DEF x
    <3>5. QED
      BY <3>3, <3>4, FloorWithin, Zenon
  <2> HIDE DEF rest
  <2>2. Returns(Split(rest, 0), Remainder(q, Split(rest, 0))) # {}
    BY <1>0, <2>1, SplitReturns
  <2>3. Remainder(q, Split(rest, 0)) = Total(q) - rest
    BY <1>0, <2>1 DEF Remainder, Total, Split, Tranches
  <2>4. LendingFee!execute_plugin(q, old, new, split, mgmt, perf)
          = {r \in LendingFee!Returns(LendingFee!Split(rest, 0), LendingFee!Total(q) - rest) :
               LendingFee!Total(q) \in LendingFee!U64}
    BY <1>3, Zenon DEF LendingFee!execute_plugin, rest
  <2>5. LendingFee!Returns(LendingFee!Split(rest, 0), LendingFee!Total(q) - rest)
          = Returns(Split(rest, 0), Total(q) - rest)
    BY Zenon DEF LendingFee!Returns, Returns,
         LendingFee!RedeemLogicExecuteResult, RedeemLogicExecuteResult,
         LendingFee!Quantities, Quantities, LendingFee!U64, U64, LendingFee!Tranches,
         Tranches, LendingFee!Total, Total, LendingFee!Split, Split
  <2>6. LendingFee!Total(q) \in LendingFee!U64
    BY DEF LendingFee!Total, Total, LendingFee!U64, U64
  <2>7. QED
    BY <2>2, <2>3, <2>4, <2>5, <2>6
<1>4. CASE ~(old = 0 \/ new = 0)
  <2>1. LendingFee!execute_plugin(q, old, new, split, mgmt, perf)
          = LendingFee!ReturnsFloors(q, LendingFee!DecDiv(senior, new),
                                     LendingFee!DecDiv(total - senior, new))
    BY <1>4, Zenon DEF LendingFee!execute_plugin
  <2>2. \A i : /\ O(i) = OldValue(q[i], old, mgmt)
               /\ W(i) = NewValue(q[i], old, new, mgmt, perf)
    BY <1>1, Zenon DEF LendingFee!Dec, LendingFee!One, Dec, One, OldValue, Revalued, NewValue
  <2>3. O(0) \in Nat /\ W(0) \in 0 .. q[0] * new /\ W(1) \in 0 .. q[1] * new
    <3>1. old \in Nat \ {0} /\ new \in Nat \ {0}
      BY <1>4
    <3>2. /\ OldValue(q[0], old, mgmt) \in Nat
          /\ NewValue(q[0], old, new, mgmt, perf) \in 0 .. q[0] * new
      BY <1>0, <3>1, ValuesWithin, Zenon
    <3>3. NewValue(q[1], old, new, mgmt, perf) \in 0 .. q[1] * new
      BY <1>0, <3>1, ValuesWithin, Zenon
    <3>4. QED
      BY <2>2, <3>2, <3>3, Zenon
  <2> DEFINE v0 == O(0)
             w0 == W(0)
             w1 == W(1)
             gain == LendingFee!DecMul(w0 - v0, LendingFee!InterestShare(split))
  <2>4. /\ w0 \in Nat /\ w1 \in Nat /\ v0 \in Nat /\ total = w0 + w1
        /\ senior = IF w0 > v0 THEN v0 + gain ELSE LendingFee!Lesser(v0, total)
    <3>1. w0 \in Nat /\ w1 \in Nat /\ v0 \in Nat
      <4> HIDE DEF O, W
      <4>1. q[0] * new \in Nat /\ q[1] * new \in Nat
        BY <1>0
      <4>2. QED
        BY <2>3, <4>1
    <3>2. total = w0 + w1
      OBVIOUS
    <3>3. senior = IF w0 > v0 THEN v0 + gain ELSE LendingFee!Lesser(v0, total)
      BY Zenon
    <3>4. QED
      BY <3>1, <3>2, <3>3, Zenon
  <2>5. w0 > v0 => gain \in 0 .. w0 - v0
    <3> HIDE DEF O, W
    <3>1. SUFFICES ASSUME w0 > v0 PROVE gain \in 0 .. w0 - v0
      OBVIOUS
    <3> HIDE DEF v0, w0
    <3>2. w0 - v0 \in Nat
      BY <2>4, <3>1
    <3>3. One - split \in Nat /\ One - split <= One
      BY ScaleAssumption DEF LendingFee!IsShare, LendingFee!One, One
    <3>4. DecMul(w0 - v0, One - split) \in 0 .. w0 - v0
      BY <3>2, <3>3, ShareWithin, Zenon
    <3>5. gain = DecMul(w0 - v0, One - split)
      BY <1>1, Zenon DEF LendingFee!InterestShare, LendingFee!One, One
    <3>6. QED
      BY <3>4, <3>5, Zenon
  <2>6. total \in 0 .. Total(q) * new
    <3> HIDE DEF O, W, total
    <3>1. Total(q) * new = q[0] * new + q[1] * new /\ q[0] * new \in Nat /\ q[1] * new \in Nat
      BY <1>0
    <3>2. w0 <= q[0] * new /\ w1 <= q[1] * new
      <4>1. W(0) <= q[0] * new /\ W(1) <= q[1] * new
        BY <2>3, <3>1
      <4>2. QED
        BY <4>1
    <3> HIDE DEF w0, w1
    <3>3. QED
      BY <2>4, <3>1, <3>2
  <2> HIDE DEF O, W, v0, w0, w1, gain, total
  <2>7. senior \in 0 .. total
    <3> HIDE DEF senior
    <3>1. CASE w0 > v0
      BY <2>4, <2>5, <3>1
    <3>2. CASE ~(w0 > v0)
      <4>1. senior = LendingFee!Lesser(v0, total)
        BY <2>4, <3>2
      <4>2. QED
        BY <2>4, <4>1 DEF LendingFee!Lesser
    <3>3. QED
      BY <3>1, <3>2
  <2> HIDE DEF senior
  <2> DEFINE junior == total - senior
             a == DecFloor(DecDiv(senior, new))
             b == DecFloor(DecDiv(junior, new))
  <2>8. /\ senior \in Nat /\ junior \in Nat /\ senior + junior <= Total(q) * new
        /\ Total(q) \in Nat /\ new \in Nat \ {0}
    <3>1. Total(q) \in Nat /\ Total(q) * new \in Nat
      BY <1>0
    <3>2. QED
      BY <1>4, <2>6, <2>7, <3>1
  <2>9. a \in 0 .. Total(q) /\ b \in 0 .. Total(q) /\ a + b <= Total(q)
    <3> HIDE DEF junior
    <3>1. QED
      BY <2>8, FlooredWithin
  <2>10. Returns(Split(a, b), Remainder(q, Split(a, b))) # {}
    <3> HIDE DEF a, b
    <3>1. QED
      BY <2>9, SplitReturns
  <2>11. ReturnsFloors(q, DecDiv(senior, new), DecDiv(junior, new)) # {}
    BY <2>10 DEF ReturnsFloors
  <2>12. LendingFee!execute_plugin(q, old, new, split, mgmt, perf)
           = ReturnsFloors(q, DecDiv(senior, new), DecDiv(junior, new))
    BY <1>1, <1>2, <2>1, Zenon
  <2>13. QED
    BY <2>11, <2>12, Zenon
<1>5. QED
  BY <1>3, <1>4

\* The growth of the senior tranche is at most that of the rate, and the roundings of the
\* preserved quantity, the ratio of the rates and their product add up to less than half a
\* token, as long as the ratio leaves room for as many units as there are tokens.
LEMMA GrownWithin ==
  ASSUME NEW n \in Nat, NEW room \in Nat, n <= room, NEW old \in Nat \ {0}, NEW new \in Nat,
         new > old, new + (room + 2) * old <= SCALE * old,
         NEW growth \in Nat, One + growth <= DecDiv(new, old)
  PROVE  DecRound(DecMul(Preserved(n, old, new), One + growth)) \in 0 .. n
<1> DEFINE p == Preserved(n, old, new)
           ratio == DecDiv(new, old)
           x == DecMul(p, ratio)
           y == DecMul(p, One + growth)
           k == new * old
<1>1. /\ (n * old) * SCALE \in Nat /\ new * SCALE \in Nat /\ k \in Nat /\ SCALE \in Nat
      /\ new \in Nat \ {0} /\ n * old \in Nat /\ k > 0
  BY ScaleAssumption
<1>2. p \in Nat /\ 2 * (new * p - (n * old) * SCALE) <= new
  <2> DEFINE v == (n * old) * SCALE
  <2>1. v \in Nat /\ v \in Int
    BY <1>1
  <2> HIDE DEF v
  <2>2. RoundHalfEven(v, new) \in Nat /\ 2 * (new * RoundHalfEven(v, new) - v) <= new
    BY <1>1, <2>1, RoundingIsNat, RoundingError, Zenon
  <2>3. p = RoundHalfEven(v, new)
    BY DEF Preserved, DecDiv, v
  <2>4. QED
    BY <2>2, <2>3 DEF v
<1>3. ratio \in Nat /\ 2 * (old * ratio - new * SCALE) <= old
  BY <1>1, RoundingIsNat, RoundingError DEF DecDiv
<1>4. One + growth \in Nat
  BY ScaleAssumption DEF One
<1> HIDE DEF p, ratio
<1>5. p * ratio \in Nat /\ p * (One + growth) \in Nat /\ p * (One + growth) <= p * ratio
  BY <1>2, <1>3, <1>4 DEF ratio
<1>6. x \in Nat /\ y \in Nat /\ y <= x
  <2>1. (p * (One + growth)) * SCALE <= (p * ratio) * SCALE
    BY <1>5, ScaleAssumption
  <2>2. y <= x
    BY <1>5, <2>1, RoundingMonotone, ScaleAssumption DEF DecMul
  <2>3. QED
    BY <1>5, <2>2, RoundingIsNat, ScaleAssumption DEF DecMul
<1>7. 2 * (SCALE * x) <= 2 * (p * ratio) + SCALE
  <2>1. 2 * (SCALE * x - p * ratio) <= SCALE
    BY <1>5, RoundingError, ScaleAssumption DEF DecMul
  <2>2. SCALE * x \in Int
    BY <1>6, ScaleAssumption
  <2>3. QED
    BY <1>5, <2>1, <2>2, ScaleAssumption
<1> HIDE DEF x, y
<1>8. 4 * (k * (p * ratio))
        <= 4 * (n * k) * SCALE * SCALE + 2 * (n * old * old) * SCALE
             + 2 * (new * new) * SCALE + k
  <2> DEFINE A == 2 * (n * old) * SCALE + new
             B == 2 * new * SCALE + old
  <2>1. 2 * (new * p) <= A /\ 2 * (old * ratio) <= B
    <3>1. new * p \in Int /\ old * ratio \in Int
      BY <1>2, <1>3
    <3>2. QED
      BY <1>1, <1>2, <1>3, <3>1
  <2>2. 2 * (new * p) \in Nat /\ 2 * (old * ratio) \in Nat /\ A \in Nat /\ B \in Nat
    BY <1>1, <1>2, <1>3
  <2>3. A * B = 4 * (n * k) * SCALE * SCALE + 2 * (n * old * old) * SCALE
                  + 2 * (new * new) * SCALE + k
    BY <1>1
  <2>4. (2 * (new * p)) * (2 * (old * ratio)) = 4 * (k * (p * ratio))
    BY <1>1, <1>2, <1>3
  <2> HIDE DEF A, B
  <2>5. (2 * (new * p)) * (2 * (old * ratio)) <= A * B
    <3> DEFINE s == 2 * (new * p)
               t == 2 * (old * ratio)
    <3> HIDE DEF s, t
    <3>1. s * t <= A * t /\ A * t <= A * B /\ s * t \in Nat /\ A * t \in Nat /\ A * B \in Nat
      BY <2>1, <2>2 DEF s, t
    <3>2. QED
      BY <3>1 DEF s, t
  <2>6. QED
    BY <2>3, <2>4, <2>5
<1>9. 2 * x < 2 * (n * SCALE) + SCALE
  <2>1. SUFFICES ASSUME 2 * x >= 2 * (n * SCALE) + SCALE PROVE FALSE
    BY <1>6, ScaleAssumption
  <2>2. SCALE * (2 * x) >= SCALE * (2 * (n * SCALE) + SCALE)
    BY <1>6, <2>1, ScaleAssumption
  <2>3. 2 * (p * ratio) + SCALE >= 2 * (n * SCALE * SCALE) + SCALE * SCALE
    <3>1. /\ SCALE * (2 * x) = 2 * (SCALE * x)
          /\ SCALE * (2 * (n * SCALE) + SCALE) = 2 * (n * SCALE * SCALE) + SCALE * SCALE
          /\ SCALE * x \in Int /\ n * SCALE * SCALE \in Int /\ SCALE * SCALE \in Int
      BY <1>6, ScaleAssumption
    <3>2. QED
      BY <1>5, <1>7, <2>2, <3>1, ScaleAssumption
  <2>4. (2 * k) * (2 * (p * ratio) + SCALE)
          >= (2 * k) * (2 * (n * SCALE * SCALE) + SCALE * SCALE)
    <3> DEFINE L == 2 * (p * ratio) + SCALE
               R == 2 * (n * SCALE * SCALE) + SCALE * SCALE
    <3>1. L \in Int /\ R \in Int /\ L >= R
      <4>1. n * SCALE * SCALE \in Int /\ SCALE * SCALE \in Int
        BY ScaleAssumption
      <4>2. QED
        BY <1>5, <2>3, <4>1, ScaleAssumption
    <3> HIDE DEF L, R, k
    <3>2. (2 * k) * L >= (2 * k) * R
      BY <1>1, <3>1
    <3>3. QED
      BY <3>2 DEF L, R
  <2>5. /\ (2 * k) * (2 * (p * ratio) + SCALE) = 4 * (k * (p * ratio)) + 2 * (k * SCALE)
        /\ (2 * k) * (2 * (n * SCALE * SCALE) + SCALE * SCALE)
             = 4 * (n * k) * SCALE * SCALE + 2 * (k * SCALE * SCALE)
    <3> DEFINE z == p * ratio
    <3> HIDE DEF k, z
    <3>1. z \in Nat
      BY <1>5 DEF z
    <3>2. (2 * k) * (2 * z + SCALE) = 4 * (k * z) + 2 * (k * SCALE)
      BY <1>1, <3>1
    <3>3. (2 * k) * (2 * (n * SCALE * SCALE) + SCALE * SCALE)
             = 4 * (n * k) * SCALE * SCALE + 2 * (k * SCALE * SCALE)
      BY <1>1
    <3>4. QED
      BY <3>2, <3>3 DEF z
  <2>6. 2 * (k * SCALE * SCALE)
          <= 2 * (n * old * old) * SCALE + 2 * (new * new) * SCALE + k + 2 * (k * SCALE)
    <3> DEFINE z == 4 * (n * k) * SCALE * SCALE
               w == 4 * (k * (p * ratio))
    <3>1. /\ z \in Int /\ w \in Int /\ k * SCALE * SCALE \in Int /\ k * SCALE \in Int
          /\ 2 * (n * old * old) * SCALE \in Int /\ 2 * (new * new) * SCALE \in Int
      BY <1>1, <1>5
    <3> HIDE DEF z, w, k
    <3>2. w <= z + 2 * (n * old * old) * SCALE + 2 * (new * new) * SCALE + k
      BY <1>8 DEF z, w
    <3>3. w + 2 * (k * SCALE) >= z + 2 * (k * SCALE * SCALE)
      BY <2>4, <2>5 DEF z, w
    <3>4. QED
      BY <1>1, <3>1, <3>2, <3>3
  <2>7. (n * old * old) * SCALE <= (room * k) * SCALE
    <3>1. n * old <= room * old /\ n * old \in Nat /\ room * old \in Nat
      OBVIOUS
    <3>2. (n * old) * old <= (room * old) * old /\ (room * old) * old <= (room * old) * new
      BY <3>1
    <3>3. (room * old) * new = room * k /\ (n * old) * old = n * old * old
      OBVIOUS
    <3>4. n * old * old \in Int /\ room * k \in Int /\ n * old * old <= room * k
      BY <3>1, <3>2, <3>3
    <3>5. QED
      BY <3>4, ScaleAssumption
  <2>8. (new * new) * SCALE + (room * k) * SCALE + 2 * (k * SCALE) <= k * SCALE * SCALE
    <3>1. (new * SCALE) * (new + (room + 2) * old) <= (new * SCALE) * (SCALE * old)
      <4> DEFINE l == new + (room + 2) * old
                 r == SCALE * old
                 m == new * SCALE
      <4>1. l \in Int /\ r \in Int /\ m \in Nat /\ l <= r
        BY <1>1
      <4> HIDE DEF l, r, m
      <4>2. m * l <= m * r
        BY <4>1
      <4>3. QED
        BY <4>2 DEF l, r, m
    <3>2. (new * SCALE) * (new + (room + 2) * old)
            = (new * new) * SCALE + (room * k) * SCALE + 2 * (k * SCALE)
      BY <1>1
    <3>3. (new * SCALE) * (SCALE * old) = k * SCALE * SCALE
      BY <1>1
    <3>4. QED
      BY <3>1, <3>2, <3>3
  <2>9. 2 * (k * SCALE) <= k
    <3>1. /\ k * SCALE * SCALE \in Int /\ k * SCALE \in Int /\ (room * k) * SCALE \in Int
          /\ (n * old * old) * SCALE \in Int /\ (new * new) * SCALE \in Int
          /\ 2 * (n * old * old) * SCALE = 2 * ((n * old * old) * SCALE)
          /\ 2 * (new * new) * SCALE = 2 * ((new * new) * SCALE)
      BY <1>1
    <3> HIDE DEF k
    <3>2. QED
      BY <1>1, <2>6, <2>7, <2>8, <3>1
  <2>10. k * SCALE >= k
    <3> HIDE DEF k
    <3>1. QED
      BY <1>1, ScaleAssumption
  <2>11. k * SCALE \in Int
    BY <1>1
  <2> HIDE DEF k
  <2>12. QED
    BY <1>1, <2>9, <2>10, <2>11
<1>10. DecRound(y) \in Nat /\ 2 * (SCALE * DecRound(y) - y) <= SCALE
  <2>1. y \in Int /\ SCALE \in Nat \ {0}
    BY <1>6, ScaleAssumption
  <2>2. QED
    BY <1>6, <2>1, RoundingIsNat, RoundingError, Zenon DEF DecRound
<1> DEFINE r == DecRound(y)
<1> HIDE DEF r
<1>11. r <= n
  <2>1. SUFFICES ASSUME r >= n + 1 PROVE FALSE
    BY <1>10 DEF r
  <2>2. SCALE * r >= SCALE * (n + 1) /\ SCALE * (n + 1) = n * SCALE + SCALE
    BY <1>10, <2>1, ScaleAssumption DEF r
  <2>3. SCALE * r \in Int /\ n * SCALE \in Int /\ 2 * (SCALE * r - y) <= SCALE
    BY <1>10, ScaleAssumption DEF r
  <2>4. QED
    BY <1>6, <1>9, <2>2, <2>3, ScaleAssumption
<1>12. QED
  BY <1>10, <1>11 DEF r, y, p

\* No rate is so many times another that the rounding of their ratio could be worth half a
\* token; with 28 digits, no rate is 10^28 - 2^64 times another.
RatiosFit == \A a, b \in Rates : a > 0 => b + (MaxU64 + 2) * a <= SCALE * a

LEMMA LendingSenior ==
  ASSUME NEW q \in Quantities, NEW old \in Nat \ {0}, NEW new \in Nat,
         NEW split \in Int, 0 <= split, split <= One,
         new > old => new + (MaxU64 + 2) * old <= SCALE * old
  PROVE  DecRound(Lending!SeniorQuantity(q, old, new, split)) \in 0 .. Total(q)
<1> DEFINE x == Lending!SeniorQuantity(q, old, new, split)
           p == Preserved(q[0], old, new)
           ratio == DecDiv(new, old)
           growth == DecMul(ratio - One, One - split)
<1>1. /\ q[0] \in Nat /\ q[0] <= MaxU64 /\ Total(q) \in Nat /\ q[0] <= Total(q)
      /\ q[0] * old \in Nat /\ Dec(Total(q)) \in Nat /\ MaxU64 \in Nat
  BY QuantityIsNat, MaxU64Assumption, ScaleAssumption
  DEF Quantities, U64, Tranches, Total, Dec
<1>2. DecRound(Dec(Total(q))) = Total(q)
  BY <1>1, RoundingExact, ScaleAssumption DEF DecRound, Dec
<1>3. DecMul(Dec(q[0]), old) = q[0] * old
  <2>1. q[0] \in Int /\ old \in Int
    BY <1>1
  <2>2. QED
    BY <2>1, WholeTimes, Zenon
<1>4. x = IF new > old THEN DecMul(p, One + growth)
          ELSE IF new = 0 THEN Dec(Total(q)) ELSE Lesser(Dec(Total(q)), p)
  <2>1. x = IF new > old
            THEN DecMul(DecDiv(DecMul(Dec(q[0]), old), new), One + growth)
            ELSE IF new = 0 THEN Dec(Total(q))
                 ELSE Lesser(Dec(Total(q)), DecDiv(DecMul(Dec(q[0]), old), new))
    BY DEF Lending!SeniorQuantity, Lending!DecMul, DecMul, Lending!DecDiv, DecDiv,
           Lending!RoundHalfEven, RoundHalfEven, Lending!Dec, Dec, Lending!One, One,
           Lending!Lesser, Lesser, Lending!Total, Total
  <2>2. QED
    BY <1>3, <2>1 DEF Preserved
<1>5. CASE new > old
  <2>1. ratio \in Nat /\ ratio >= One
    <3>1. new * SCALE \in Nat /\ SCALE * old \in Int /\ SCALE * old <= new * SCALE
      BY <1>5, ScaleAssumption
    <3>2. (SCALE * old) * old <= (new * SCALE) * old
      BY <3>1
    <3>3. RoundHalfEven(SCALE * old, old) <= RoundHalfEven(new * SCALE, old)
      BY <3>1, <3>2, RoundingMonotone
    <3>4. RoundHalfEven(SCALE * old, old) = SCALE
      BY RoundingExact, ScaleAssumption
    <3>5. RoundHalfEven(new * SCALE, old) \in Nat
      BY <3>1, RoundingIsNat
    <3>6. QED
      BY <3>3, <3>4, <3>5 DEF DecDiv, One
  <2> HIDE DEF ratio
  <2>2. growth \in 0 .. ratio - One
    <3>1. ratio - One \in Nat /\ One - split \in Nat /\ One - split <= One
      BY <2>1, ScaleAssumption DEF One
    <3>2. QED
      BY <3>1, ShareWithin, Zenon
  <2> HIDE DEF growth
  <2>3. growth \in Nat /\ One + growth <= DecDiv(new, old)
    BY <2>1, <2>2, ScaleAssumption DEF One, ratio
  <2>4. DecRound(DecMul(p, One + growth)) \in 0 .. q[0]
    BY <1>1, <1>5, <2>3, GrownWithin
  <2> HIDE DEF x, p
  <2>5. x = DecMul(p, One + growth)
    BY <1>4, <1>5
  <2>6. QED
    BY <1>1, <2>4, <2>5 DEF x
<1>6. CASE ~(new > old) /\ new = 0
  <2> HIDE DEF x, p, growth
  <2>1. x = Dec(Total(q))
    BY <1>4, <1>6
  <2>2. QED
    BY <1>1, <1>2, <2>1 DEF x
<1>7. CASE ~(new > old) /\ new # 0
  <2>1. p \in Nat
    <3>1. (q[0] * old) * SCALE \in Nat /\ new \in Nat \ {0}
      BY <1>1, <1>7, ScaleAssumption
    <3>2. QED
      BY <3>1, RoundingIsNat DEF Preserved, DecDiv
  <2> HIDE DEF x, p, growth
  <2>2. x = Lesser(Dec(Total(q)), p)
    BY <1>4, <1>7
  <2>3. x \in Nat /\ x <= Total(q) * SCALE
    BY <1>1, <2>1, <2>2 DEF Lesser, Dec
  <2>4. DecRound(x) \in 0 .. Total(q)
    BY <1>1, <2>3, QuotientWithin, ScaleAssumption DEF DecRound
  <2>5. QED
    BY <2>4 DEF x
<1>8. QED
  BY <1>5, <1>6, <1>7

LEMMA LendingReturns ==
  ASSUME NEW q \in Quantities, Total(q) \in U64, NEW old \in Nat, NEW new \in Nat,
         NEW split \in Int, 0 <= split, split <= One, NEW fee \in Nat,
         old > 0 => new + (MaxU64 + 2) * old <= SCALE * old
  PROVE  Lending!execute_plugin(q, old, new, split, fee) # {}
<1>1. \A a, b : Lending!Returns(a, b) = Returns(a, b)
  BY Zenon DEF Lending!Returns, Returns, Lending!RedeemLogicExecuteResult,
     RedeemLogicExecuteResult, Lending!Quantities, Quantities, Lending!U64, U64,
     Lending!Tranches, Tranches
<1>2. CASE old = 0
  <2>1. Returns(q, 0) # {}
    BY InRangeReturns, MaxU64Assumption DEF U64
  <2>2. QED
    BY <1>1, <1>2, <2>1 DEF Lending!execute_plugin
<1>3. CASE old # 0
  <2> DEFINE x == Lending!SeniorQuantity(q, old, new, split)
             senior == DecRound(x)
             junior == Total(q) - senior
             sf == Lending!TrancheFee(senior, fee)
             jf == Lending!TrancheFee(junior, fee)
  <2>1. senior \in 0 .. Total(q)
    <3>1. old \in Nat \ {0} /\ (new > old => new + (MaxU64 + 2) * old <= SCALE * old)
      BY <1>3
    <3>2. QED
      BY <3>1, LendingSenior
  <2> HIDE DEF x, senior
  <2>2. /\ Total(q) \in Nat /\ Total(q) <= MaxU64 /\ senior \in Nat /\ junior \in Nat
        /\ senior + junior = Total(q)
    BY <2>1, QuantityIsNat, MaxU64Assumption DEF U64
  <2> HIDE DEF junior
  <2>3. sf \in 0 .. senior /\ jf \in 0 .. junior
    BY <2>2 DEF Lending!TrancheFee
  <2> HIDE DEF sf, jf
  <2>4. Split(senior - sf, junior - jf) \in Quantities /\ sf + jf \in U64
    BY <2>2, <2>3, MaxU64Assumption DEF Split, Quantities, U64, Tranches
  <2>5. Returns(Split(senior - sf, junior - jf), sf + jf) # {}
    BY <2>4, InRangeReturns
  <2>6. /\ Lending!Total(q) = Total(q) /\ Lending!U64 = U64
        /\ Lending!DecRound(x) = senior
        /\ \A a, b : Lending!Split(a, b) = Split(a, b)
    BY Zenon DEF Lending!Total, Total, Lending!U64, U64, Lending!DecRound, DecRound,
             Lending!RoundHalfEven, RoundHalfEven, senior, Lending!Split, Split,
             Lending!Tranches, Tranches
  <2>7. senior \in U64 /\ junior \in U64
    BY <2>2, MaxU64Assumption DEF U64
  <2>8. Lending!execute_plugin(q, old, new, split, fee)
          = Lending!Returns(Lending!Split(senior - sf, junior - jf), sf + jf)
    BY <1>3, <2>6, <2>7, Zenon DEF Lending!execute_plugin, x, junior, sf, jf
  <2>9. QED
    BY <1>1, <2>5, <2>6, <2>8
<1>4. QED
  BY <1>2, <1>3

\* The lending programs never block a refresh either, after whatever refreshes came before:
\* the three roundings of the growing senior tranche never lift it above the collateral, and
\* the floors of the two values never add up to more than it.
THEOREM LendingNeverBlocked ==
  ASSUME Plugins \subseteq Clamped \union {"lending", "lending_fee"}, RatiosFit,
         \A q \in [Tranches -> Deposits] : Total(q) \in U64
  PROVE  Spec => []RefreshNeverBlocked
<1>1. Init /\ Typed => Solid
  BY DEF Init, Solid
<1>2. SCALE > 1
  <2>1. One + (MaxU64 + 2) * One <= SCALE * One
    BY RatesAssumption, ScaleAssumption DEF RatiosFit, One
  <2>2. QED
    BY <2>1, ScaleAssumption, MaxU64Assumption DEF One
<1>3. ASSUME Solid, NEW new \in FairValues, plugin \in {"lending", "lending_fee"},
             IsValid(rate, new)
      PROVE  Results(plugin, new) # {}
  <2>1. /\ rate[0] \in Nat /\ new[0] \in Nat /\ rate[0] \in Rates /\ new[0] \in Rates
        /\ rate \in FairValues
    BY <1>3, ValidIsNat DEF Solid, Typed, FairValues, FairValue
  <2>2. /\ quantity \in Quantities /\ Total(quantity) \in U64 /\ terms \in Terms
        /\ Accepts(plugin, terms)
    BY <1>3 DEF Solid, Typed
  <2>3. /\ terms.interest_split \in Int /\ terms.mgmt_fee \in Int /\ terms.perf_fee \in Int
        /\ terms.fixed_fee_per_tranche \in Nat
    BY <2>2, TermsAssumption, MaxU64Assumption DEF U64
  <2>4. CASE plugin = "lending"
    <3>1. 0 <= terms.interest_split /\ terms.interest_split <= One
      BY <2>2, <2>3, <2>4 DEF Accepts, Lending!initialize, Lending!One, One
    <3>2. rate[0] > 0 => new[0] + (MaxU64 + 2) * rate[0] <= SCALE * rate[0]
      BY <2>1 DEF RatiosFit
    <3>3. Lending!execute_plugin(quantity, rate[0], new[0], terms.interest_split,
                                 terms.fixed_fee_per_tranche) # {}
      BY <2>1, <2>2, <2>3, <3>1, <3>2, LendingReturns
    <3>4. QED
      BY <1>3, <2>4, <3>3 DEF Results, Execute, Lending!execute, Lending!IsValid, IsValid
  <2>5. CASE plugin = "lending_fee"
    <3>1. /\ LendingFee!IsShare(terms.interest_split) /\ LendingFee!IsShare(terms.mgmt_fee)
          /\ LendingFee!IsShare(terms.perf_fee)
      BY <2>2, <2>5 DEF Accepts, LendingFee!initialize
    <3>2. LendingFee!execute_plugin(quantity, rate[0], new[0], terms.interest_split,
                                    terms.mgmt_fee, terms.perf_fee) # {}
      BY <1>2, <2>1, <2>2, <2>3, <3>1, LendingFeeReturns
    <3>3. QED
      BY <1>3, <2>5, <3>2 DEF Results, Execute, LendingFee!execute, LendingFee!IsValid,
                              IsValid
  <2>6. QED
    BY <1>3, <2>4, <2>5
<1>4. Solid => RefreshNeverBlocked
  <2>1. SUFFICES ASSUME Solid, NEW new \in FairValues,
                        plugin # "digital" => IsValid(rate, new)
                 PROVE  Results(plugin, new) # {}
    BY DEF RefreshNeverBlocked
  <2>2. CASE plugin \in Clamped
    BY <2>1, <2>2, ExecuteReturns DEF Solid, Typed, Results
  <2>3. CASE plugin \in {"lending", "lending_fee"}
    BY <1>3, <2>1, <2>3
  <2>4. QED
    BY <2>1, <2>2, <2>3 DEF Solid, Typed
<1>5. QED
  BY <1>1, <1>4, NextKeepsSolid, TypedHolds, PTL DEF Spec

----------------------------------------------------------------------------
(* A settled forward, quoted either way *)

\* The reciprocal of a reciprocal is off by a small part only of either.
LEMMA ReciprocalTwice ==
  ASSUME NEW room \in Nat, NEW c \in Nat, NEW s \in Nat, NEW inv \in Nat, NEW gap \in Nat,
         s <= c + gap, c <= s + gap,
         4 * (room + 1) <= c, 4 * (room + 1) <= inv, 2 * (inv * gap) <= c + inv
  PROVE  3 * ((room + 1) * gap) <= c /\ 3 * ((room + 1) * gap) <= s
<1> DEFINE k == 4 * (room + 1)
           kg == k * gap
<1>1. k \in Nat \ {0} /\ k >= 4 /\ inv \in Nat \ {0} /\ kg \in Nat
  OBVIOUS
<1>2. k <= c /\ k <= inv
  OBVIOUS
<1>3. kg = 4 * ((room + 1) * gap) /\ (room + 1) * gap \in Nat
  OBVIOUS
<1> HIDE DEF k
<1>4. kg <= c
  <2>1. k * (2 * (inv * gap)) <= k * (c + inv)
    <3> DEFINE l == 2 * (inv * gap)
    <3>1. l \in Nat /\ l <= c + inv
      OBVIOUS
    <3> HIDE DEF l
    <3>2. k * l <= k * (c + inv)
      BY <1>1, <3>1
    <3>3. QED
      BY <3>2 DEF l
  <2>2. k * (2 * (inv * gap)) = inv * (2 * kg)
    BY <1>1
  <2>3. k * c <= inv * c /\ k * inv <= inv * c /\ k * (c + inv) = k * c + k * inv
    BY <1>1, <1>2
  <2>4. k * c \in Int /\ k * inv \in Int /\ inv * c \in Int /\ inv * (2 * c) = 2 * (inv * c)
    BY <1>1
  <2>5. inv * (2 * kg) \in Int
    BY <1>1
  <2> HIDE DEF kg
  <2>6. inv * (2 * kg) <= inv * (2 * c)
    BY <2>1, <2>2, <2>3, <2>4, <2>5
  <2>7. 2 * kg \in Int /\ 2 * c \in Int
    BY <1>1
  <2>8. 2 * kg <= 2 * c
    BY <1>1, <2>6, <2>7, Cancels
  <2>9. QED
    BY <1>1, <2>8
<1>5. 4 * gap <= kg
  BY <1>1
<1> HIDE DEF kg
<1> DEFINE rg == (room + 1) * gap
<1> HIDE DEF rg
<1>6. kg = 4 * rg /\ rg \in Nat
  BY <1>3 DEF rg
<1>7. 3 * rg <= c /\ 3 * rg <= s
  BY <1>1, <1>4, <1>5, <1>6
<1>8. QED
  BY <1>7 DEF rg

\* What a payoff p is worth at two rates so near to each other: more than the collateral of
\* T tokens at both, or nearly the same.
LEMMA SettledNearby ==
  ASSUME NEW T \in Nat, NEW room \in Nat, T <= room, SCALE >= 2, NEW p \in Int,
         NEW c \in Nat, NEW s \in Nat, NEW gap \in Nat, s <= c + gap, c <= s + gap,
         3 * ((room + 1) * gap) <= c, 3 * ((room + 1) * gap) <= s
  PROVE  LET y == DecMul(c, p)
             z == DecMul(s, p)
         IN  /\ y \in Int /\ z \in Int
             /\ \/ y >= Dec(T) /\ z >= Dec(T)
                \/ y <= -Dec(T) /\ z <= -Dec(T)
                \/ y - z \in (-SCALE) .. SCALE
<1> DEFINE y == DecMul(c, p)
           z == DecMul(s, p)
           cp == c * p
           sp == s * p
           abs == IF p >= 0 THEN p ELSE -p
           limit == (T * SCALE + 1) * SCALE
           Sy == SCALE * y
           Sz == SCALE * z
           SS == SCALE * SCALE
           Tok == T * SCALE
           drift == gap * abs
<1>1. abs \in Nat /\ cp \in Int /\ sp \in Int /\ limit \in Nat /\ Tok \in Nat /\ SS \in Nat
      /\ drift \in Nat
  BY ScaleAssumption
<1>2. /\ y \in Int /\ z \in Int
      /\ 2 * (Sy - cp) <= SCALE /\ 2 * (cp - Sy) <= SCALE
      /\ 2 * (Sz - sp) <= SCALE /\ 2 * (sp - Sz) <= SCALE
  <2> HIDE DEF cp, sp
  <2>1. /\ RoundHalfEven(cp, SCALE) \in Int
        /\ 2 * (SCALE * RoundHalfEven(cp, SCALE) - cp) <= SCALE
        /\ 2 * (cp - SCALE * RoundHalfEven(cp, SCALE)) <= SCALE
    BY <1>1, RoundingError, ScaleAssumption, Zenon
  <2>2. /\ RoundHalfEven(sp, SCALE) \in Int
        /\ 2 * (SCALE * RoundHalfEven(sp, SCALE) - sp) <= SCALE
        /\ 2 * (sp - SCALE * RoundHalfEven(sp, SCALE)) <= SCALE
    BY <1>1, RoundingError, ScaleAssumption, Zenon
  <2>3. y = RoundHalfEven(cp, SCALE) /\ z = RoundHalfEven(sp, SCALE)
    BY DEF DecMul, cp, sp
  <2> HIDE DEF y, z
  <2>4. QED
    BY <2>1, <2>2, <2>3, Zenon
<1> HIDE DEF y, z
<1>3. Sy \in Int /\ Sz \in Int /\ limit = SCALE * Tok + SCALE /\ SCALE * Tok \in Nat
  BY <1>1, <1>2, ScaleAssumption
<1>4. cp - sp <= drift /\ sp - cp <= drift
  <2>1. (c - s) * p = cp - sp /\ (s - c) * p = sp - cp /\ c - s <= gap /\ s - c <= gap
    OBVIOUS
  <2>2. CASE p >= 0
    <3>1. (c - s) * p <= gap * p /\ (s - c) * p <= gap * p
      BY <2>1, <2>2
    <3>2. QED
      BY <2>1, <2>2, <3>1
  <2>3. CASE p < 0
    <3>1. (c - s) * p = (s - c) * (-p) /\ (s - c) * p = (c - s) * (-p)
      OBVIOUS
    <3>2. (s - c) * (-p) <= gap * (-p) /\ (c - s) * (-p) <= gap * (-p)
      BY <2>1, <2>3
    <3>3. QED
      BY <2>1, <2>3, <3>1, <3>2
  <2>4. QED
    BY <2>2, <2>3
<1>5. ASSUME NEW m \in Nat, 3 * ((room + 1) * gap) <= m, m * abs <= limit
      PROVE  y - z \in (-SCALE) .. SCALE
  <2>1. 3 * drift <= SS
    <3>1. (3 * ((room + 1) * gap)) * abs <= m * abs
      <4> DEFINE l == 3 * ((room + 1) * gap)
      <4>1. l \in Nat /\ l <= m
        BY <1>5
      <4> HIDE DEF l, abs
      <4>2. l * abs <= m * abs
        BY <1>1, <4>1
      <4>3. QED
        BY <4>2 DEF l
    <3>2. (3 * ((room + 1) * gap)) * abs = (room + 1) * (3 * drift)
      <4> HIDE DEF abs
      <4>1. QED
        BY <1>1
    <3>3. limit <= (room + 1) * SS
      <4>1. T * SCALE + 1 <= (room + 1) * SCALE
        <5>1. T * SCALE <= room * SCALE
          BY ScaleAssumption
        <5>2. (room + 1) * SCALE = room * SCALE + SCALE /\ room * SCALE \in Nat
              /\ T * SCALE \in Nat
          BY ScaleAssumption
        <5>3. QED
          BY <5>1, <5>2, ScaleAssumption
      <4>2. (T * SCALE + 1) * SCALE <= ((room + 1) * SCALE) * SCALE
        BY <4>1, ScaleAssumption
      <4>3. ((room + 1) * SCALE) * SCALE = (room + 1) * SS
        BY ScaleAssumption
      <4>4. QED
        BY <4>2, <4>3
    <3> DEFINE l == (3 * ((room + 1) * gap)) * abs
               n == m * abs
               d3 == 3 * drift
    <3>4. l \in Nat /\ n \in Nat /\ d3 \in Nat /\ (room + 1) * SS \in Nat
      <4> HIDE DEF abs, SS, drift
      <4>1. QED
        BY <1>1, <1>5
    <3>5. l <= n /\ l = (room + 1) * d3 /\ n <= limit
      BY <1>5, <3>1, <3>2
    <3> HIDE DEF l, n, d3, SS, limit
    <3>6. (room + 1) * d3 <= (room + 1) * SS
      BY <1>1, <3>3, <3>4, <3>5
    <3>7. room + 1 \in Nat \ {0} /\ d3 \in Int /\ SS \in Int
      BY <1>1, <3>4
    <3>8. d3 <= SS
      BY <3>6, <3>7, Cancels
    <3>9. QED
      BY <3>8 DEF d3
  <2>2. 3 * SCALE <= 2 * SS
    BY ScaleAssumption
  <2>3. SCALE * (y - z) = Sy - Sz /\ SCALE * (z - y) = Sz - Sy
    BY <1>2, ScaleAssumption
  <2> HIDE DEF Sy, Sz, cp, sp, SS, drift
  <2>4. Sy - Sz <= SS /\ Sz - Sy <= SS
    BY <1>1, <1>2, <1>3, <1>4, <2>1, <2>2, ScaleAssumption
  <2>5. SCALE * (y - z) <= SCALE * SCALE /\ SCALE * (z - y) <= SCALE * SCALE
    BY <2>3, <2>4 DEF SS
  <2>6. y - z <= SCALE /\ z - y <= SCALE
    <3>1. y - z \in Int /\ z - y \in Int /\ SCALE \in Int /\ SCALE \in Nat \ {0}
      BY <1>2, ScaleAssumption
    <3>2. QED
      BY <2>5, <3>1, Cancels
  <2>7. QED
    BY <1>2, <2>6, ScaleAssumption
<1>6. CASE c * abs <= limit \/ s * abs <= limit
  <2>1. y - z \in (-SCALE) .. SCALE
    BY <1>5, <1>6
  <2>2. QED
    BY <1>2, <2>1 DEF y, z
<1>7. CASE ~(c * abs <= limit) /\ ~(s * abs <= limit)
  <2>1. c * abs \in Int /\ s * abs \in Int /\ c * abs > limit /\ s * abs > limit
    <3> HIDE DEF abs, limit
    <3>1. c * abs \in Int /\ s * abs \in Int
      BY <1>1
    <3>2. QED
      BY <1>1, <1>7, <3>1
  <2>2. CASE p >= 0
    <3>1. cp > limit /\ sp > limit
      BY <2>1, <2>2
    <3>2. SCALE * Tok <= Sy /\ SCALE * Tok <= Sz
      <4> HIDE DEF cp, sp, limit, Sy, Sz, Tok
      <4>1. QED
        BY <1>1, <1>2, <1>3, <3>1, ScaleAssumption
    <3>3. Tok <= y /\ Tok <= z
      <4>1. Tok \in Int /\ SCALE \in Nat \ {0}
        BY <1>1, ScaleAssumption
      <4> HIDE DEF Tok
      <4>2. QED
        BY <1>2, <3>2, <4>1, Cancels DEF Sy, Sz
    <3>4. QED
      BY <1>2, <3>3 DEF y, z, Dec, Tok
  <2>3. CASE p < 0
    <3>1. cp < -limit /\ sp < -limit
      <4>1. c * abs = -cp /\ s * abs = -sp
        BY <2>3
      <4> HIDE DEF cp, sp, limit, abs
      <4>2. QED
        BY <1>1, <2>1, <4>1
    <3>2. Sy <= -(SCALE * Tok) /\ Sz <= -(SCALE * Tok)
      <4> HIDE DEF cp, sp, limit, Sy, Sz, Tok
      <4>1. QED
        BY <1>1, <1>2, <1>3, <3>1, ScaleAssumption
    <3>3. y <= -Tok /\ z <= -Tok
      <4>1. -Tok \in Int /\ SCALE \in Nat \ {0} /\ -(SCALE * Tok) = SCALE * (-Tok)
        BY <1>1, ScaleAssumption
      <4> HIDE DEF Tok
      <4>2. SCALE * y <= SCALE * (-Tok) /\ SCALE * z <= SCALE * (-Tok)
        BY <3>2, <4>1 DEF Sy, Sz
      <4>3. QED
        BY <1>2, <4>1, <4>2, Cancels
    <3>4. QED
      BY <1>2, <3>3 DEF y, z, Dec, Tok
  <2>4. QED
    BY <2>2, <2>3
<1>8. QED
  BY <1>6, <1>7

LEMMA ClampNear ==
  ASSUME NEW q \in Quantities, NEW y \in Int, NEW z \in Int,
         \/ y >= Dec(Total(q)) /\ z >= Dec(Total(q))
         \/ y <= -Dec(Total(q)) /\ z <= -Dec(Total(q))
         \/ y - z \in (-SCALE) .. SCALE
  PROVE  DecFloor(Clamp(q, y)) - DecFloor(Clamp(q, z)) \in -1 .. 1
<1> DEFINE total == Dec(Total(q))
           held == Dec(q[0])
<1>1. total \in Nat /\ held \in Nat /\ held <= total
  <2>1. q[0] \in Nat /\ q[1] \in Nat /\ Total(q) = q[0] + q[1]
    BY QuantityIsNat DEF Total
  <2>2. q[0] * SCALE <= (q[0] + q[1]) * SCALE
    BY <2>1, ScaleAssumption
  <2>3. QED
    BY <2>1, <2>2, ScaleAssumption DEF Dec
<1>2. Clamp(q, y) = Lesser(total, Greater(0, held + y))
        /\ Clamp(q, z) = Lesser(total, Greater(0, held + z))
  BY DEF Clamp
<1> HIDE DEF total, held
<1>3. \/ y >= total /\ z >= total
      \/ y <= -total /\ z <= -total
      \/ y - z \in (-SCALE) .. SCALE
  BY DEF total
<1>4. /\ Clamp(q, y) \in Int /\ Clamp(q, z) \in Int
      /\ Clamp(q, y) - Clamp(q, z) \in (-SCALE) .. SCALE
  BY <1>1, <1>2, <1>3, ScaleAssumption DEF Lesser, Greater
<1>5. QED
  BY <1>4, FloorsOneApart

\* No second rate is so small, or so large, that rounding its reciprocal could be worth a
\* token; with 28 digits, those between 8 * 10^-9 and 10^8 are not.
RatesInvert ==
  \A r \in SecondRates : r > 0 =>
    4 * (MaxU64 + 1) <= r /\ (4 * (MaxU64 + 1)) * r <= SCALE * SCALE

\* The settlement rates of the two ways to quote the same price.
LEMMA QuotedTwice ==
  ASSUME NEW room \in Nat, NEW c \in Nat \ {0}, NEW inv, NEW s,
         4 * (room + 1) <= c, (4 * (room + 1)) * c <= SCALE * SCALE,
         inv = DecDiv(One, c), s = DecDiv(One, inv)
  PROVE  /\ inv \in Nat \ {0} /\ s \in Nat
         /\ \E gap \in Nat : /\ s <= c + gap /\ c <= s + gap
                             /\ 3 * ((room + 1) * gap) <= c /\ 3 * ((room + 1) * gap) <= s
<1> DEFINE k == 4 * (room + 1)
           SS == SCALE * SCALE
           ci == c * inv
           is == inv * s
<1>1. k \in Nat \ {0} /\ SS \in Nat /\ k * c <= SS
  BY ScaleAssumption
<1> HIDE DEF SS
<1>2. inv = RoundHalfEven(SS, c) /\ s = RoundHalfEven(SS, inv)
  BY DEF DecDiv, One, SS
<1>3. inv \in Nat /\ inv >= k
  <2> HIDE DEF k
  <2>1. k * c \in Int /\ (k * c) * c <= SS * c
    BY <1>1
  <2>2. RoundHalfEven(k * c, c) <= RoundHalfEven(SS, c)
    BY <1>1, <2>1, RoundingMonotone
  <2>3. RoundHalfEven(k * c, c) = k
    BY <1>1, RoundingExact
  <2>4. QED
    BY <1>1, <1>2, <2>2, <2>3, RoundingIsNat
<1>4. inv \in Nat \ {0}
  BY <1>1, <1>3
<1>5. s \in Nat
  BY <1>1, <1>2, <1>4, RoundingIsNat
<1>6. 2 * (ci - SS) <= c /\ 2 * (SS - ci) <= c
  <2>1. SS \in Int
    BY <1>1
  <2>2. /\ 2 * (c * RoundHalfEven(SS, c) - SS) <= c
        /\ 2 * (SS - c * RoundHalfEven(SS, c)) <= c
    BY <2>1, RoundingError, Zenon
  <2>3. QED
    BY <1>2, <2>2
<1>7. 2 * (is - SS) <= inv /\ 2 * (SS - is) <= inv
  <2>1. SS \in Int
    BY <1>1
  <2>2. /\ 2 * (inv * RoundHalfEven(SS, inv) - SS) <= inv
        /\ 2 * (SS - inv * RoundHalfEven(SS, inv)) <= inv
    BY <1>4, <2>1, RoundingError, Zenon
  <2>3. QED
    BY <1>2, <2>2
<1> DEFINE gap == IF s >= c THEN s - c ELSE c - s
<1> HIDE DEF k, ci, is
<1>8. gap \in Nat /\ s <= c + gap /\ c <= s + gap
  <2>1. c \in Nat
    OBVIOUS
  <2>2. CASE s >= c
    <3>1. gap = s - c
      BY <2>2
    <3> HIDE DEF gap
    <3>2. QED
      BY <1>5, <2>1, <2>2, <3>1
  <2>3. CASE ~(s >= c)
    <3>1. gap = c - s
      BY <2>3
    <3> HIDE DEF gap
    <3>2. QED
      BY <1>5, <2>1, <2>3, <3>1
  <2>4. QED
    BY <2>2, <2>3
<1>9. 2 * (inv * gap) <= c + inv
  <2>1. inv * (s - c) = is - ci /\ inv * (c - s) = ci - is /\ ci \in Int /\ is \in Int
    BY <1>4, <1>5 DEF ci, is
  <2>2. gap = s - c \/ gap = c - s
    OBVIOUS
  <2> HIDE DEF gap, ci, is
  <2>3. inv * gap = is - ci \/ inv * gap = ci - is
    BY <2>1, <2>2
  <2>4. QED
    BY <1>1, <1>4, <1>6, <1>7, <2>1, <2>3
<1> HIDE DEF gap
<1>10. 3 * ((room + 1) * gap) <= c /\ 3 * ((room + 1) * gap) <= s
  BY <1>3, <1>5, <1>8, <1>9, ReciprocalTwice DEF k
<1>11. QED
  BY <1>4, <1>5, <1>8, <1>10

LEMMA SettledCollateralFits ==
  ASSUME NEW q, NEW new, NEW settle, NEW strike, NEW notional, NEW is_linear,
         NEW is_standard,
         NEW result \in SettledForward!execute_plugin(q, new, settle, strike, notional,
                                                      is_linear, is_standard)
  PROVE  (new = 0 /\ ~is_linear /\ strike > 0) \/ Total(q) \in U64
BY Zenon DEF SettledForward!execute_plugin, SettledForward!ReturnsFloors,
       SettledForward!Total, Total, SettledForward!U64, U64

\* The senior quantities of a settled forward quoted either way.
LEMMA QuotedEitherWay ==
  ASSUME NEW q \in Quantities, NEW new \in Nat, NEW settle \in Nat \ {0}, NEW strike \in Nat,
         NEW notional \in Nat, NEW is_linear \in BOOLEAN, NEW is_standard \in BOOLEAN,
         4 * (MaxU64 + 1) <= settle, (4 * (MaxU64 + 1)) * settle <= SCALE * SCALE,
         SCALE >= 2,
         NEW result \in SettledForward!execute_plugin(q, new, settle, strike, notional,
                                                      is_linear, is_standard),
         NEW inverse \in SettledForward!execute_plugin(q, new, DecDiv(One, settle), strike,
                                                       notional, is_linear, ~is_standard)
  PROVE  result.new_quantity[0] - inverse.new_quantity[0] \in -1 .. 1
<1> DEFINE inv == DecDiv(One, settle)
           s == DecDiv(One, inv)
           other == ~is_standard
           p == Forward!Payoff(new, strike, notional, is_linear)
           a == SettledForward!SettleRate(settle, is_standard)
           b == SettledForward!SettleRate(inv, other)
           none == new = 0 /\ ~is_linear /\ strike > 0
           qr == result.new_quantity[0]
           qi == inverse.new_quantity[0]
<1>1. MaxU64 \in Nat
  BY MaxU64Assumption
<1>2. /\ inv \in Nat \ {0} /\ s \in Nat
      /\ \E gap \in Nat : /\ s <= settle + gap /\ settle <= s + gap
                          /\ 3 * ((MaxU64 + 1) * gap) <= settle
                          /\ 3 * ((MaxU64 + 1) * gap) <= s
  BY <1>1, QuotedTwice, Zenon
<1>3. p \in Int /\ other \in BOOLEAN
  BY PayoffIsInt
<1>4. \/ a = settle /\ b = s
      \/ a = inv /\ b = inv
  <2>1. \A x, y : SettledForward!DecDiv(x, y) = DecDiv(x, y)
    BY Zenon DEF SettledForward!DecDiv, DecDiv, SettledForward!RoundHalfEven, RoundHalfEven
  <2>2. settle # 0 /\ inv # 0
    BY <1>2
  <2>3. QED
    BY <2>1, <2>2, Zenon DEF SettledForward!SettleRate, SettledForward!One, One
<1> HIDE DEF inv, s, other
<1>5. qr = IF none THEN 0 ELSE DecFloor(Clamp(q, DecMul(a, p)))
  <2>1. settle \in Nat
    OBVIOUS
  <2>2. QED
    BY <2>1, SettledSenior
<1>6. qi = IF none THEN 0 ELSE DecFloor(Clamp(q, DecMul(b, p)))
  <2>1. inv \in Nat
    BY <1>2
  <2>2. inverse \in SettledForward!execute_plugin(q, new, inv, strike, notional, is_linear,
                                                  other)
    BY Zenon DEF inv, other
  <2>3. QED
    BY <1>3, <2>1, <2>2, SettledSenior
<1>7. none \/ Total(q) \in U64
  BY SettledCollateralFits, Zenon
<1> HIDE DEF none, a, b, p, qr, qi
<1>8. CASE none
  <2>1. qr = 0 /\ qi = 0
    BY <1>5, <1>6, <1>8
  <2>2. QED
    BY <2>1 DEF qr, qi
<1>9. CASE ~none
  <2> DEFINE y == DecMul(a, p)
             z == DecMul(b, p)
  <2>1. qr = DecFloor(Clamp(q, y)) /\ qi = DecFloor(Clamp(q, z))
    BY <1>5, <1>6, <1>9
  <2>2. /\ y \in Int /\ z \in Int
        /\ \/ y >= Dec(Total(q)) /\ z >= Dec(Total(q))
           \/ y <= -Dec(Total(q)) /\ z <= -Dec(Total(q))
           \/ y - z \in (-SCALE) .. SCALE
    <3>1. CASE a = inv /\ b = inv
      <4>1. inv * p \in Int
        BY <1>2, <1>3
      <4>2. DecMul(inv, p) \in Int
        BY <4>1, RoundingError, ScaleAssumption DEF DecMul
      <4>3. y = DecMul(inv, p) /\ z = DecMul(inv, p)
        BY <3>1
      <4> HIDE DEF y, z
      <4>4. QED
        BY <4>2, <4>3, ScaleAssumption
    <3>2. CASE a = settle /\ b = s
      <4>1. PICK gap \in Nat : /\ s <= settle + gap /\ settle <= s + gap
                               /\ 3 * ((MaxU64 + 1) * gap) <= settle
                               /\ 3 * ((MaxU64 + 1) * gap) <= s
        BY <1>2
      <4>2. Total(q) \in Nat /\ Total(q) <= MaxU64 /\ settle \in Nat
        BY <1>1, <1>7, <1>9 DEF U64
      <4> DEFINE u == DecMul(settle, p)
                 v == DecMul(s, p)
      <4>3. /\ u \in Int /\ v \in Int
            /\ \/ u >= Dec(Total(q)) /\ v >= Dec(Total(q))
               \/ u <= -Dec(Total(q)) /\ v <= -Dec(Total(q))
               \/ u - v \in (-SCALE) .. SCALE
        BY <1>1, <1>2, <1>3, <4>1, <4>2, SettledNearby, Zenon
      <4>4. y = u /\ z = v
        BY <3>2
      <4> HIDE DEF y, z, u, v
      <4>5. QED
        BY <4>3, <4>4, Zenon
    <3>3. QED
      BY <1>4, <3>1, <3>2
  <2> HIDE DEF y, z
  <2>3. DecFloor(Clamp(q, y)) - DecFloor(Clamp(q, z)) \in -1 .. 1
    BY <2>2, ClampNear
  <2>4. QED
    BY <2>1, <2>3 DEF qr, qi
<1>10. QED
  BY <1>8, <1>9

\* Settled at a rate of one a payoff is what it was.
LEMMA SettledAtOne ==
  ASSUME NEW q, NEW new \in Nat, NEW strike \in Nat, NEW notional \in Nat,
         NEW is_linear \in BOOLEAN, NEW is_standard \in BOOLEAN
  PROVE  SettledForward!execute_plugin(q, new, One, strike, notional, is_linear, is_standard)
           = Forward!execute_plugin(q, new, strike, notional, is_linear)
<1> DEFINE p == Forward!Payoff(new, strike, notional, is_linear)
<1>1. p \in Int
  BY PayoffIsInt
<1>2. SettledForward!SettleRate(One, is_standard) = SCALE
  <2>1. RoundHalfEven(SCALE * SCALE, SCALE) = SCALE
    BY RoundingExact, ScaleAssumption
  <2>2. QED
    BY <2>1, ScaleAssumption DEF SettledForward!SettleRate, SettledForward!DecDiv,
         SettledForward!One, One, SettledForward!RoundHalfEven, RoundHalfEven
<1> HIDE DEF p
<1>3. DecMul(SCALE, p) = p
  <2>1. SCALE * p = p * SCALE
    BY <1>1, ScaleAssumption
  <2>2. RoundHalfEven(p * SCALE, SCALE) = p
    BY <1>1, RoundingExact, ScaleAssumption
  <2>3. QED
    BY <2>1, <2>2 DEF DecMul
<1>4. SettledForward!Forward!Payoff(new, strike, notional, is_linear) = p
  BY Zenon DEF p, SettledForward!Forward!Payoff, Forward!Payoff, SettledForward!Forward!Dec,
         Forward!Dec, SettledForward!Forward!DecDiv, Forward!DecDiv,
         SettledForward!Forward!RoundHalfEven, Forward!RoundHalfEven
<1>5. SettledForward!DecMul(SettledForward!SettleRate(One, is_standard),
        SettledForward!Forward!Payoff(new, strike, notional, is_linear)) = p
  <2>1. \A x, y : SettledForward!DecMul(x, y) = DecMul(x, y)
    BY Zenon DEF SettledForward!DecMul, DecMul, SettledForward!RoundHalfEven, RoundHalfEven
  <2>2. QED
    BY <1>2, <1>3, <1>4, <2>1, Zenon
<1>6. QED
  BY <1>5, Zenon
  DEF p, SettledForward!execute_plugin, Forward!execute_plugin,
      SettledForward!ReturnsFloors, Forward!ReturnsFloors, SettledForward!Returns,
      Forward!Returns, SettledForward!RedeemLogicExecuteResult,
      Forward!RedeemLogicExecuteResult, SettledForward!Quantities, Forward!Quantities,
      SettledForward!U64, Forward!U64, SettledForward!Tranches, Forward!Tranches,
      SettledForward!Remainder, Forward!Remainder, SettledForward!Total, Forward!Total,
      SettledForward!Split, Forward!Split, SettledForward!DecFloor, Forward!DecFloor,
      SettledForward!Dec, Forward!Dec, SettledForward!Lesser, Forward!Lesser,
      SettledForward!Greater, Forward!Greater

LEMMA SettledConsistently ==
  ASSUME RatesInvert, SCALE >= 2, NEW t \in Terms, Accepts("settled_forward", t),
         NEW q \in Quantities,
         NEW old \in FairValues, NEW new \in FairValues, new[1] > 0,
         NEW result \in Execute("settled_forward", t, q, old, new)
  PROVE  /\ \A inverse \in Execute("settled_forward",
                  [t EXCEPT !.is_standard = ~t.is_standard], q, old,
                  FairValue(new[0], DecDiv(One, new[1]))) :
              result.new_quantity[0] - inverse.new_quantity[0] \in -1 .. 1
         /\ new[1] = One => result \in Execute("forward", t, q, old, new)
<1> DEFINE strike == t.strike
           notional == t.notional
           linear == t.is_linear
           standard == t.is_standard
           rate0 == new[0]
           settle == new[1]
           either == [t EXCEPT !.is_standard = ~t.is_standard]
           inverted == FairValue(new[0], DecDiv(One, new[1]))
<1>1. /\ rate0 \in Nat /\ settle \in Nat /\ strike \in Nat /\ notional \in Nat
      /\ linear \in BOOLEAN /\ standard \in BOOLEAN
      /\ result \in SettledForward!execute_plugin(q, rate0, settle, strike, notional,
                                                  linear, standard)
  BY SettledInputs, TermTypes
<1>2. settle \in SecondRates /\ IsValid(old, new)
  BY DEF FairValues, FairValue, Execute, SettledForward!execute, SettledForward!IsValid,
         IsValid
<1>3. ASSUME NEW inverse \in Execute("settled_forward", either, q, old, inverted)
      PROVE  result.new_quantity[0] - inverse.new_quantity[0] \in -1 .. 1
  <2>1. inverse \in SettledForward!execute(q, old, inverted, either)
    BY Zenon DEF Execute
  <2>2. inverse \in SettledForward!execute_plugin(q, inverted[0], inverted[1],
                      either.strike, either.notional, either.is_linear, either.is_standard)
    BY <2>1 DEF SettledForward!execute
  <2>3. /\ inverted[0] = rate0 /\ inverted[1] = DecDiv(One, settle)
        /\ either.strike = strike /\ either.notional = notional
        /\ either.is_linear = linear /\ either.is_standard = ~standard
    BY TermsAssumption DEF FairValue
  <2>4. inverse \in SettledForward!execute_plugin(q, rate0, DecDiv(One, settle), strike,
                                                  notional, linear, ~standard)
    BY <2>2, <2>3, Zenon
  <2>5. settle \in Nat \ {0} /\ 4 * (MaxU64 + 1) <= settle
        /\ (4 * (MaxU64 + 1)) * settle <= SCALE * SCALE
    BY <1>1, <1>2 DEF RatesInvert
  <2> HIDE DEF rate0, settle, strike, notional, linear, standard, either, inverted
  <2>6. QED
    BY <1>1, <2>4, <2>5, QuotedEitherWay
<1>4. ASSUME new[1] = One PROVE result \in Execute("forward", t, q, old, new)
  <2>1. result \in SettledForward!execute_plugin(q, rate0, One, strike, notional,
                                                 linear, standard)
    BY <1>1, <1>4, Zenon
  <2> HIDE DEF rate0, settle, strike, notional, linear, standard, either, inverted
  <2>2. result \in Forward!execute_plugin(q, rate0, strike, notional, linear)
    BY <1>1, <2>1, SettledAtOne
  <2>3. result \in Forward!execute(q, old, new, t)
    BY <1>2, <2>2 DEF Forward!execute, Forward!IsValid, IsValid, rate0, strike, notional,
                      linear
  <2>4. QED
    BY <2>3, Zenon DEF Execute
<1>5. QED
  BY <1>3, <1>4

\* A settled forward is the same contract whichever way its settlement rate is quoted, up to
\* one token, however large the payoff: one that the collateral covers is shifted by less
\* than a token when the rate is rounded, and any larger one is clamped either way.  Settled
\* at a rate of one it is the forward of the other program.
THEOREM QuotesAreConsistent ==
  ASSUME RatesInvert
  PROVE  Spec => []SettlementConsistent
<1>1. SCALE >= 2
  <2>1. 4 * (MaxU64 + 1) <= SCALE
    BY RatesAssumption, ScaleAssumption DEF RatesInvert, One
  <2>2. QED
    BY <2>1, MaxU64Assumption, ScaleAssumption
<1>2. Termed => SettlementConsistent
  <2>1. SUFFICES ASSUME Termed, plugin = "settled_forward", NEW new \in FairValues, new[1] > 0,
                        NEW result \in Results("settled_forward", new)
                 PROVE  /\ \A inverse \in Execute("settled_forward",
                              [terms EXCEPT !.is_standard = ~terms.is_standard], quantity,
                              rate, FairValue(new[0], DecDiv(One, new[1]))) :
                             Near(result.new_quantity[0], inverse.new_quantity[0])
                        /\ new[1] = One => result \in Results("forward", new)
    BY Zenon DEF SettlementConsistent
  <2>2. /\ terms \in Terms /\ Accepts("settled_forward", terms) /\ quantity \in Quantities
        /\ rate \in FairValues
    BY <2>1, Zenon DEF Termed, Typed
  <2>3. result \in Execute("settled_forward", terms, quantity, rate, new)
    BY <2>1, Zenon DEF Results
  <2>4. QED
    BY <1>1, <2>1, <2>2, <2>3, SettledConsistently, Zenon DEF Near, Results
<1>3. QED
  BY <1>2, TermedHolds, PTL

----------------------------------------------------------------------------
(* The two lending programs agree *)

\* What lies within a bound of nothing, times a natural number.
LEMMA TimesWithin ==
  ASSUME NEW f \in Nat, NEW x \in Int, NEW b \in Int, x <= b, -x <= b
  PROVE  f * x \in Int /\ f * b \in Int /\ f * x <= f * b /\ -(f * x) <= f * b
<1>1. f * x <= f * b /\ f * (-x) <= f * b /\ f * (-x) = -(f * x)
  OBVIOUS
<1>2. QED
  BY <1>1

\* The growth that a tranche keeps: h of the difference of two rates, in units of the old.
LEMMA GrowthNear ==
  ASSUME NEW old \in Nat \ {0}, NEW new \in Nat, new > old, NEW h \in Nat, h <= SCALE
  PROVE  LET u == One + DecMul(DecDiv(new, old) - One, h)
             F == old * SCALE + (new - old) * h
         IN  /\ u \in Nat /\ F \in Nat /\ F <= new * SCALE
             /\ old * u - F <= old /\ -(old * u - F) <= old
<1> DEFINE ratio == DecDiv(new, old)
           d == ratio - One
           g == DecMul(d, h)
           u == One + g
           m == (new - old) * h
           F == old * SCALE + m
<1>1. ratio \in Nat /\ ratio >= One
  <2>1. new * SCALE \in Nat /\ SCALE * old \in Int /\ SCALE * old <= new * SCALE
    BY ScaleAssumption
  <2>2. (SCALE * old) * old <= (new * SCALE) * old
    BY <2>1
  <2>3. RoundHalfEven(SCALE * old, old) <= RoundHalfEven(new * SCALE, old)
    BY <2>1, <2>2, RoundingMonotone
  <2>4. RoundHalfEven(SCALE * old, old) = SCALE
    BY RoundingExact, ScaleAssumption
  <2>5. RoundHalfEven(new * SCALE, old) \in Nat
    BY <2>1, RoundingIsNat
  <2>6. QED
    BY <2>3, <2>4, <2>5 DEF DecDiv, One
<1>2. 2 * (old * ratio - new * SCALE) <= old /\ 2 * (new * SCALE - old * ratio) <= old
  <2>1. new * SCALE \in Int
    BY ScaleAssumption
  <2>2. QED
    BY <2>1, RoundingError, Zenon DEF DecDiv
<1> HIDE DEF ratio
<1>3. d \in Nat
  BY <1>1, ScaleAssumption DEF One
<1>4. /\ 2 * (old * d - (new - old) * SCALE) <= old
      /\ -(2 * (old * d - (new - old) * SCALE)) <= old
      /\ old * d \in Int /\ (new - old) * SCALE \in Int
  <2>1. old * d = old * ratio - old * SCALE
          /\ (new - old) * SCALE = new * SCALE - old * SCALE
    BY <1>1, ScaleAssumption DEF One
  <2>2. old * ratio \in Int /\ old * SCALE \in Int /\ new * SCALE \in Int
    BY <1>1, ScaleAssumption
  <2> HIDE DEF d
  <2>3. QED
    BY <1>2, <2>1, <2>2
<1> HIDE DEF d
<1>5. d * h \in Nat
  BY <1>3
<1>6. /\ g \in Nat /\ 2 * (SCALE * g - d * h) <= SCALE /\ 2 * (d * h - SCALE * g) <= SCALE
  <2>1. d * h \in Int /\ SCALE \in Nat \ {0}
    BY <1>5, ScaleAssumption
  <2>2. QED
    BY <1>5, <2>1, RoundingError, RoundingIsNat, Zenon DEF DecMul
<1> HIDE DEF g
<1>7. m \in Nat
  <2>1. new - old \in Nat
    OBVIOUS
  <2>2. QED
    BY <2>1
<1>8. old * g - m <= old /\ -(old * g - m) <= old
  <2> DEFINE v == 2 * (SCALE * g - d * h)
             w == 2 * (old * d - (new - old) * SCALE)
  <2>1. v \in Int /\ w \in Int /\ v <= SCALE /\ -v <= SCALE /\ w <= old /\ -w <= old
    <3>1. SCALE * g \in Int
      BY <1>6, ScaleAssumption
    <3>2. QED
      BY <1>4, <1>5, <1>6, <3>1
  <2>2. 2 * (SCALE * (old * g - m)) = old * v + h * w
    <3>1. old * (d * h) = (old * d) * h /\ (new - old) * SCALE * h = SCALE * m
      BY <1>3, ScaleAssumption
    <3>2. old * v = 2 * (SCALE * (old * g)) - 2 * (old * (d * h))
      BY <1>3, <1>5, <1>6, ScaleAssumption
    <3>3. h * w = 2 * ((old * d) * h) - 2 * ((new - old) * SCALE * h)
      BY <1>3, <1>4, ScaleAssumption
    <3>4. SCALE * (old * g - m) = SCALE * (old * g) - SCALE * m
      BY <1>6, <1>7, ScaleAssumption
    <3>5. /\ SCALE * (old * g) \in Int /\ SCALE * m \in Int /\ old * (d * h) \in Int
      BY <1>5, <1>6, <1>7, ScaleAssumption
    <3> HIDE DEF v, w, m
    <3>6. QED
      BY <3>1, <3>2, <3>3, <3>4, <3>5
  <2> HIDE DEF v, w, m
  <2>3. /\ old * v \in Int /\ old * SCALE \in Int /\ old * v <= old * SCALE
        /\ -(old * v) <= old * SCALE
    BY <2>1, TimesWithin, ScaleAssumption
  <2>4. /\ h * w \in Int /\ h * old \in Int /\ h * w <= h * old /\ -(h * w) <= h * old
    BY <2>1, TimesWithin
  <2>5. h * old <= old * SCALE
    BY ScaleAssumption
  <2>6. old * g - m \in Int /\ SCALE * (old * g - m) \in Int
    BY <1>6, <1>7, ScaleAssumption
  <2>7. SCALE * (old * g - m) <= SCALE * old /\ SCALE * (-(old * g - m)) <= SCALE * old
    <3>1. SCALE * (-(old * g - m)) = -(SCALE * (old * g - m)) /\ SCALE * old = old * SCALE
      BY <2>6, ScaleAssumption
    <3> DEFINE z == SCALE * (old * g - m)
    <3>2. z \in Int /\ 2 * z = old * v + h * w
      BY <2>2, <2>6
    <3> HIDE DEF z
    <3>3. z <= old * SCALE /\ -z <= old * SCALE
      BY <2>3, <2>4, <2>5, <3>2
    <3>4. QED
      BY <3>1, <3>3 DEF z
  <2>8. QED
    BY <2>6, <2>7, Cancels, ScaleAssumption
<1>9. F \in Nat /\ F <= new * SCALE
  <2>1. m <= (new - old) * SCALE
    <3>1. new - old \in Nat
      OBVIOUS
    <3>2. QED
      BY <3>1, ScaleAssumption
  <2>2. (new - old) * SCALE = new * SCALE - old * SCALE /\ new * SCALE \in Nat
          /\ old * SCALE \in Nat
    BY ScaleAssumption
  <2> HIDE DEF m
  <2>3. QED
    BY <1>7, <2>1, <2>2
<1>10. old * u - F = old * g - m
  <2>1. old * u = old * SCALE + old * g /\ old * SCALE \in Int /\ old * g \in Int
    BY <1>6, ScaleAssumption DEF One
  <2> HIDE DEF u, m
  <2>2. QED
    BY <1>7, <2>1
<1>11. u \in Nat
  BY <1>6, ScaleAssumption DEF One
<1>12. QED
  BY <1>8, <1>9, <1>10, <1>11 DEF u, F, g, d, ratio, m

\* A rounded product of a rounded quotient, p for n * old * SCALE / new, and of u, which is
\* near F / old: near n * F / new.
LEMMA ProductNear ==
  ASSUME NEW n \in Nat, NEW old \in Nat \ {0}, NEW new \in Nat \ {0}, NEW F \in Nat,
         F <= new * SCALE, NEW u \in Nat, old * u - F <= old, -(old * u - F) <= old
  PROVE  LET x == DecMul(Preserved(n, old, new), u)
             error == 2 * ((new * old) * SCALE * x - old * SCALE * (n * F))
             bound == (new * old) * SCALE + 2 * (n * old * old) * SCALE + new * old
                        + (new * new) * SCALE
         IN  /\ x \in Nat /\ error \in Int /\ bound \in Int
             /\ error <= bound /\ -error <= bound
<1> DEFINE k == new * old
           v == (n * old) * SCALE
           p == Preserved(n, old, new)
           pu == p * u
           x == DecMul(p, u)
           np == new * p
           s == 2 * (SCALE * x - pu)
           t == old * u - F
           w == 2 * (np - v)
<1>1. k \in Nat /\ v \in Nat /\ k > 0
  BY ScaleAssumption
<1> HIDE DEF v
<1>2. p \in Nat /\ w <= new /\ -w <= new /\ w \in Int /\ np \in Nat
  <2>1. v \in Int /\ new \in Nat
    BY <1>1
  <2>2. RoundHalfEven(v, new) \in Nat /\ 2 * (new * RoundHalfEven(v, new) - v) <= new
          /\ 2 * (v - new * RoundHalfEven(v, new)) <= new
    BY <1>1, <2>1, RoundingIsNat, RoundingError, Zenon
  <2>3. p = RoundHalfEven(v, new)
    BY DEF Preserved, DecDiv, v
  <2> HIDE DEF p
  <2>4. p \in Nat /\ 2 * (np - v) <= new /\ 2 * (v - np) <= new
    BY <2>2, <2>3
  <2>5. np \in Nat
    BY <2>4
  <2> HIDE DEF np
  <2>6. QED
    BY <1>1, <2>4, <2>5
<1> HIDE DEF p
<1>3. pu \in Nat
  BY <1>2
<1>4. x \in Nat /\ s \in Int /\ s <= SCALE /\ -s <= SCALE
  <2>1. pu \in Int /\ SCALE \in Nat \ {0}
    BY <1>3, ScaleAssumption
  <2>2. /\ RoundHalfEven(pu, SCALE) \in Nat
        /\ 2 * (SCALE * RoundHalfEven(pu, SCALE) - pu) <= SCALE
        /\ 2 * (pu - SCALE * RoundHalfEven(pu, SCALE)) <= SCALE
    BY <1>3, <2>1, RoundingIsNat, RoundingError, Zenon
  <2>3. x = RoundHalfEven(pu, SCALE)
    BY DEF DecMul
  <2> HIDE DEF x, pu
  <2>4. x \in Nat /\ 2 * (SCALE * x - pu) <= SCALE /\ 2 * (pu - SCALE * x) <= SCALE
    BY <2>2, <2>3
  <2>5. SCALE * x \in Int
    BY <2>4, ScaleAssumption
  <2>6. QED
    BY <1>3, <2>4, <2>5
<1> HIDE DEF x
<1>5. t \in Int /\ t <= old /\ -t <= old
  OBVIOUS
<1> DEFINE error == 2 * (k * SCALE * x - old * SCALE * (n * F))
           ks == k * s
           nt == np * t
           Fw == F * w
<1>6. error = ks + 2 * nt + Fw
  <2>1. ks = 2 * (k * SCALE * x) - 2 * (k * pu)
    BY <1>1, <1>3, <1>4, ScaleAssumption
  <2>2. nt = np * (old * u) - np * F
    BY <1>2
  <2>3. np * (old * u) = k * pu
    BY <1>2
  <2>4. Fw = 2 * (np * F) - 2 * (v * F)
    BY <1>1, <1>2
  <2>5. v * F = old * SCALE * (n * F)
    BY ScaleAssumption DEF v
  <2>6. /\ k * SCALE * x \in Int /\ k * pu \in Int /\ np * F \in Int /\ v * F \in Int
        /\ np * (old * u) \in Int
    BY <1>1, <1>2, <1>3, <1>4, ScaleAssumption
  <2>7. error = 2 * (k * SCALE * x) - 2 * (v * F)
    <3> DEFINE l == k * SCALE * x
               r == v * F
    <3>1. error = 2 * (l - r) /\ l \in Int /\ r \in Int
      BY <2>5, <2>6
    <3> HIDE DEF error, l, r
    <3>2. error = 2 * l - 2 * r
      BY <3>1
    <3>3. QED
      BY <3>2 DEF l, r
  <2> HIDE DEF error, ks, nt, Fw, k, pu, np
  <2>8. QED
    BY <2>1, <2>2, <2>3, <2>4, <2>6, <2>7
<1>7. ks \in Int /\ k * SCALE \in Int /\ ks <= k * SCALE /\ -ks <= k * SCALE
  <2> HIDE DEF s, k
  <2>1. QED
    BY <1>1, <1>4, TimesWithin, ScaleAssumption
<1>8. nt \in Int /\ np * old \in Int /\ nt <= np * old /\ -nt <= np * old
  <2> HIDE DEF np, t
  <2>1. QED
    BY <1>2, <1>5, TimesWithin
<1>9. Fw \in Int /\ F * new \in Int /\ Fw <= F * new /\ -Fw <= F * new
  <2> HIDE DEF w
  <2>1. QED
    BY <1>2, TimesWithin
<1>10. 2 * (np * old) <= 2 * (n * old * old) * SCALE + k
  <2>1. 2 * np <= 2 * v + new
    <3> HIDE DEF np
    <3>1. QED
      BY <1>1, <1>2
  <2>2. (2 * np) * old <= (2 * v + new) * old
    <3> DEFINE l == 2 * np
               r == 2 * v + new
    <3>1. l \in Int /\ r \in Int /\ l <= r
      BY <1>1, <1>2, <2>1
    <3> HIDE DEF l, r
    <3>2. l * old <= r * old
      BY <3>1
    <3>3. QED
      BY <3>2 DEF l, r
  <2>3. (2 * np) * old = 2 * (np * old)
    <3> HIDE DEF np
    <3>1. QED
      BY <1>2
  <2>4. (2 * v + new) * old = 2 * (n * old * old) * SCALE + k
    BY ScaleAssumption DEF v
  <2>5. QED
    BY <2>2, <2>3, <2>4
<1>11. F * new <= (new * new) * SCALE
  <2>1. F * new <= (new * SCALE) * new
    BY ScaleAssumption
  <2>2. (new * SCALE) * new = (new * new) * SCALE
    BY ScaleAssumption
  <2>3. QED
    BY <2>1, <2>2
<1>12. (n * old * old) * SCALE \in Int /\ (new * new) * SCALE \in Int
         /\ 2 * (n * old * old) * SCALE \in Int
  BY ScaleAssumption
<1> DEFINE bound == k * SCALE + 2 * (n * old * old) * SCALE + k + (new * new) * SCALE
<1>13. error \in Int /\ bound \in Int /\ error <= bound /\ -error <= bound
  <2> DEFINE a1 == k * SCALE
             a2 == 2 * (n * old * old) * SCALE
             a3 == (new * new) * SCALE
             b2 == np * old
             b3 == F * new
  <2>1. bound = a1 + a2 + k + a3
    OBVIOUS
  <2>2. /\ a1 \in Int /\ a2 \in Int /\ a3 \in Int /\ b2 \in Int /\ b3 \in Int /\ k \in Int
        /\ ks \in Int /\ nt \in Int /\ Fw \in Int
    BY <1>1, <1>7, <1>8, <1>9, <1>12
  <2>3. /\ ks <= a1 /\ -ks <= a1 /\ nt <= b2 /\ -nt <= b2 /\ Fw <= b3 /\ -Fw <= b3
        /\ 2 * b2 <= a2 + k /\ b3 <= a3
    BY <1>7, <1>8, <1>9, <1>10, <1>11
  <2> HIDE DEF bound, error, ks, nt, Fw, k, a1, a2, a3, b2, b3
  <2>4. QED
    BY <1>6, <2>1, <2>2, <2>3
<1>14. QED
  BY <1>4, <1>13 DEF x, p

\* The same share computed from values: the old one plus a rounded part of the gain, divided
\* by the new rate.
LEMMA ValueNear ==
  ASSUME NEW n \in Nat, NEW old \in Nat \ {0}, NEW new \in Nat, new > old,
         NEW h \in Nat
  PROVE  LET F == old * SCALE + (new - old) * h
             y == DecDiv(n * old + DecMul(n * (new - old), h), new)
             error == 2 * ((new * old) * SCALE * y - old * SCALE * (n * F))
             bound == (new * old) * SCALE + old * SCALE * SCALE
         IN  /\ y \in Nat /\ error \in Int /\ bound \in Int
             /\ error <= bound /\ -error <= bound
<1> DEFINE gain == n * (new - old)
           gh == gain * h
           G == DecMul(gain, h)
           value == n * old + G
           y == DecDiv(value, new)
           F == old * SCALE + (new - old) * h
           nF == n * F
           s == 2 * (SCALE * G - gh)
           t == 2 * (new * y - value * SCALE)
<1>1. gain \in Nat /\ gh \in Nat /\ F \in Nat /\ nF \in Nat
  <2>1. new - old \in Nat
    OBVIOUS
  <2>2. gain \in Nat /\ (new - old) * h \in Nat
    BY <2>1
  <2>3. gh \in Nat /\ F \in Nat
    BY <2>2, ScaleAssumption
  <2> HIDE DEF F
  <2>4. QED
    BY <2>2, <2>3
<1>2. G \in Nat /\ s \in Int /\ s <= SCALE /\ -s <= SCALE
  <2>1. gh \in Int /\ SCALE \in Nat \ {0}
    BY <1>1, ScaleAssumption
  <2>2. /\ RoundHalfEven(gh, SCALE) \in Nat
        /\ 2 * (SCALE * RoundHalfEven(gh, SCALE) - gh) <= SCALE
        /\ 2 * (gh - SCALE * RoundHalfEven(gh, SCALE)) <= SCALE
    BY <1>1, <2>1, RoundingIsNat, RoundingError, Zenon
  <2>3. G = RoundHalfEven(gh, SCALE)
    BY DEF DecMul
  <2> HIDE DEF G, gh
  <2>4. G \in Nat /\ 2 * (SCALE * G - gh) <= SCALE /\ 2 * (gh - SCALE * G) <= SCALE
    BY <2>2, <2>3
  <2>5. SCALE * G \in Int
    BY <2>4, ScaleAssumption
  <2>6. QED
    BY <1>1, <2>4, <2>5
<1> HIDE DEF G
<1>3. value \in Nat /\ value * SCALE \in Nat
  <2>1. value \in Nat
    BY <1>2
  <2> HIDE DEF value
  <2>2. QED
    BY <2>1, ScaleAssumption
<1>4. y \in Nat /\ t \in Int /\ t <= new /\ -t <= new
  <2> DEFINE v == value * SCALE
  <2>1. v \in Nat /\ v \in Int /\ new \in Nat \ {0}
    BY <1>3
  <2>2. y = RoundHalfEven(v, new)
    BY DEF DecDiv
  <2> HIDE DEF v, y
  <2>3. RoundHalfEven(v, new) \in Nat /\ 2 * (new * RoundHalfEven(v, new) - v) <= new
          /\ 2 * (v - new * RoundHalfEven(v, new)) <= new
    BY <2>1, RoundingIsNat, RoundingError, Zenon
  <2>4. y \in Nat /\ 2 * (new * y - v) <= new /\ 2 * (v - new * y) <= new /\ new * y \in Int
    BY <2>2, <2>3
  <2>5. t = 2 * (new * y - v)
    BY DEF v
  <2> HIDE DEF t
  <2>6. QED
    BY <2>1, <2>4, <2>5
<1> HIDE DEF y
<1> DEFINE c == old * SCALE
           error == 2 * ((new * old) * SCALE * y - old * SCALE * nF)
           ct == c * t
           cs == c * s
<1>5. error = ct + cs
  <2>1. nF = (n * old) * SCALE + gh
    <3>1. new - old \in Nat
      OBVIOUS
    <3> DEFINE d == new - old
    <3> HIDE DEF d
    <3>2. n * (old * SCALE + d * h) = (n * old) * SCALE + (n * d) * h
      BY <3>1, ScaleAssumption DEF d
    <3>3. QED
      BY <3>2 DEF d
  <2>2. ct = 2 * (c * (new * y)) - 2 * (c * (value * SCALE))
    BY <1>3, <1>4, ScaleAssumption
  <2>3. cs = 2 * (c * (SCALE * G)) - 2 * (c * gh)
    BY <1>1, <1>2, ScaleAssumption
  <2>4. c * (value * SCALE) = c * ((n * old) * SCALE) + c * (SCALE * G)
    BY <1>2, ScaleAssumption
  <2>5. c * nF = c * ((n * old) * SCALE) + c * gh
    <3>1. c \in Int /\ gh \in Int /\ (n * old) * SCALE \in Int
      BY <1>1, ScaleAssumption
    <3> HIDE DEF c, gh, nF
    <3>2. QED
      BY <2>1, <3>1
  <2>6. (new * old) * SCALE * y = c * (new * y)
    BY <1>4, ScaleAssumption
  <2>7. /\ c * (new * y) \in Int /\ c * (value * SCALE) \in Int /\ c * (SCALE * G) \in Int
        /\ c * ((n * old) * SCALE) \in Int /\ c * gh \in Int
    BY <1>1, <1>2, <1>3, <1>4, ScaleAssumption
  <2>8. error = 2 * (c * (new * y)) - 2 * (c * nF)
    <3> DEFINE l == c * (new * y)
               r == c * nF
    <3>1. error = 2 * (l - r) /\ l \in Int /\ r \in Int
      BY <2>5, <2>6, <2>7
    <3> HIDE DEF error, l, r
    <3>2. error = 2 * l - 2 * r
      BY <3>1
    <3>3. QED
      BY <3>2 DEF l, r
  <2> HIDE DEF error, ct, cs, c, nF, gh, value
  <2>9. QED
    BY <2>2, <2>3, <2>4, <2>5, <2>7, <2>8
<1>6. c \in Nat
  BY ScaleAssumption
<1>7. ct \in Int /\ c * new \in Int /\ ct <= c * new /\ -ct <= c * new
  <2> HIDE DEF c, t
  <2>1. QED
    BY <1>4, <1>6, TimesWithin
<1>8. cs \in Int /\ c * SCALE \in Int /\ cs <= c * SCALE /\ -cs <= c * SCALE
  <2> HIDE DEF c, s
  <2>1. QED
    BY <1>2, <1>6, TimesWithin, ScaleAssumption
<1>9. c * new = (new * old) * SCALE /\ c * SCALE = old * SCALE * SCALE
  BY ScaleAssumption
<1> DEFINE bound == (new * old) * SCALE + old * SCALE * SCALE
<1>10. error \in Int /\ bound \in Int /\ error <= bound /\ -error <= bound
  <2> DEFINE b1 == c * new
             b2 == c * SCALE
  <2>1. bound = b1 + b2
    BY <1>9
  <2>2. /\ ct \in Int /\ cs \in Int /\ b1 \in Int /\ b2 \in Int
        /\ ct <= b1 /\ -ct <= b1 /\ cs <= b2 /\ -cs <= b2
    BY <1>7, <1>8
  <2> HIDE DEF bound, error, ct, cs, b1, b2
  <2>3. QED
    BY <1>5, <2>1, <2>2
<1>11. QED
  BY <1>4, <1>10 DEF y, G

\* The two lending payoffs, before they are rounded to tokens, differ by less than half a
\* token less one unit.
LEMMA PayoffsAgree ==
  ASSUME NEW n \in Nat, NEW room \in Nat, n <= room, NEW old \in Nat \ {0}, NEW new \in Nat,
         new > old, NEW h \in Nat, h <= SCALE,
         2 * new + (4 * room + 10) * old <= SCALE * old
  PROVE  LET x == DecMul(Preserved(n, old, new), One + DecMul(DecDiv(new, old) - One, h))
             y == DecDiv(n * old + DecMul(n * (new - old), h), new)
         IN  /\ x \in Nat /\ y \in Nat
             /\ 2 * (x - y) + 2 < SCALE /\ 2 * (y - x) + 2 < SCALE
<1> DEFINE u == One + DecMul(DecDiv(new, old) - One, h)
           F == old * SCALE + (new - old) * h
           x == DecMul(Preserved(n, old, new), u)
           y == DecDiv(n * old + DecMul(n * (new - old), h), new)
           k == new * old
           z == old * SCALE * (n * F)
           ex == 2 * (k * SCALE * x - z)
           ey == 2 * (k * SCALE * y - z)
           b1 == k * SCALE
           b2 == 2 * (n * old * old) * SCALE
           b3 == (new * new) * SCALE
           b4 == old * SCALE * SCALE
<1>1. /\ u \in Nat /\ F \in Nat /\ F <= new * SCALE
      /\ old * u - F <= old /\ -(old * u - F) <= old
  BY GrowthNear
<1>2. new \in Nat \ {0}
  OBVIOUS
<1> HIDE DEF u
<1>3. y \in Nat /\ ey \in Int /\ ey <= b1 + b4 /\ -ey <= b1 + b4
  BY ValueNear
<1> HIDE DEF F
<1>4. x \in Nat /\ ex \in Int /\ ex <= b1 + b2 + k + b3 /\ -ex <= b1 + b2 + k + b3
  BY <1>1, <1>2, ProductNear
<1> HIDE DEF x, y
<1>5. z \in Int /\ k \in Nat \ {0} /\ SCALE \in Nat \ {0}
  BY <1>1, ScaleAssumption
<1> HIDE DEF z
<1>6. b1 \in Nat /\ b2 \in Int /\ b3 \in Int /\ b4 \in Int /\ b1 * SCALE \in Nat
  BY <1>2, ScaleAssumption
<1>7. SCALE > 1
  <2>1. SUFFICES ASSUME SCALE = 1 PROVE FALSE
    BY ScaleAssumption
  <2>2. (4 * room + 10) * old >= 10 * old /\ (4 * room + 10) * old \in Int
    OBVIOUS
  <2>3. QED
    BY <2>1, <2>2
<1>8. b2 <= 2 * (room * b1)
  <2>1. n * old <= room * old /\ n * old \in Nat /\ room * old \in Nat
    OBVIOUS
  <2>2. (n * old) * old <= (room * old) * old /\ (room * old) * old <= (room * old) * new
    BY <2>1
  <2>3. (room * old) * new = room * k /\ (n * old) * old = n * old * old
    OBVIOUS
  <2>4. n * old * old \in Int /\ room * k \in Int /\ n * old * old <= room * k
    BY <2>1, <2>2, <2>3
  <2>5. (n * old * old) * SCALE <= (room * k) * SCALE
    BY <2>4, ScaleAssumption
  <2>6. (room * k) * SCALE = room * b1 /\ b2 = 2 * ((n * old * old) * SCALE)
          /\ (n * old * old) * SCALE \in Int /\ (room * k) * SCALE \in Int
    BY ScaleAssumption
  <2> HIDE DEF b1, b2, k
  <2>7. QED
    BY <2>5, <2>6
<1>9. 2 * b4 <= b1 * SCALE
  <2>1. 2 * old <= k
    BY <1>2
  <2> HIDE DEF k
  <2>2. (2 * old) * SCALE <= k * SCALE
    BY <1>5, <2>1
  <2>3. ((2 * old) * SCALE) * SCALE <= (k * SCALE) * SCALE
    BY <1>5, <2>2
  <2>4. ((2 * old) * SCALE) * SCALE = 2 * b4
    BY <1>5
  <2>5. QED
    BY <2>3, <2>4
<1>10. 2 * b3 + 4 * (room * b1) + 10 * b1 <= b1 * SCALE
  <2>1. (new * SCALE) * (2 * new + (4 * room + 10) * old) <= (new * SCALE) * (SCALE * old)
    <3> DEFINE l == 2 * new + (4 * room + 10) * old
               r == SCALE * old
               m == new * SCALE
    <3>1. l \in Int /\ r \in Int /\ m \in Nat /\ l <= r
      BY ScaleAssumption
    <3> HIDE DEF l, r, m
    <3>2. m * l <= m * r
      BY <3>1
    <3>3. QED
      BY <3>2 DEF l, r, m
  <2>2. (new * SCALE) * (2 * new + (4 * room + 10) * old)
          = 2 * b3 + 4 * (room * b1) + 10 * b1
    BY ScaleAssumption
  <2>3. (new * SCALE) * (SCALE * old) = b1 * SCALE
    BY ScaleAssumption
  <2>4. QED
    BY <2>1, <2>2, <2>3
<1>11. 2 * k <= b1
  <2> HIDE DEF k
  <2>1. QED
    BY <1>5, <1>7
<1>12. ASSUME NEW d \in Int, NEW e \in Int, e <= 2 * b1 + b2 + k + b3 + b4,
              e = b1 * (2 * d), 2 * d + 2 >= SCALE
       PROVE  FALSE
  <2>1. b1 * (2 * d + 2) >= b1 * SCALE
    <3> HIDE DEF b1
    <3>1. QED
      BY <1>5, <1>6, <1>12
  <2>2. b1 * (2 * d + 2) = e + 2 * b1
    <3> HIDE DEF b1
    <3>1. b1 * (2 * d + 2) = b1 * (2 * d) + 2 * b1
      BY <1>6
    <3>2. QED
      BY <1>12, <3>1
  <2> DEFINE f == b1 * SCALE
             r1 == room * b1
  <2>3. f \in Nat /\ r1 \in Int
    <3> HIDE DEF b1
    <3>1. QED
      BY <1>5, <1>6
  <2>4. f <= 4 * b1 + b2 + k + b3 + b4
    <3> HIDE DEF f, b1, b2, b3, b4, k
    <3>1. e + 2 * b1 >= f
      BY <2>1, <2>2 DEF f
    <3>2. QED
      BY <1>5, <1>6, <1>12, <2>3, <3>1
  <2>5. /\ b2 <= 2 * r1 /\ 2 * b4 <= f /\ 2 * b3 + 4 * r1 + 10 * b1 <= f /\ 2 * k <= b1
        /\ b1 > 0
    <3>1. b1 > 0
      <4> HIDE DEF k
      <4>1. QED
        BY <1>5
    <3>2. QED
      BY <1>8, <1>9, <1>10, <1>11, <3>1
  <2> HIDE DEF f, r1, b1, b2, b3, b4, k
  <2>6. QED
    BY <1>5, <1>6, <2>3, <2>4, <2>5
<1>13. ex - ey = b1 * (2 * (x - y)) /\ ey - ex = b1 * (2 * (y - x))
  <2>1. k * SCALE * x \in Int /\ k * SCALE * y \in Int
    BY <1>3, <1>4, <1>5
  <2>2. ex - ey = 2 * (k * SCALE * x) - 2 * (k * SCALE * y)
    <3> DEFINE l == k * SCALE * x
               r == k * SCALE * y
    <3>1. l \in Int /\ r \in Int /\ ex = 2 * (l - z) /\ ey = 2 * (r - z)
      BY <2>1
    <3> HIDE DEF l, r, ex, ey
    <3>2. ex - ey = 2 * l - 2 * r
      BY <1>5, <3>1
    <3>3. QED
      BY <3>2 DEF l, r
  <2>3. b1 * (2 * (x - y)) = 2 * (k * SCALE * x) - 2 * (k * SCALE * y)
    <3> HIDE DEF k
    <3>1. QED
      BY <1>3, <1>4, <1>5
  <2>4. b1 * (2 * (y - x)) = 2 * (k * SCALE * y) - 2 * (k * SCALE * x)
    <3> HIDE DEF k
    <3>1. QED
      BY <1>3, <1>4, <1>5
  <2> DEFINE l == k * SCALE * x
             r == k * SCALE * y
  <2> HIDE DEF ex, ey, l, r
  <2>5. ex - ey = 2 * l - 2 * r /\ l \in Int /\ r \in Int
    BY <2>1, <2>2 DEF l, r
  <2>6. ey - ex = 2 * r - 2 * l
    BY <1>3, <1>4, <2>5
  <2>7. QED
    BY <2>3, <2>4, <2>5, <2>6 DEF l, r
<1>14. ex - ey <= 2 * b1 + b2 + k + b3 + b4 /\ ey - ex <= 2 * b1 + b2 + k + b3 + b4
  <2> HIDE DEF ex, ey, b1, b2, b3, b4, k
  <2>1. QED
    BY <1>3, <1>4, <1>5, <1>6
<1>15. ex - ey \in Int /\ ey - ex \in Int /\ x - y \in Int /\ y - x \in Int
  <2> HIDE DEF ex, ey
  <2>1. QED
    BY <1>3, <1>4
<1>16. 2 * (x - y) + 2 < SCALE /\ 2 * (y - x) + 2 < SCALE
  <2> HIDE DEF ex, ey, b1, b2, b3, b4, k
  <2>1. ~(2 * (x - y) + 2 >= SCALE)
    BY <1>12, <1>13, <1>14, <1>15, Zenon
  <2>2. ~(2 * (y - x) + 2 >= SCALE)
    BY <1>12, <1>13, <1>14, <1>15, Zenon
  <2>3. QED
    BY <1>5, <1>15, <2>1, <2>2
<1>17. QED
  BY <1>3, <1>4, <1>16 DEF x, y, u

\* A value and what is left of T tokens' value, each divided by the rate: T tokens together,
\* give or take one unit.
LEMMA QuotientsAddUp ==
  ASSUME NEW T \in Nat, NEW new \in Nat \ {0}, NEW s \in Int
  PROVE  LET y == DecDiv(s, new)
             rest == DecDiv(T * new - s, new)
         IN  y \in Int /\ rest \in Int /\ y + rest - Dec(T) \in -1 .. 1
<1> DEFINE left == T * new - s
           y == DecDiv(s, new)
           rest == DecDiv(left, new)
           sS == s * SCALE
           lS == left * SCALE
<1>1. left \in Int /\ sS \in Int /\ Dec(T) \in Int
  BY ScaleAssumption DEF Dec
<1>2. lS \in Int /\ sS + lS = new * Dec(T)
  BY ScaleAssumption DEF Dec
<1>3. /\ y \in Int /\ 2 * (new * y - sS) <= new /\ 2 * (sS - new * y) <= new
  <2> HIDE DEF sS
  <2>1. y = RoundHalfEven(sS, new)
    BY DEF DecDiv, sS
  <2> HIDE DEF y
  <2>2. RoundHalfEven(sS, new) \in Int /\ 2 * (new * RoundHalfEven(sS, new) - sS) <= new
          /\ 2 * (sS - new * RoundHalfEven(sS, new)) <= new
    BY <1>1, RoundingError, Zenon
  <2>3. QED
    BY <2>1, <2>2
<1>4. /\ rest \in Int /\ 2 * (new * rest - lS) <= new /\ 2 * (lS - new * rest) <= new
  <2> HIDE DEF lS
  <2>1. rest = RoundHalfEven(lS, new)
    BY DEF DecDiv, lS
  <2> HIDE DEF rest
  <2>2. RoundHalfEven(lS, new) \in Int /\ 2 * (new * RoundHalfEven(lS, new) - lS) <= new
          /\ 2 * (lS - new * RoundHalfEven(lS, new)) <= new
    BY <1>2, RoundingError, Zenon
  <2>3. QED
    BY <2>1, <2>2
<1> HIDE DEF y, rest, sS, lS
<1> DEFINE e == y + rest - Dec(T)
<1>5. e \in Int /\ new * e <= new * 1 /\ new * (-e) <= new * 1
  <2>1. /\ new * e = new * y + new * rest - new * Dec(T)
        /\ new * (-e) = new * Dec(T) - new * y - new * rest
        /\ new * y \in Int /\ new * rest \in Int /\ new * Dec(T) \in Int /\ e \in Int
    BY <1>1, <1>3, <1>4
  <2> HIDE DEF e
  <2>2. QED
    BY <1>1, <1>2, <1>3, <1>4, <2>1
<1> HIDE DEF e
<1>6. e <= 1 /\ -e <= 1
  <2>1. -e \in Int /\ 1 \in Int
    BY <1>5
  <2>2. QED
    BY <1>5, <2>1, Cancels
<1>7. e \in -1 .. 1
  BY <1>5, <1>6
<1>8. QED
  BY <1>3, <1>4, <1>7 DEF e, y, rest, left

\* One program rounds the senior quantity and gives the rest to the junior tranche, the
\* other floors both.
LEMMA RoundedOrFloored ==
  ASSUME NEW T \in Nat, NEW x \in Int, NEW y \in Int, NEW rest \in Int,
         2 * (x - y) + 2 < SCALE, 2 * (y - x) + 2 < SCALE, y + rest - Dec(T) \in -1 .. 1
  PROVE  LET r == DecRound(x)
         IN  /\ r \in Int
             /\ DecFloor(y) - r \in -1 .. 1
             /\ DecFloor(rest) - (T - r) \in -1 .. 1
<1> DEFINE r == DecRound(x)
           a == DecFloor(y)
           b == DecFloor(rest)
           d == a - r
           e == b - (T - r)
<1>1. r \in Int /\ 2 * (SCALE * r - x) <= SCALE /\ 2 * (x - SCALE * r) <= SCALE
  BY RoundingError, ScaleAssumption, Zenon DEF DecRound
<1>2. /\ a \in Int /\ SCALE * a <= y /\ y < SCALE * a + SCALE
      /\ b \in Int /\ SCALE * b <= rest /\ rest < SCALE * b + SCALE
  BY FloorFact
<1> HIDE DEF r, a, b
<1>3. d \in Int /\ e \in Int /\ SCALE \in Nat \ {0} /\ Dec(T) \in Int
  BY <1>1, <1>2, ScaleAssumption DEF Dec
<1>4. /\ SCALE * d = SCALE * a - SCALE * r
      /\ SCALE * e = SCALE * b + SCALE * r - Dec(T)
      /\ SCALE * a \in Int /\ SCALE * b \in Int /\ SCALE * r \in Int
  BY <1>1, <1>2, <1>3 DEF Dec
<1> HIDE DEF d, e
<1>5. /\ SCALE * d < SCALE * 2 /\ SCALE * (-d) < SCALE * 2
      /\ SCALE * e < SCALE * 2 /\ SCALE * (-e) < SCALE * 2
  <2>1. SCALE * (-d) = -(SCALE * d) /\ SCALE * (-e) = -(SCALE * e)
    BY <1>3
  <2> DEFINE Sd == SCALE * d
             Se == SCALE * e
  <2>2. Sd \in Int /\ Se \in Int
    BY <1>3
  <2> HIDE DEF Sd, Se
  <2>3. Sd < SCALE * 2 /\ -Sd < SCALE * 2
    BY <1>1, <1>2, <1>3, <1>4, <2>2 DEF Sd
  <2>4. Se < SCALE * 2 /\ -Se < SCALE * 2
    BY <1>1, <1>2, <1>3, <1>4, <2>2 DEF Se
  <2>5. QED
    BY <2>1, <2>3, <2>4 DEF Sd, Se
<1>6. \A i \in Int : SCALE * i < SCALE * 2 => i <= 1
  <2>1. SUFFICES ASSUME NEW i \in Int, i >= 2 PROVE SCALE * i >= SCALE * 2
    BY <1>3
  <2>2. QED
    BY <1>3, <2>1
<1>7. d \in -1 .. 1 /\ e \in -1 .. 1
  <2>1. -d \in Int /\ -e \in Int
    BY <1>3
  <2>2. d <= 1 /\ -d <= 1 /\ e <= 1 /\ -e <= 1
    BY <1>3, <1>5, <1>6, <2>1
  <2>3. QED
    BY <1>3, <2>2
<1>8. QED
  BY <1>1, <1>7 DEF r, a, b, d, e

LEMMA SeniorQuantityForm ==
  ASSUME NEW q \in Quantities, NEW old \in Nat, NEW new \in Nat, NEW split
  PROVE  Lending!SeniorQuantity(q, old, new, split) =
           IF new > old
           THEN DecMul(Preserved(q[0], old, new),
                       One + DecMul(DecDiv(new, old) - One, One - split))
           ELSE IF new = 0 THEN Dec(Total(q)) ELSE Lesser(Dec(Total(q)),
                                                          Preserved(q[0], old, new))
<1>1. DecMul(Dec(q[0]), old) = q[0] * old
  <2>1. q[0] \in Int /\ old \in Int
    BY QuantityIsNat
  <2>2. QED
    BY <2>1, WholeTimes, Zenon
<1>2. Lending!SeniorQuantity(q, old, new, split) =
        IF new > old
        THEN DecMul(DecDiv(DecMul(Dec(q[0]), old), new),
                    One + DecMul(DecDiv(new, old) - One, One - split))
        ELSE IF new = 0 THEN Dec(Total(q))
             ELSE Lesser(Dec(Total(q)), DecDiv(DecMul(Dec(q[0]), old), new))
  BY DEF Lending!SeniorQuantity, Lending!DecMul, DecMul, Lending!DecDiv, DecDiv,
         Lending!RoundHalfEven, RoundHalfEven, Lending!Dec, Dec, Lending!One, One,
         Lending!Lesser, Lesser, Lending!Total, Total
<1>3. QED
  BY <1>1, <1>2 DEF Preserved

\* Without fees a quantity is worth its number of tokens times the rate, exactly.
LEMMA FreeValues ==
  ASSUME NEW n \in Nat, NEW old \in Nat \ {0}, NEW new \in Nat \ {0}
  PROVE  OldValue(n, old, 0) = n * old /\ NewValue(n, old, new, 0, 0) = n * new
<1>1. \A x \in Nat : DecMul(x, One) = x
  BY RoundingExact, ScaleAssumption DEF DecMul, One
<1>2. One - 0 = One
  BY ScaleAssumption DEF One
<1>3. DecMul(Dec(n), old) = n * old /\ n * old \in Nat /\ n * new \in Nat
  <2>1. n \in Int /\ old \in Int
    OBVIOUS
  <2>2. DecMul(Dec(n), old) = n * old
    BY <2>1, WholeTimes, Zenon
  <2>3. QED
    BY <2>2
<1>4. OldValue(n, old, 0) = n * old
  <2>1. DecMul(n * old, One) = n * old
    BY <1>1, <1>3, Zenon
  <2>2. QED
    BY <1>2, <1>3, <2>1, Zenon DEF OldValue
<1>5. Revalued(n * old, old, new) = n * new
  <2>1. DecDiv(n * old, old) = Dec(n)
    <3>1. (n * old) * SCALE = (n * SCALE) * old /\ n * SCALE \in Int
      BY ScaleAssumption
    <3>2. RoundHalfEven((n * SCALE) * old, old) = n * SCALE
      BY <3>1, RoundingExact
    <3>3. QED
      BY <3>1, <3>2 DEF DecDiv, Dec
  <2>2. DecMul(Dec(n), new) = n * new
    <3>1. n \in Int /\ new \in Int
      OBVIOUS
    <3>2. QED
      BY <3>1, WholeTimes, Zenon
  <2>3. QED
    BY <2>1, <2>2, Zenon DEF Revalued
<1>6. NewValue(n, old, new, 0, 0) = LendingFee!AfterPerfFee(n * old, n * new, 0)
  BY <1>4, <1>5, Zenon DEF NewValue
<1>7. LendingFee!AfterPerfFee(n * old, n * new, 0)
        = IF n * new > n * old THEN n * old + DecMul(n * new - n * old, One) ELSE n * new
  BY <1>2, Zenon DEF LendingFee!AfterPerfFee, LendingFee!DecMul, DecMul,
     LendingFee!RoundHalfEven, RoundHalfEven, LendingFee!One, One
<1>8. LendingFee!AfterPerfFee(n * old, n * new, 0) = n * new
  <2> DEFINE v == n * old
             w == n * new
  <2>1. v \in Nat /\ w \in Nat
    BY <1>3
  <2>2. LendingFee!AfterPerfFee(n * old, n * new, 0)
          = IF w > v THEN v + DecMul(w - v, One) ELSE w
    BY <1>7, Zenon
  <2>3. w > v => w - v \in Nat /\ v + (w - v) = w
    <3> HIDE DEF v, w
    <3>1. QED
      BY <2>1
  <2>4. w > v => DecMul(w - v, One) = w - v
    BY <1>1, <2>3, Zenon
  <2> HIDE DEF v, w
  <2>5. LendingFee!AfterPerfFee(n * old, n * new, 0) = w
    BY <2>2, <2>3, <2>4, Zenon
  <2>6. QED
    BY <2>5 DEF w
<1>9. QED
  BY <1>4, <1>6, <1>8, Zenon

\* What the program with fees returns when it charges none, at rates that are not zero.
LEMMA FreeResult ==
  ASSUME NEW q \in Quantities, NEW old \in Nat \ {0}, NEW new \in Nat \ {0}, NEW split \in Int,
         NEW result \in LendingFee!execute_plugin(q, old, new, split, 0, 0)
  PROVE  LET v      == q[0] * old
             w      == q[0] * new
             total  == Total(q) * new
             senior == IF w > v THEN v + DecMul(w - v, One - split) ELSE Lesser(v, total)
         IN  /\ result.new_quantity[0] = DecFloor(DecDiv(senior, new))
             /\ result.new_quantity[1] = DecFloor(DecDiv(total - senior, new))
<1> DEFINE O(i) == LendingFee!DecMul(LendingFee!DecMul(LendingFee!Dec(q[i]), old),
                                     LendingFee!One - 0)
           W(i) == LendingFee!AfterPerfFee(
                     O(i), LendingFee!DecMul(LendingFee!DecDiv(O(i), old), new), 0)
           sum == W(0) + W(1)
           share == IF W(0) > O(0)
                    THEN O(0) + LendingFee!DecMul(W(0) - O(0),
                                                  LendingFee!InterestShare(split))
                    ELSE LendingFee!Lesser(O(0), sum)
           v      == q[0] * old
           w      == q[0] * new
           total  == Total(q) * new
           senior == IF w > v THEN v + DecMul(w - v, One - split) ELSE Lesser(v, total)
<1>1. result \in LendingFee!ReturnsFloors(q, LendingFee!DecDiv(share, new),
                                          LendingFee!DecDiv(sum - share, new))
  <2>1. ~(old = 0 \/ new = 0)
    OBVIOUS
  <2>2. LendingFee!IsShare(split) /\ LendingFee!IsShare(0)
    BY DEF LendingFee!execute_plugin
  <2>3. QED
    BY <2>1, <2>2, Zenon DEF LendingFee!execute_plugin
<1>2. \A a, b : /\ LendingFee!DecMul(a, b) = DecMul(a, b)
                /\ LendingFee!DecDiv(a, b) = DecDiv(a, b)
                /\ LendingFee!Lesser(a, b) = Lesser(a, b)
  BY Zenon DEF LendingFee!DecMul, LendingFee!DecDiv, LendingFee!RoundHalfEven,
               DecMul, DecDiv, RoundHalfEven, LendingFee!Lesser, Lesser
<1>3. \A a, b : LendingFee!ReturnsFloors(q, a, b) = ReturnsFloors(q, a, b)
  BY Zenon DEF LendingFee!ReturnsFloors, ReturnsFloors, LendingFee!Returns, Returns,
         LendingFee!RedeemLogicExecuteResult, RedeemLogicExecuteResult,
         LendingFee!Quantities, Quantities, LendingFee!U64, U64, LendingFee!Tranches,
         Tranches, LendingFee!Remainder, Remainder, LendingFee!Total, Total,
         LendingFee!Split, Split, LendingFee!DecFloor, DecFloor
<1>4. \A i : /\ O(i) = OldValue(q[i], old, 0)
             /\ W(i) = NewValue(q[i], old, new, 0, 0)
  BY <1>2, Zenon DEF LendingFee!Dec, LendingFee!One, Dec, One, OldValue, Revalued, NewValue
<1>5. O(0) = v /\ W(0) = w /\ W(1) = q[1] * new
  <2>1. q[0] \in Nat /\ q[1] \in Nat
    BY QuantityIsNat
  <2>2. /\ OldValue(q[0], old, 0) = q[0] * old
        /\ NewValue(q[0], old, new, 0, 0) = q[0] * new
        /\ NewValue(q[1], old, new, 0, 0) = q[1] * new
    BY <2>1, FreeValues, Zenon
  <2>3. QED
    BY <1>4, <2>2, Zenon
<1>6. sum = total
  <2>1. w + q[1] * new = total
    BY QuantityIsNat DEF Total
  <2>2. QED
    BY <1>5, <2>1, Zenon
<1>7. share = senior
  <2> HIDE DEF O, W, sum, v, w, total
  <2>1. LendingFee!InterestShare(split) = One - split
    BY Zenon DEF LendingFee!InterestShare, LendingFee!One, One
  <2>2. QED
    BY <1>2, <1>5, <1>6, <2>1, Zenon
<1> HIDE DEF O, W, sum, share, senior, total
<1>8. result \in ReturnsFloors(q, DecDiv(senior, new), DecDiv(total - senior, new))
  <2>1. result \in LendingFee!ReturnsFloors(q, LendingFee!DecDiv(senior, new),
                                            LendingFee!DecDiv(total - senior, new))
    BY <1>1, <1>6, <1>7, Zenon
  <2>2. QED
    BY <1>2, <1>3, <2>1, Zenon
<1>9. /\ result.new_quantity[0] = DecFloor(DecDiv(senior, new))
      /\ result.new_quantity[1] = DecFloor(DecDiv(total - senior, new))
  <2> DEFINE a == DecDiv(senior, new)
             b == DecDiv(total - senior, new)
  <2>1. result \in ReturnsFloors(q, a, b)
    BY <1>8
  <2> HIDE DEF a, b
  <2>2. result.new_quantity[0] = DecFloor(a) /\ result.new_quantity[1] = DecFloor(b)
    BY <2>1, SeniorOfFloors
  <2>3. QED
    BY <2>2, Zenon DEF a, b
<1>10. QED
  BY <1>9, Zenon DEF senior, total

\* The share before rounding of either program, and what the second leaves to the junior.
LEMMA SharesAgree ==
  ASSUME NEW q \in Quantities, q[0] <= MaxU64, NEW old \in Nat \ {0}, NEW new \in Nat \ {0},
         NEW split \in Int, 0 <= split, split <= One, SCALE > 2,
         new > old => 2 * new + (4 * MaxU64 + 10) * old <= SCALE * old
  PROVE  LET x      == Lending!SeniorQuantity(q, old, new, split)
             v      == q[0] * old
             w      == q[0] * new
             total  == Total(q) * new
             senior == IF w > v THEN v + DecMul(w - v, One - split) ELSE Lesser(v, total)
             y      == DecDiv(senior, new)
         IN  /\ x \in Int /\ senior \in Int /\ y \in Int
             /\ 2 * (x - y) + 2 < SCALE /\ 2 * (y - x) + 2 < SCALE
<1> DEFINE n == q[0]
           T == Total(q)
           x == Lending!SeniorQuantity(q, old, new, split)
           p == Preserved(n, old, new)
           v == n * old
           w == n * new
           total == T * new
           h == One - split
           senior == IF w > v THEN v + DecMul(w - v, h) ELSE Lesser(v, total)
           y == DecDiv(senior, new)
<1>1. n \in Nat /\ T \in Nat /\ n <= MaxU64 /\ MaxU64 \in Nat
  BY QuantityIsNat, MaxU64Assumption
<1>2. h \in Nat /\ h <= SCALE
  BY ScaleAssumption DEF One
<1>3. x = IF new > old
          THEN DecMul(p, One + DecMul(DecDiv(new, old) - One, h))
          ELSE IF new = 0 THEN Dec(T) ELSE Lesser(Dec(T), p)
  BY SeniorQuantityForm
<1> HIDE DEF n, T, h, x
<1>4. v \in Nat /\ w \in Nat /\ total \in Nat
  BY <1>1
<1>5. CASE new > old
  <2>1. w - v = n * (new - old) /\ w - v \in Nat
    <3>1. new - old \in Nat /\ w - v = n * (new - old)
      BY <1>1, <1>5
    <3>2. n * (new - old) \in Nat
      BY <1>1, <3>1
    <3>3. QED
      BY <3>1, <3>2
  <2>2. senior = v + DecMul(n * (new - old), h)
    <3>1. CASE w > v
      BY <2>1, <3>1
    <3>2. CASE ~(w > v)
      <4>1. w - v = 0 /\ v <= total /\ senior = Lesser(v, total)
        <5>1. w - v = 0
          BY <1>4, <2>1, <3>2
        <5>2. n <= T
          BY QuantityIsNat DEF n, T, Total
        <5>3. w <= total
          BY <1>1, <5>2
        <5>4. QED
          BY <1>4, <3>2, <5>1, <5>3
      <4>2. DecMul(0, h) = 0
        <5>1. 0 * h = 0 * SCALE
          BY <1>2, ScaleAssumption
        <5>2. RoundHalfEven(0 * SCALE, SCALE) = 0
          BY RoundingExact, ScaleAssumption
        <5>3. QED
          BY <5>1, <5>2 DEF DecMul
      <4>3. senior = v
        BY <1>4, <4>1 DEF Lesser
      <4> HIDE DEF senior, v, w, total
      <4>4. v + 0 = v
        BY <1>4
      <4>5. QED
        BY <2>1, <4>1, <4>2, <4>3, <4>4, Zenon
    <3>3. QED
      BY <3>1, <3>2
  <2>3. DecMul(n * (new - old), h) \in Nat
    <3>1. (n * (new - old)) * h \in Nat
      <4> DEFINE gain == n * (new - old)
      <4>1. gain \in Nat
        BY <2>1
      <4> HIDE DEF gain
      <4>2. gain * h \in Nat
        BY <1>2, <4>1
      <4>3. QED
        BY <4>2 DEF gain
    <3>2. QED
      BY <3>1, RoundingIsNat, ScaleAssumption DEF DecMul
  <2>4. senior \in Int
    <3> HIDE DEF senior, v
    <3>1. QED
      BY <1>4, <2>2, <2>3
  <2>5. x = DecMul(p, One + DecMul(DecDiv(new, old) - One, h))
    BY <1>3, <1>5
  <2>6. y = DecDiv(n * old + DecMul(n * (new - old), h), new)
    BY <2>2, Zenon
  <2> DEFINE xx == DecMul(p, One + DecMul(DecDiv(new, old) - One, h))
             yy == DecDiv(n * old + DecMul(n * (new - old), h), new)
  <2>7. /\ xx \in Nat /\ yy \in Nat
        /\ 2 * (xx - yy) + 2 < SCALE /\ 2 * (yy - xx) + 2 < SCALE
    <3>1. new \in Nat /\ 2 * new + (4 * MaxU64 + 10) * old <= SCALE * old
      BY <1>5
    <3>2. QED
      BY <1>1, <1>2, <1>5, <3>1, PayoffsAgree, Zenon
  <2> HIDE DEF xx, yy, y, senior, v, w, total, p
  <2>8. xx \in Int /\ yy \in Int
    BY <2>7
  <2>9. QED
    BY <2>4, <2>5, <2>6, <2>7, <2>8, Zenon DEF xx, yy, y, senior, v, w, total, n, T, h, x
<1>6. CASE ~(new > old)
  <2>1. new # 0 /\ ~(w > v)
    <3>1. w <= v
      BY <1>1, <1>6
    <3>2. QED
      BY <1>4, <3>1
  <2>2. x = Lesser(Dec(T), p)
    BY <1>3, <1>6, <2>1
  <2>3. senior = Lesser(v, total)
    BY <2>1
  <2>4. v * SCALE \in Nat /\ Dec(T) \in Nat /\ Dec(T) * new = total * SCALE
    BY <1>1, <1>4, ScaleAssumption DEF Dec
  <2>5. p = RoundHalfEven(v * SCALE, new)
    BY DEF Preserved, DecDiv
  <2>6. p \in Nat
    BY <2>4, <2>5, RoundingIsNat
  <2>7. RoundHalfEven(Dec(T) * new, new) = Dec(T)
    BY <2>4, RoundingExact
  <2>8. DecDiv(total, new) = Dec(T)
    BY <2>4, <2>7 DEF DecDiv
  <2> HIDE DEF p, v, w, total, senior
  <2>9. x = DecDiv(senior, new) /\ x \in Int /\ senior \in Int
    <3>1. CASE v <= total
      <4>1. senior = v
        BY <1>4, <2>3, <3>1 DEF Lesser
      <4>2. v * SCALE <= total * SCALE
        BY <1>4, <3>1, ScaleAssumption
      <4>3. RoundHalfEven(v * SCALE, new) \in 0 .. Dec(T)
        BY <2>4, <4>2, QuotientWithin
      <4>4. p <= Dec(T)
        BY <2>4, <2>5, <4>3
      <4>5. x = p
        BY <2>2, <2>4, <2>6, <4>4 DEF Lesser
      <4>6. p = DecDiv(v, new)
        BY <2>5 DEF DecDiv
      <4>7. QED
        BY <1>4, <2>6, <4>1, <4>5, <4>6
    <3>2. CASE ~(v <= total)
      <4>1. senior = total
        BY <1>4, <2>3, <3>2 DEF Lesser
      <4>2. total * SCALE <= v * SCALE
        BY <1>4, <3>2, ScaleAssumption
      <4>3. (Dec(T) * new) * new <= (v * SCALE) * new
        BY <1>4, <2>4, <4>2, ScaleAssumption
      <4>4. RoundHalfEven(Dec(T) * new, new) <= RoundHalfEven(v * SCALE, new)
        <5>1. Dec(T) * new \in Int /\ v * SCALE \in Int
          BY <2>4
        <5>2. QED
          BY <4>3, <5>1, RoundingMonotone
      <4>5. Dec(T) <= p
        BY <2>5, <2>7, <4>4
      <4>6. x = Dec(T)
        BY <2>2, <2>4, <2>6, <4>5 DEF Lesser
      <4>7. QED
        BY <1>4, <2>4, <2>8, <4>1, <4>6
    <3>3. QED
      BY <3>1, <3>2
  <2>10. y = x
    BY <2>9, Zenon
  <2> HIDE DEF y
  <2>11. /\ y \in Int
         /\ 2 * (x - y) + 2 < SCALE /\ 2 * (y - x) + 2 < SCALE
    <3>1. x - y = 0 /\ y - x = 0 /\ y \in Int
      BY <2>9, <2>10
    <3>2. QED
      BY <3>1, ScaleAssumption
  <2>12. QED
    BY <2>9, <2>11, Zenon DEF y, senior, v, w, total, n, T, h, x
<1>7. QED
  BY <1>5, <1>6, Zenon

\* As RatiosFit, with room for half a token more: no rate is 5 * 10^27 times another.
RatiosFitTwice == \A a, b \in Rates : a > 0 => 2 * b + (4 * MaxU64 + 10) * a <= SCALE * a

\* At a rate of zero the senior tranche takes all of it in both programs.
LEMMA AgreeAtZero ==
  ASSUME NEW q \in Quantities, NEW old \in Nat \ {0}, NEW split \in Int,
         NEW with_fee \in LendingFee!execute_plugin(q, old, 0, split, 0, 0),
         NEW without \in Lending!execute_plugin(q, old, 0, split, 0)
  PROVE  /\ with_fee.new_quantity[0] = Total(q) /\ with_fee.new_quantity[1] = 0
         /\ without.new_quantity[0] = Total(q) /\ without.new_quantity[1] = 0
<1>1. Total(q) \in Nat /\ Dec(Total(q)) \in Nat
  BY QuantityIsNat, ScaleAssumption DEF Dec
<1>2. with_fee.new_quantity[0] = Total(q) /\ with_fee.new_quantity[1] = 0
  <2> DEFINE all == LendingFee!DecFloor(LendingFee!DecMul(LendingFee!Dec(LendingFee!Total(q)),
                                                          LendingFee!One - 0))
  <2>1. with_fee \in LendingFee!Returns(LendingFee!Split(all, 0), LendingFee!Total(q) - all)
    BY Zenon DEF LendingFee!execute_plugin
  <2>2. all = DecFloor(DecMul(Dec(Total(q)), One - 0))
    BY Zenon DEF LendingFee!DecFloor, DecFloor, LendingFee!DecMul, DecMul,
       LendingFee!RoundHalfEven, RoundHalfEven, LendingFee!Dec, Dec, LendingFee!One, One,
       LendingFee!Total, Total
  <2>3. DecMul(Dec(Total(q)), One - 0) = Dec(Total(q))
    <3>1. One - 0 = SCALE
      BY ScaleAssumption DEF One
    <3>2. RoundHalfEven(Dec(Total(q)) * SCALE, SCALE) = Dec(Total(q))
      BY <1>1, RoundingExact, ScaleAssumption
    <3>3. QED
      BY <3>1, <3>2 DEF DecMul
  <2>4. DecFloor(Dec(Total(q))) = Total(q)
    <3> DEFINE f == DecFloor(Dec(Total(q)))
    <3>1. f \in 0 .. Total(q)
      BY <1>1, FloorWithin
    <3>2. Dec(Total(q)) < SCALE * f + SCALE /\ Dec(Total(q)) = SCALE * Total(q)
      BY <1>1, FloorFact, ScaleAssumption DEF Dec
    <3> HIDE DEF f
    <3>3. ~(f <= Total(q) - 1)
      <4>1. SUFFICES ASSUME f <= Total(q) - 1 PROVE FALSE
        OBVIOUS
      <4>2. SCALE * (f + 1) <= SCALE * Total(q) /\ SCALE * (f + 1) = SCALE * f + SCALE
        BY <1>1, <3>1, <4>1, ScaleAssumption
      <4>3. QED
        BY <1>1, <3>1, <3>2, <4>2, ScaleAssumption
    <3>4. QED
      BY <1>1, <3>1, <3>3 DEF f
  <2> HIDE DEF all
  <2>5. all = Total(q)
    BY <2>2, <2>3, <2>4, Zenon
  <2>6. with_fee.new_quantity = LendingFee!Split(all, 0)
    BY <2>1 DEF LendingFee!Returns
  <2>7. QED
    BY <2>5, <2>6 DEF LendingFee!Split, LendingFee!Tranches
<1>3. without.new_quantity[0] = Total(q) /\ without.new_quantity[1] = 0
  <2> DEFINE senior == Lending!DecRound(Lending!SeniorQuantity(q, old, 0, split))
             junior == Lending!Total(q) - senior
  <2>1. /\ without.new_quantity[0] = senior - Lending!TrancheFee(senior, 0)
        /\ without.new_quantity[1] = junior - Lending!TrancheFee(junior, 0)
    BY DEF Lending!execute_plugin, Lending!Returns, Lending!Split, Lending!Tranches
  <2>2. Lending!SeniorQuantity(q, old, 0, split) = Dec(Total(q))
    <3>1. 0 \in Nat /\ old \in Nat /\ ~(0 > old)
      OBVIOUS
    <3>2. QED
      BY <3>1, SeniorQuantityForm
  <2>3. senior = Total(q)
    <3>1. RoundHalfEven(Dec(Total(q)), SCALE) = Total(q)
      BY <1>1, RoundingExact, ScaleAssumption DEF Dec
    <3>2. QED
      BY <2>2, <3>1, Zenon DEF Lending!DecRound, Lending!RoundHalfEven, RoundHalfEven
  <2>4. Lending!Total(q) = Total(q)
    BY Zenon DEF Lending!Total, Total
  <2>5. \A m : Lending!TrancheFee(m, 0) = 0
    BY DEF Lending!TrancheFee
  <2> HIDE DEF senior
  <2>6. QED
    BY <1>1, <2>1, <2>3, <2>4, <2>5
<1>4. QED
  BY <1>2, <1>3

LEMMA FreeLendingAgrees ==
  ASSUME NEW q \in Quantities, NEW old \in Nat \ {0}, NEW new \in Nat, NEW split \in Int,
         0 <= split, split <= One, SCALE > 2,
         2 * new + (4 * MaxU64 + 10) * old <= SCALE * old,
         NEW with_fee \in LendingFee!execute_plugin(q, old, new, split, 0, 0),
         NEW without \in Lending!execute_plugin(q, old, new, split, 0), NEW i \in Tranches
  PROVE  with_fee.new_quantity[i] - without.new_quantity[i] \in -1 .. 1
<1>1. q[0] \in Nat /\ q[0] <= MaxU64 /\ Total(q) \in Nat
  BY QuantityIsNat, MaxU64Assumption DEF Quantities, U64, Tranches
<1>2. CASE new = 0
  <2>1. /\ with_fee.new_quantity[0] = Total(q) /\ with_fee.new_quantity[1] = 0
        /\ without.new_quantity[0] = Total(q) /\ without.new_quantity[1] = 0
    BY <1>2, AgreeAtZero
  <2>2. QED
    BY <1>1, <2>1 DEF Tranches
<1>3. CASE new # 0
  <2> DEFINE x == Lending!SeniorQuantity(q, old, new, split)
             v == q[0] * old
             w == q[0] * new
             total == Total(q) * new
             senior == IF w > v THEN v + DecMul(w - v, One - split) ELSE Lesser(v, total)
             y == DecDiv(senior, new)
             rest == DecDiv(total - senior, new)
             r == DecRound(x)
  <2>1. new \in Nat \ {0}
    BY <1>3
  <2>2. /\ with_fee.new_quantity[0] = DecFloor(y)
        /\ with_fee.new_quantity[1] = DecFloor(rest)
    BY <2>1, FreeResult, Zenon
  <2>3. /\ x \in Int /\ senior \in Int /\ y \in Int
        /\ 2 * (x - y) + 2 < SCALE /\ 2 * (y - x) + 2 < SCALE
    BY <1>1, <2>1, SharesAgree, Zenon
  <2>4. without.new_quantity[0] = r /\ without.new_quantity[1] = Total(q) - r
    <3> DEFINE s == Lending!DecRound(Lending!SeniorQuantity(q, old, new, split))
               j == Lending!Total(q) - s
    <3>1. /\ s \in Lending!U64 /\ j \in Lending!U64
          /\ without.new_quantity[0] = s - Lending!TrancheFee(s, 0)
          /\ without.new_quantity[1] = j - Lending!TrancheFee(j, 0)
      BY DEF Lending!execute_plugin, Lending!Returns, Lending!Split, Lending!Tranches
    <3>2. \A m : Lending!TrancheFee(m, 0) = 0
      BY DEF Lending!TrancheFee
    <3>3. s = r /\ Lending!Total(q) = Total(q)
      BY Zenon DEF Lending!DecRound, DecRound, Lending!RoundHalfEven, RoundHalfEven,
                   Lending!Total, Total
    <3>4. s \in Nat /\ j \in Nat
      BY <3>1, MaxU64Assumption DEF Lending!U64
    <3> HIDE DEF s, r, x
    <3>5. QED
      BY <1>1, <3>1, <3>2, <3>3, <3>4
  <2> HIDE DEF x, senior
  <2>5. rest \in Int /\ y + rest - Dec(Total(q)) \in -1 .. 1
    BY <1>1, <2>1, <2>3, QuotientsAddUp, Zenon
  <2> HIDE DEF y, rest
  <2>6. /\ r \in Int /\ DecFloor(y) - r \in -1 .. 1
        /\ DecFloor(rest) - (Total(q) - r) \in -1 .. 1
    BY <1>1, <2>3, <2>5, RoundedOrFloored, Zenon
  <2> HIDE DEF r
  <2>7. with_fee.new_quantity[0] - without.new_quantity[0] \in -1 .. 1
    BY <2>2, <2>4, <2>6, Zenon
  <2>8. with_fee.new_quantity[1] - without.new_quantity[1] \in -1 .. 1
    BY <2>2, <2>4, <2>6, Zenon
  <2>9. QED
    BY <2>7, <2>8 DEF Tranches
<1>4. QED
  BY <1>2, <1>3

\* The two lending programs, which share no code and round in other places, agree up to one
\* token on what either tranche holds, as long as no rate is some 10^27 times another.
THEOREM LendingTwiceTheSame ==
  ASSUME RatiosFitTwice
  PROVE  Spec => []LendingProgramsAgree
<1>1. SCALE > 2
  <2>1. 2 * One + (4 * MaxU64 + 10) * One <= SCALE * One
    BY RatesAssumption, ScaleAssumption DEF RatiosFitTwice, One
  <2>2. QED
    BY <2>1, ScaleAssumption, MaxU64Assumption DEF One
<1>2. ASSUME Termed, plugin = "lending", NEW new \in FairValues, rate[0] > 0,
             NEW with_fee \in Execute("lending_fee",
                   [terms EXCEPT !.fixed_fee_per_tranche = 0, !.mgmt_fee = 0,
                                 !.perf_fee = 0], quantity, rate, new),
             NEW without \in Execute("lending",
                   [terms EXCEPT !.fixed_fee_per_tranche = 0, !.mgmt_fee = 0,
                                 !.perf_fee = 0], quantity, rate, new),
             NEW i \in Tranches
      PROVE  with_fee.new_quantity[i] - without.new_quantity[i] \in -1 .. 1
  <2> DEFINE free == [terms EXCEPT !.fixed_fee_per_tranche = 0, !.mgmt_fee = 0,
                                   !.perf_fee = 0]
             split == terms.interest_split
  <2>1. /\ terms \in Terms /\ Accepts("lending", terms) /\ quantity \in Quantities
        /\ rate \in FairValues
    BY <1>2 DEF Termed, Typed
  <2>2. /\ free.interest_split = split /\ free.fixed_fee_per_tranche = 0
        /\ free.mgmt_fee = 0 /\ free.perf_fee = 0
    BY <2>1, TermsAssumption
  <2>3. split \in Int /\ 0 <= split /\ split <= One
    BY <2>1, TermTypes DEF Accepts, Lending!initialize, Lending!One, One
  <2> HIDE DEF free
  <2>4. with_fee \in LendingFee!execute(quantity, rate, new, free)
    BY <1>2, Zenon DEF Execute, free
  <2>5. without \in Lending!execute(quantity, rate, new, free)
    BY <1>2, Zenon DEF Execute, free
  <2>6. IsValid(rate, new)
    BY <2>4 DEF LendingFee!execute, LendingFee!IsValid, IsValid
  <2>7. rate[0] \in Nat \ {0} /\ new[0] \in Nat /\ rate[0] \in Rates /\ new[0] \in Rates
    BY <1>2, <2>1, <2>6, ValidIsNat DEF FairValues, FairValue
  <2> HIDE DEF split
  <2>8. with_fee \in LendingFee!execute_plugin(quantity, rate[0], new[0], split, 0, 0)
    BY <2>2, <2>4, Zenon DEF LendingFee!execute
  <2>9. without \in Lending!execute_plugin(quantity, rate[0], new[0], split, 0)
    BY <2>2, <2>5, Zenon DEF Lending!execute
  <2>10. 2 * new[0] + (4 * MaxU64 + 10) * rate[0] <= SCALE * rate[0]
    BY <2>7 DEF RatiosFitTwice
  <2>11. QED
    BY <1>1, <2>1, <2>3, <2>7, <2>8, <2>9, <2>10, FreeLendingAgrees, Zenon
<1>3. Termed => LendingProgramsAgree
  BY <1>2, Zenon DEF LendingProgramsAgree, Near
<1>4. QED
  BY <1>3, TermedHolds, PTL

----------------------------------------------------------------------------
(* Protection against impermanent loss *)

\* The fila plugin computes with the operators of the others.
LEMMA FilaArithmetic ==
  /\ \A a, b : Fila!DecMul(a, b) = DecMul(a, b)
  /\ \A d : Fila!DecSqrt(d) = DecSqrt(d)
<1>1. ASSUME NEW a, NEW b PROVE Fila!DecMul(a, b) = DecMul(a, b)
  BY Zenon DEF Fila!DecMul, DecMul, Fila!RoundHalfEven, RoundHalfEven
<1>2. ASSUME NEW d PROVE Fila!DecSqrt(d) = DecSqrt(d)
  BY Zenon DEF DecSqrt, Fila!DecSqrt, Newton, Fila!Newton, NewtonStep, Fila!NewtonStep,
     NewtonStart, Fila!NewtonStart, DecDiv, Fila!DecDiv,
     RoundHalfEven, Fila!RoundHalfEven
<1>3. QED
  BY <1>1, <1>2

\* Away from the strike the rounding of the root does not make the payoff negative.
LEMMA PayoffAwayFromStrike ==
  ASSUME NEW s \in Nat, NEW k \in Nat, NEW r \in DecSqrt(DecMul(s, k)),
         ~NearStrike(s, k)
  PROVE  Fila!Payoff(s, k, r) \in Nat
<1> DEFINE x == s + k
           y == 2 * r
<1>1. r \in Nat /\ 2 * (r * r - s * k) <= SCALE + 3 * r
  BY RootOfProduct
<1>2. (s - k) * (s - k) > 2 * SCALE + 8 * x + 8
  BY ScaleAssumption DEF NearStrike
<1>3. (s - k) * (s - k) = x * x - 4 * (s * k)
  OBVIOUS
<1>4. y * y = 4 * (r * r)
  BY <1>1
<1>5. x \in Nat /\ y \in Nat /\ x * x \in Nat /\ y * y \in Nat /\ s * k \in Nat /\ r * r \in Nat
  BY <1>1
<1>6. y * y - 3 * y < x * x - 8 * x - 8
  <2> HIDE DEF x
  <2>1. 4 * (r * r) <= 4 * (s * k) + 2 * SCALE + 6 * r
    BY <1>1, <1>5, ScaleAssumption
  <2>2. QED
    BY <1>1, <1>2, <1>3, <1>4, <1>5, <2>1, ScaleAssumption
<1>7. y <= x
  <2> HIDE DEF x, y
  <2>1. SUFFICES ASSUME y >= x + 1 PROVE FALSE
    BY <1>5
  <2>2. y * y >= y * (x + 1) /\ y * (x + 1) = y * x + y
    BY <1>5, <2>1
  <2>3. y * x - 2 * y >= (x + 1) * x - 2 * (x + 1) \/ x < 2
    <3>1. CASE x >= 2
      <4>1. y * (x - 2) >= (x + 1) * (x - 2)
        BY <1>5, <2>1, <3>1
      <4>2. y * (x - 2) = y * x - 2 * y /\ (x + 1) * (x - 2) = (x + 1) * x - 2 * (x + 1)
        BY <1>5
      <4>3. QED
        BY <4>1, <4>2
    <3>2. QED
      BY <1>5, <3>1
  <2>4. (x + 1) * x = x * x + x /\ y * x \in Int
    BY <1>5
  <2>5. CASE x >= 2
    BY <1>5, <1>6, <2>1, <2>2, <2>3, <2>4, <2>5
  <2>6. CASE x < 2
    <3>1. x * x - 8 * x <= 0
      BY <1>5, <2>6
    <3>2. y * y - 3 * y >= -3
      <4>1. y * (y - 3) >= -3
        <5>1. CASE y >= 3
          BY <1>5, <5>1
        <5>2. CASE y \in {0, 1, 2}
          BY <5>2
        <5>3. QED
          BY <1>5, <5>1, <5>2
      <4>2. y * (y - 3) = y * y - 3 * y
        BY <1>5
      <4>3. QED
        BY <4>1, <4>2
    <3>3. QED
      BY <1>5, <1>6, <3>1, <3>2
  <2>7. QED
    BY <1>5, <2>5, <2>6
<1>8. QED
  BY <1>1, <1>5, <1>7 DEF Fila!Payoff

\* The crate's iteration has steps enough for every product of a rate and a strike.
StrikesInReach ==
  \A spot \in Rates, t \in Terms :
    spot >= 0 /\ t.strike >= 0 => InReach(DecMul(spot, t.strike))

LEMMA FilaReturns ==
  ASSUME NEW q \in Quantities, Total(q) \in U64, NEW s \in Nat, NEW k \in Nat,
         NEW notional \in Nat, NEW r \in DecSqrt(DecMul(s, k)), ~NearStrike(s, k)
  PROVE  Fila!execute_plugin(q, s, k, notional) # {}
<1> DEFINE payoff == notional * Fila!Payoff(s, k, r)
           senior == Lesser(Dec(q[1]), payoff)
<1>1. payoff \in Nat
  <2>1. Fila!Payoff(s, k, r) \in Nat
    BY PayoffAwayFromStrike
  <2>2. QED
    BY <2>1
<1>2. Dec(q[1]) \in Nat /\ Dec(Total(q)) \in Nat /\ Dec(q[1]) <= Dec(Total(q))
  <2>1. q[0] \in Nat /\ q[1] \in Nat /\ q[1] <= Total(q) /\ Total(q) \in Nat
    BY QuantityIsNat DEF Total
  <2>2. q[1] * SCALE <= Total(q) * SCALE /\ q[1] * SCALE \in Nat /\ Total(q) * SCALE \in Nat
    BY <2>1, ScaleAssumption
  <2>3. QED
    BY <2>2 DEF Dec
<1> HIDE DEF payoff
<1>3. senior \in Int /\ 0 <= senior /\ senior <= Dec(Total(q))
  BY <1>1, <1>2 DEF Lesser
<1> HIDE DEF senior
<1>4. Greater(0, Dec(Total(q)) - senior) = Dec(Total(q)) - senior
  BY <1>2, <1>3 DEF Greater
<1>5. ReturnsFloors(q, senior, Greater(0, Dec(Total(q)) - senior)) # {}
  BY <1>3, <1>4, FloorsReturn
<1>6. ReturnsFloors(q, senior, Greater(0, Dec(Total(q)) - senior))
        \subseteq Fila!execute_plugin(q, s, k, notional)
  <2>1. Fila!ReturnsFloors(q, Fila!Lesser(Fila!Dec(q[1]), payoff),
          Fila!Greater(0, Fila!Dec(Fila!Total(q)) - Fila!Lesser(Fila!Dec(q[1]), payoff)))
          \subseteq Fila!execute_plugin(q, s, k, notional)
    <3>1. r \in Fila!DecSqrt(Fila!DecMul(s, k))
      BY FilaArithmetic
    <3>2. ~(s < 0 \/ k < 0)
      OBVIOUS
    <3>3. QED
      BY <3>1, <3>2, Zenon DEF Fila!execute_plugin, payoff
  <2>2. QED
    BY <2>1, Zenon DEF senior, Fila!ReturnsFloors, ReturnsFloors, Fila!Returns, Returns,
         Fila!RedeemLogicExecuteResult, RedeemLogicExecuteResult, Fila!Quantities,
         Quantities, Fila!U64, U64, Fila!Tranches, Tranches, Fila!Remainder, Remainder,
         Fila!Total, Total, Fila!Split, Split, Fila!DecFloor, DecFloor, Fila!Dec, Dec,
         Fila!Lesser, Lesser, Fila!Greater, Greater
<1>7. QED
  BY <1>5, <1>6

\* Protection against impermanent loss never blocks a refresh but next to the strike, where
\* the rounding of the root is worth more than the payoff, and at the products whose roots
\* never settle.
THEOREM ProtectionNeverBlocked ==
  ASSUME Plugins \subseteq {"fila"}, StrikesInReach,
         \A q \in [Tranches -> Deposits] : Total(q) \in U64
  PROVE  Spec => []RefreshNeverBlocked
<1>1. Init /\ Typed => Solid
  BY DEF Init, Solid
<1>2. Solid => RefreshNeverBlocked
  <2>1. SUFFICES ASSUME Solid, NEW new \in FairValues, IsValid(rate, new),
                        ~NearStrike(new[0], terms.strike),
                        \A product \in Rooted(new) : ~Oscillates(product)
                 PROVE  Results(plugin, new) # {}
    <3>1. Solid => plugin = "fila"
      BY DEF Solid, Typed
    <3>2. QED
      BY <3>1, Zenon DEF RefreshNeverBlocked
  <2>2. /\ plugin = "fila" /\ Accepts(plugin, terms) /\ terms \in Terms
        /\ quantity \in Quantities /\ Total(quantity) \in U64
        /\ new[0] \in Nat /\ new[0] \in Rates
    <3>1. Solid /\ IsValid(rate, new)
      BY <2>1
    <3>2. QED
      BY <3>1, ValidIsNat DEF Solid, Typed, FairValues, FairValue
  <2>3. terms.strike \in Nat /\ terms.notional \in Nat
    BY <2>2, TermsAssumption, MaxU64Assumption DEF Accepts, Fila!initialize, U64
  <2>4. PICK r : r \in DecSqrt(DecMul(new[0], terms.strike))
    <3>1. DecMul(new[0], terms.strike) \in Nat
      BY <2>2, <2>3, MulIsNat
    <3>2. InReach(DecMul(new[0], terms.strike))
      BY <2>2, <2>3 DEF StrikesInReach
    <3>3. ~Oscillates(DecMul(new[0], terms.strike))
      BY <2>1, <2>2 DEF Rooted
    <3>4. QED
      BY <3>1, <3>2, <3>3, RootSettles
  <2>5. Fila!execute_plugin(quantity, new[0], terms.strike, terms.notional) # {}
    BY <2>1, <2>2, <2>3, <2>4, FilaReturns
  <2>6. QED
    BY <2>1, <2>2, <2>5 DEF Results, Execute, Fila!execute, Fila!IsValid, IsValid
<1>3. QED
  BY <1>1, <1>2, NextKeepsSolid, TypedHolds, PTL DEF Spec

\* The root of a product of two prices that are large enough for the rounding of the product.
LEMMA RootAbove ==
  ASSUME NEW b \in Nat, SCALE + 2 * b <= b * b, NEW s \in Nat, NEW k \in Nat,
         b <= s, b <= k, NEW r \in DecSqrt(DecMul(s, k))
  PROVE  b <= 2 * r
<1>1. r \in Nat /\ 2 * (s * k - r * r) <= SCALE + 3 * r
  BY RootOfProduct
<1>2. b * b <= s * k
  <2>1. b * b <= s * b /\ s * b <= s * k
    OBVIOUS
  <2>2. b * b \in Nat /\ s * b \in Nat /\ s * k \in Nat
    OBVIOUS
  <2>3. QED
    BY <2>1, <2>2
<1>3. SUFFICES ASSUME 2 * r < b PROVE FALSE
  BY <1>1
<1>4. 4 * (r * r) <= b * b
  <2>1. (2 * r) * (2 * r) <= (2 * r) * b /\ (2 * r) * b <= b * b
    BY <1>1, <1>3
  <2>2. (2 * r) * (2 * r) = 4 * (r * r) /\ (2 * r) * b \in Int /\ r * r \in Int /\ b * b \in Int
    BY <1>1
  <2>3. QED
    BY <2>1, <2>2
<1>5. r * r \in Int /\ b * b \in Int /\ s * k \in Int
  BY <1>1
<1>6. QED
  BY <1>1, <1>2, <1>3, <1>4, <1>5, ScaleAssumption

\* The farther from the strike, the larger the payoff, up to m units.
LEMMA PayoffAbove ==
  ASSUME NEW k \in Nat \ {0}, NEW near \in Nat, NEW far \in Nat, k <= near, near <= far,
         NEW m \in Nat, 2 * SCALE <= (m - 4) * k,
         NEW r \in DecSqrt(DecMul(near, k)), NEW root \in DecSqrt(DecMul(far, k))
  PROVE  Fila!Payoff(near, k, r) <= Fila!Payoff(far, k, root) + m
<1> DEFINE x == far - near
           y == root - r
           z == y - (k - r)
<1>1. /\ r \in Nat /\ root \in Nat
      /\ 2 * (near * k - r * r) <= SCALE + 3 * r
      /\ 2 * (root * root - far * k) <= SCALE + 3 * root
  BY RootOfProduct
<1>2. /\ far * k = near * k + x * k
      /\ root * root = r * r + 2 * (y * r) + y * y
      /\ near * k \in Int /\ x * k \in Int /\ r * r \in Int /\ y * r \in Int /\ y * y \in Int
      /\ x \in Nat /\ y \in Int
  BY <1>1
<1>3. (m - 4) * k = m * k - 4 * k /\ m * k \in Int /\ y * k \in Int
  BY <1>1
<1>4. SUFFICES ASSUME 2 * y >= x + m + 1 PROVE FALSE
  <2>1. 2 * y <= x + m
    BY <1>1, <1>2, <1>4
  <2>2. QED
    BY <1>1, <2>1 DEF Fila!Payoff
<1>5. x * k <= 2 * (y * k) - m * k - k
  <2>1. x * k <= (2 * y - m - 1) * k
    BY <1>2, <1>4
  <2>2. (2 * y - m - 1) * k = 2 * (y * k) - m * k - k
    BY <1>2
  <2>3. QED
    BY <2>1, <2>2
<1>6. 4 * (y * r) + 2 * (y * y) <= 2 * (x * k) + 2 * SCALE + 6 * r + 3 * y
  <2> HIDE DEF x
  <2>1. root = r + y
    BY <1>1
  <2> HIDE DEF y
  <2>2. QED
    BY <1>1, <1>2, <2>1, ScaleAssumption
<1>7. 4 * (y * r) + 2 * (y * y) + 2 * (m * k) + 2 * k <= 4 * (y * k) + 2 * SCALE + 6 * r + 3 * y
  <2> HIDE DEF x, y
  <2>1. QED
    BY <1>1, <1>2, <1>3, <1>5, <1>6, ScaleAssumption
<1>8. m >= 5 /\ y >= 3
  <2>1. m >= 5
    <3>1. SUFFICES ASSUME m <= 4 PROVE FALSE
      OBVIOUS
    <3>2. (m - 4) * k <= 0
      BY <3>1
    <3>3. (m - 4) * k \in Int
      OBVIOUS
    <3>4. QED
      BY <3>2, <3>3, ScaleAssumption
  <2>2. QED
    BY <1>2, <1>4, <2>1
<1>9. CASE r >= k
  <2>1. y * (r - k) >= 2 * (r - k) /\ y * (r - k) = y * r - y * k
    BY <1>1, <1>2, <1>8, <1>9
  <2>2. y * y >= 3 * y
    BY <1>2, <1>8
  <2>3. 8 * (r - k) + 3 * y + 2 * (m * k) + 2 * k <= 2 * SCALE + 6 * r
    <3> HIDE DEF y
    <3>1. QED
      BY <1>1, <1>2, <1>3, <1>7, <1>8, <2>1, <2>2, ScaleAssumption
  <2>4. QED
    BY <1>1, <1>2, <1>3, <1>8, <1>9, <2>3, ScaleAssumption
<1>10. CASE r < k
  <2> DEFINE c == k - r
  <2>1. c \in Nat /\ c <= k /\ c * c \in Nat /\ c * k \in Nat /\ c * r \in Nat /\ y * c \in Int
    BY <1>1, <1>2, <1>10
  <2>2. 2 * (c * c) <= SCALE + 3 * k
    <3>1. k * k <= near * k /\ k * k \in Int
      BY <1>2
    <3>2. k * k = r * r + c * r + c * k
      BY <1>1
    <3>3. c * c <= c * k
      BY <2>1
    <3> HIDE DEF c
    <3>4. QED
      BY <1>1, <1>2, <1>10, <2>1, <3>1, <3>2, <3>3, ScaleAssumption
  <2>3. y * c = y * k - y * r
    BY <1>1, <1>2
  <2>4. z * z = y * y - 2 * (y * c) + c * c /\ z * z \in Int /\ z \in Int
    BY <1>1, <1>2
  <2>5. 2 * (z * z) - 3 * z >= -1
    <3>1. z = y - c
      OBVIOUS
    <3> HIDE DEF z
    <3>2. CASE z <= 0
      <4>1. z * z >= 0
        BY <2>4, <3>2
      <4>2. QED
        BY <2>4, <3>2, <4>1
    <3>3. CASE z = 1
      BY <3>3
    <3>4. CASE z >= 2
      <4>1. z * z >= 2 * z
        BY <2>4, <3>4
      <4>2. QED
        BY <2>4, <3>4, <4>1
    <3>5. QED
      BY <2>4, <3>2, <3>3, <3>4
  <2>6. z = y - c
    OBVIOUS
  <2>7. r = k - c
    BY <1>1
  <2> HIDE DEF c, y, z
  <2>8. QED
    BY <1>1, <1>2, <1>3, <1>7, <1>8, <2>1, <2>2, <2>3, <2>4, <2>5, <2>6, <2>7, ScaleAssumption
<1>11. QED
  BY <1>1, <1>9, <1>10

\* The root of the strike and a lower price, above the strike by rounding only.
LEMMA RootBelow ==
  ASSUME NEW k \in Nat, NEW s \in Nat, s <= k, NEW r \in DecSqrt(DecMul(s, k)), k <= r
  PROVE  4 * ((r - k) * k) <= SCALE + 3 * k + 1
<1> DEFINE e == r - k
<1>1. r \in Nat /\ 2 * (r * r - s * k) <= SCALE + 3 * r
  BY RootOfProduct
<1>2. s * k <= k * k /\ s * k \in Nat /\ k * k \in Nat
  OBVIOUS
<1>3. e \in Nat /\ r = k + e
  BY <1>1
<1> HIDE DEF e
<1>4. r * r = k * k + 2 * (e * k) + e * e /\ e * k \in Nat /\ e * e \in Nat
  BY <1>3
<1>5. 3 * e <= 2 * (e * e) + 1
  <2>1. CASE e >= 2
    <3>1. 2 * e <= e * e
      BY <1>3, <2>1
    <3>2. QED
      BY <1>3, <1>4, <3>1
  <2>2. CASE e \in {0, 1}
    BY <2>2
  <2>3. QED
    BY <1>3, <2>1, <2>2
<1>6. 4 * (e * k) <= SCALE + 3 * k + 1
  BY <1>1, <1>2, <1>3, <1>4, <1>5, ScaleAssumption
<1>7. QED
  BY <1>6 DEF e

LEMMA LongerTimes ==
  ASSUME NEW x \in Int, NEW y \in Int, NEW t \in Nat, NEW m \in Nat, x - 2 * y >= m + 1
  PROVE  /\ (m + 1) * t <= (x - 2 * y) * t
         /\ (x - 2 * y) * t = x * t - 2 * (y * t)
         /\ (m + 1) * t = (m - 2) * t + 3 * t
         /\ (m - 2) * t \in Int
<1>1. (m + 1) * t <= (x - 2 * y) * t
  OBVIOUS
<1>2. (x - 2 * y) * t = x * t - 2 * (y * t)
  OBVIOUS
<1>3. (m + 1) * t = (m - 2) * t + 3 * t /\ (m - 2) * t \in Int
  OBVIOUS
<1>4. QED
  BY <1>1, <1>2, <1>3

LEMMA PayoffBelow ==
  ASSUME NEW k \in Nat \ {0}, NEW near \in Nat, NEW far \in Nat, k >= near, near >= far,
         NEW m \in Nat, SCALE + 2 * k <= k * k, 4 * SCALE <= (m - 4) * k,
         near > 0 => SCALE + 2 * near <= near * near /\ 4 * SCALE <= (m - 4) * near,
         NEW r \in DecSqrt(DecMul(near, k)), NEW root \in DecSqrt(DecMul(far, k))
  PROVE  Fila!Payoff(near, k, r) <= Fila!Payoff(far, k, root) + m
<1> DEFINE x == near - far
           y == r - root
           t == r + root
<1>1. /\ r \in Nat /\ root \in Nat
      /\ near = 0 => r = 0
      /\ far = 0 => root = 0
      /\ 2 * (near * k - r * r) <= SCALE + 3 * r
      /\ 2 * (r * r - near * k) <= SCALE + 3 * r
      /\ 2 * (root * root - far * k) <= SCALE + 3 * root
  BY RootOfProduct
<1>2. /\ near * k = far * k + x * k
      /\ r * r = root * root + y * t
      /\ near * k \in Int /\ far * k \in Int /\ x * k \in Int /\ r * r \in Int
      /\ root * root \in Int /\ y * t \in Int
      /\ x \in Nat /\ y \in Int /\ t \in Nat
  BY <1>1
<1>3. SUFFICES ASSUME x - 2 * y >= m + 1 PROVE FALSE
  <2>1. x - 2 * y <= m
    BY <1>1, <1>2, <1>3
  <2>2. QED
    BY <1>1, <2>1 DEF Fila!Payoff
<1>4. m >= 5
  <2>1. SUFFICES ASSUME m <= 4 PROVE FALSE
    OBVIOUS
  <2>2. (m - 4) * k <= 0 /\ (m - 4) * k \in Int
    BY <2>1
  <2>3. QED
    BY <2>2, ScaleAssumption
<1>5. 2 * (x * k) <= 2 * (y * t) + 2 * SCALE + 3 * t
  <2>1. 3 * r + 3 * root = 3 * t
    BY <1>1
  <2> HIDE DEF x, y, t
  <2>2. QED
    BY <1>1, <1>2, <2>1, ScaleAssumption
<1>6. near > 0
  <2>1. SUFFICES ASSUME near = 0 PROVE FALSE
    OBVIOUS
  <2>2. far = 0 /\ r = 0 /\ root = 0
    BY <1>1, <2>1
  <2>3. QED
    BY <1>3, <2>1, <2>2
<1>7. CASE t <= 2 * k
  <2>1. x * t <= 2 * (x * k) /\ x * t \in Int
    <3>1. x * t <= x * (2 * k) /\ x * (2 * k) = 2 * (x * k) /\ x * t \in Int
      BY <1>2, <1>7
    <3>2. QED
      BY <3>1
  <2>2. (m + 1) * t <= (x - 2 * y) * t /\ (x - 2 * y) * t = x * t - 2 * (y * t)
        /\ (m + 1) * t = (m - 2) * t + 3 * t /\ (m - 2) * t \in Int
    <3> HIDE DEF x, y, t
    <3>1. QED
      BY <1>2, <1>3, LongerTimes
  <2>3. (m - 2) * t <= 2 * SCALE
    <3> HIDE DEF x, y, t
    <3>1. QED
      BY <1>2, <1>5, <2>1, <2>2, ScaleAssumption
  <2>4. near <= 2 * r
    BY <1>6, <1>1, RootAbove
  <2>5. (m - 4) * near <= (m - 4) * (2 * r) /\ (m - 4) * (2 * r) = 2 * ((m - 4) * r)
    BY <1>1, <1>4, <2>4
  <2>6. (m - 4) * r <= (m - 4) * t /\ (m - 2) * t = (m - 4) * t + 2 * t
        /\ (m - 4) * t \in Int /\ (m - 4) * r \in Int /\ (m - 4) * near \in Int
    BY <1>1, <1>4
  <2>7. t > 0
    BY <1>1, <1>6, <2>4
  <2> HIDE DEF x, y, t
  <2>8. QED
    BY <1>1, <1>2, <1>6, <2>3, <2>5, <2>6, <2>7, ScaleAssumption
<1>8. CASE t > 2 * k
  <2> DEFINE v == t - 2 * k
             c == r - k
  <2>1. x * t = 2 * (x * k) + x * v /\ x * t \in Int /\ x * v \in Int /\ v \in Nat
    <3>1. v \in Nat /\ t = 2 * k + v
      BY <1>2, <1>8
    <3> HIDE DEF x, t, v
    <3>2. x * (2 * k + v) = 2 * (x * k) + x * v /\ x * v \in Int
      BY <1>2, <3>1
    <3>3. QED
      BY <1>2, <3>1, <3>2
  <2>2. (m + 1) * t <= (x - 2 * y) * t /\ (x - 2 * y) * t = x * t - 2 * (y * t)
        /\ (m + 1) * t = m * t + t /\ m * t \in Int
    <3>1. m * t \in Int /\ m * t = (m - 2) * t + 2 * t
      BY <1>2
    <3> HIDE DEF x, y, t, v
    <3>2. QED
      BY <1>2, <1>3, <3>1, LongerTimes
  <2>3. m * t <= 2 * SCALE + 2 * t + x * v
    <3> HIDE DEF x, y, t, v
    <3>1. QED
      BY <1>2, <1>5, <2>1, <2>2, ScaleAssumption
  <2>4. 2 * (k * v) <= SCALE + 3 * k + 1 /\ k * v \in Nat
    <3> DEFINE e == r - k
               f == root - k
    <3>1. far <= k /\ near <= k
      OBVIOUS
    <3>2. e \in Int /\ f \in Int /\ v = e + f /\ e * k \in Int /\ f * k \in Int
      BY <1>1
    <3>3. e >= 0 => 4 * (e * k) <= SCALE + 3 * k + 1
      BY <1>1, <3>1, RootBelow
    <3>4. f >= 0 => 4 * (f * k) <= SCALE + 3 * k + 1
      BY <1>1, <3>1, RootBelow
    <3>5. (e < 0 => e * k <= 0) /\ (f < 0 => f * k <= 0)
      BY <3>2
    <3> HIDE DEF e, f, v
    <3>6. k * v = e * k + f * k /\ k * v \in Nat
      BY <2>1, <3>2
    <3>7. QED
      BY <3>2, <3>3, <3>4, <3>5, <3>6, ScaleAssumption
  <2>5. x * v <= k * v
    BY <1>2, <2>1
  <2>6. m * t = m * (2 * k) + m * v /\ m * v >= 2 * v /\ t = 2 * k + v /\ m * v \in Int
    <3>1. t = 2 * k + v
      BY <1>2
    <3> HIDE DEF t, v
    <3>2. m * (2 * k + v) = m * (2 * k) + m * v /\ m * v >= 2 * v /\ m * v \in Int
      BY <1>4, <2>1
    <3>3. QED
      BY <3>1, <3>2
  <2>7. m * (2 * k) = 2 * (m * k) /\ (m - 4) * k = m * k - 4 * k /\ m * k \in Int
          /\ 5 * k <= m * k
    BY <1>4
  <2> HIDE DEF x, y, t, v
  <2>8. QED
    BY <2>1, <2>2, <2>3, <2>4, <2>5, <2>6, <2>7, ScaleAssumption
<1>9. QED
  BY <1>2, <1>7, <1>8

\* No price is so small that the rounding of the root of its product with the strike, times
\* the notional, could be worth a token; with 28 digits, none above 2 * 10^-8 is.
PricesFit ==
  \A price \in Rates \union {t.strike : t \in Terms} :
    price > 0 => 10 * (MaxU64 + 1) <= price /\ SCALE + 2 * price <= price * price

\* With no strike there is no root: the payoff is the price.
LEMMA PayoffWithoutStrike ==
  ASSUME NEW near \in Nat, NEW far \in Nat, near <= far,
         NEW r \in DecSqrt(DecMul(near, 0)), NEW root \in DecSqrt(DecMul(far, 0))
  PROVE  Fila!Payoff(near, 0, r) <= Fila!Payoff(far, 0, root)
<1>1. r = 0 /\ root = 0
  BY RootOfProduct
<1>2. QED
  BY <1>1 DEF Fila!Payoff

LEMMA FilaSenior ==
  ASSUME NEW q \in Quantities, NEW s \in Nat, NEW k \in Nat, NEW notional \in Nat,
         NEW result \in Fila!execute_plugin(q, s, k, notional)
  PROVE  \E r \in DecSqrt(DecMul(s, k)) :
           result.new_quantity[0] = DecFloor(Lesser(Dec(q[1]), notional * Fila!Payoff(s, k, r)))
<1>1. PICK r \in Fila!DecSqrt(Fila!DecMul(s, k)) :
        result \in Fila!ReturnsFloors(q,
          Fila!Lesser(Fila!Dec(q[1]), notional * Fila!Payoff(s, k, r)),
          Fila!Greater(0, Fila!Dec(Fila!Total(q))
                            - Fila!Lesser(Fila!Dec(q[1]), notional * Fila!Payoff(s, k, r))))
  <2>1. ~(s < 0 \/ k < 0)
    OBVIOUS
  <2>2. QED
    BY <2>1, Zenon DEF Fila!execute_plugin
<1>2. r \in DecSqrt(DecMul(s, k))
  BY <1>1, FilaArithmetic
<1> DEFINE senior == Lesser(Dec(q[1]), notional * Fila!Payoff(s, k, r))
           junior == Greater(0, Dec(Total(q)) - senior)
<1>3. result \in ReturnsFloors(q, senior, junior)
  BY <1>1, Zenon DEF Fila!ReturnsFloors, ReturnsFloors, Fila!Returns, Returns,
       Fila!RedeemLogicExecuteResult, RedeemLogicExecuteResult, Fila!Quantities,
       Quantities, Fila!U64, U64, Fila!Tranches, Tranches, Fila!Remainder, Remainder,
       Fila!Total, Total, Fila!Split, Split, Fila!DecFloor, DecFloor, Fila!Dec, Dec,
       Fila!Lesser, Lesser, Fila!Greater, Greater
<1> HIDE DEF senior, junior
<1>4. result.new_quantity[0] = DecFloor(senior)
  BY <1>3, SeniorOfFloors
<1>5. QED
  BY <1>2, <1>4, Zenon DEF senior

LEMMA ProtectionMonotone ==
  ASSUME NEW q \in Quantities, NEW k \in Nat, NEW notional \in Nat, notional <= MaxU64,
         NEW near \in Nat, NEW far \in Nat, 10 * (MaxU64 + 1) <= SCALE,
         (k <= near /\ near <= far) \/ (k >= near /\ near >= far),
         \A price \in {k, near} :
           price > 0 => 10 * (MaxU64 + 1) <= price /\ SCALE + 2 * price <= price * price,
         NEW n \in Fila!execute_plugin(q, near, k, notional),
         NEW f \in Fila!execute_plugin(q, far, k, notional)
  PROVE  f.new_quantity[0] + 1 >= n.new_quantity[0]
<1> DEFINE M == MaxU64 + 1
           m == SCALE \div M
<1>1. PICK r \in DecSqrt(DecMul(near, k)) :
        n.new_quantity[0] = DecFloor(Lesser(Dec(q[1]), notional * Fila!Payoff(near, k, r)))
  BY FilaSenior
<1>2. PICK root \in DecSqrt(DecMul(far, k)) :
        f.new_quantity[0] = DecFloor(Lesser(Dec(q[1]), notional * Fila!Payoff(far, k, root)))
  BY FilaSenior
<1>3. /\ M \in Nat \ {0} /\ m \in Nat /\ notional < M
      /\ M * m <= SCALE /\ SCALE < M * m + M
  <2>1. M \in Nat \ {0} /\ notional < M
    BY MaxU64Assumption
  <2> HIDE DEF M
  <2>2. m \in Nat /\ SCALE % M \in 0 .. M - 1 /\ SCALE = M * m + (SCALE % M)
    <3>1. SCALE \in Nat /\ SCALE \in Int /\ M \in Nat \ {0}
      BY <2>1, ScaleAssumption
    <3>2. m \in Nat
      BY <3>1, DivIsNat, Zenon
    <3>3. SCALE % M \in 0 .. M - 1 /\ SCALE = M * m + (SCALE % M)
      BY <3>1, DivModFact, Zenon
    <3>4. QED
      BY <3>2, <3>3
  <2> HIDE DEF m
  <2>3. M * m \in Int
    BY <2>1, <2>2
  <2>4. QED
    BY <2>1, <2>2, <2>3, ScaleAssumption
<1>4. 10 * M <= SCALE
  OBVIOUS
<1>5. \A price \in {k, near} :
        price > 0 => 10 * M <= price /\ SCALE + 2 * price <= price * price
  OBVIOUS
<1> HIDE DEF M, m
<1>6. m >= 10
  <2>1. SUFFICES ASSUME m <= 9 PROVE FALSE
    BY <1>3
  <2>2. M * m <= M * 9 /\ M * m \in Int /\ M * 9 = 9 * M
    BY <1>3, <2>1
  <2>3. QED
    BY <1>3, <1>4, <2>2, ScaleAssumption
<1>7. ASSUME NEW price \in {k, near}, price > 0 PROVE 4 * SCALE <= (m - 4) * price
  <2>1. price \in Nat /\ 10 * M <= price
    BY <1>5, <1>7
  <2>2. (m - 4) * (10 * M) <= (m - 4) * price
    BY <1>3, <1>6, <2>1
  <2>3. (m - 4) * (10 * M) = 10 * (M * m) - 40 * M /\ M * m \in Int
          /\ (m - 4) * price \in Int
    BY <1>3, <2>1
  <2>4. QED
    BY <1>3, <1>4, <2>2, <2>3, ScaleAssumption
<1>8. notional * m <= SCALE
  <2>1. notional * m <= M * m /\ notional * m \in Nat /\ M * m \in Nat
    BY <1>3
  <2>2. QED
    BY <1>3, <2>1, ScaleAssumption
<1> DEFINE a == Fila!Payoff(near, k, r)
           b == Fila!Payoff(far, k, root)
<1>9. a \in Int /\ b \in Int
  <2>1. r \in Nat /\ root \in Nat
    BY RootOfProduct
  <2>2. QED
    BY <2>1 DEF Fila!Payoff
<1>10. a <= b + m
  <2>1. CASE k = 0
    <3>1. near <= far
      BY <2>1
    <3>2. a <= b
      BY <2>1, <3>1, PayoffWithoutStrike
    <3> HIDE DEF a, b
    <3>3. QED
      BY <1>3, <1>9, <3>2
  <2>2. CASE k > 0 /\ k <= near /\ near <= far
    <3>1. 2 * SCALE <= (m - 4) * k
      <4>1. 4 * SCALE <= (m - 4) * k /\ (m - 4) * k \in Int
        BY <1>3, <1>7, <2>2
      <4>2. QED
        BY <4>1, ScaleAssumption
    <3>2. QED
      BY <1>3, <2>2, <3>1, PayoffAbove
  <2>3. CASE k > 0 /\ k >= near /\ near >= far
    <3>1. 4 * SCALE <= (m - 4) * k /\ SCALE + 2 * k <= k * k
      BY <1>5, <1>7, <2>3
    <3>2. near > 0 => SCALE + 2 * near <= near * near /\ 4 * SCALE <= (m - 4) * near
      BY <1>5, <1>7
    <3>3. QED
      BY <1>3, <2>3, <3>1, <3>2, PayoffBelow
  <2>4. QED
    BY <2>1, <2>2, <2>3
<1> HIDE DEF a, b
<1>11. notional * a <= notional * b + SCALE
  <2>1. notional * a <= notional * (b + m)
    BY <1>3, <1>9, <1>10
  <2>2. notional * (b + m) = notional * b + notional * m
          /\ notional * b \in Int /\ notional * m \in Int /\ notional * a \in Int
    BY <1>3, <1>9
  <2>3. QED
    BY <1>8, <2>1, <2>2, ScaleAssumption
<1> DEFINE sn == Lesser(Dec(q[1]), notional * a)
           sf == Lesser(Dec(q[1]), notional * b)
<1>12. sn \in Int /\ sf \in Int /\ sn <= sf + SCALE
  <2>1. notional * a \in Int /\ notional * b \in Int /\ Dec(q[1]) \in Int
    BY <1>9, QuantityIsNat, ScaleAssumption DEF Dec
  <2>2. QED
    BY <1>11, <2>1, ScaleAssumption DEF Lesser
<1>13. n.new_quantity[0] = DecFloor(sn) /\ f.new_quantity[0] = DecFloor(sf)
  BY <1>1, <1>2, Zenon DEF a, b
<1> HIDE DEF sn, sf
<1>14. /\ DecFloor(sn) \in Int /\ SCALE * DecFloor(sn) <= sn
       /\ DecFloor(sf) \in Int /\ sf < SCALE * DecFloor(sf) + SCALE
  BY <1>12, FloorFact
<1> DEFINE g == DecFloor(sn)
           h == DecFloor(sf)
<1>15. h + 1 >= g
  <2>1. /\ g \in Int /\ h \in Int /\ SCALE * g <= sn /\ sf < SCALE * h + SCALE
    BY <1>14
  <2> HIDE DEF g, h
  <2>2. SUFFICES ASSUME g - h >= 2 PROVE FALSE
    BY <2>1
  <2>3. SCALE * (g - h) >= SCALE * 2 /\ SCALE * (g - h) = SCALE * g - SCALE * h
    BY <2>1, <2>2, ScaleAssumption
  <2>4. SCALE * g \in Int /\ SCALE * h \in Int
    BY <2>1, ScaleAssumption
  <2>5. QED
    BY <1>12, <2>1, <2>3, <2>4, ScaleAssumption
<1>16. QED
  BY <1>13, <1>15

\* The farther the spot is from the strike, the more the buyer of protection receives, up to
\* one token: the rounding of the roots takes no more than that.
THEOREM ProtectionGrows ==
  ASSUME PricesFit
  PROVE  Spec => []ProtectionGrowsWithDistance
<1>1. 10 * (MaxU64 + 1) <= SCALE
  BY RatesAssumption, ScaleAssumption DEF PricesFit, One
<1>2. Termed => ProtectionGrowsWithDistance
  <2>1. SUFFICES ASSUME Termed, plugin = "fila", NEW near \in FairValues, NEW far \in FairValues,
                        \/ terms.strike <= near[0] /\ near[0] <= far[0]
                        \/ terms.strike >= near[0] /\ near[0] >= far[0],
                        NEW n \in Results("fila", near), NEW f \in Results("fila", far)
                 PROVE  f.new_quantity[0] + 1 >= n.new_quantity[0]
    BY DEF ProtectionGrowsWithDistance
  <2>2. /\ IsValid(rate, near)
        /\ n \in Fila!execute_plugin(quantity, near[0], terms.strike, terms.notional)
    BY <2>1 DEF Results, Execute, Fila!execute, Fila!IsValid, IsValid
  <2>3. /\ IsValid(rate, far)
        /\ f \in Fila!execute_plugin(quantity, far[0], terms.strike, terms.notional)
    BY <2>1 DEF Results, Execute, Fila!execute, Fila!IsValid, IsValid
  <2>4. /\ terms \in Terms /\ quantity \in Quantities /\ rate \in FairValues
        /\ Accepts(plugin, terms)
    BY <2>1 DEF Termed, Typed
  <2>5. /\ near[0] \in Nat /\ near[0] \in Rates /\ far[0] \in Nat
        /\ terms.strike \in Nat /\ terms.notional \in Nat /\ terms.notional <= MaxU64
    <3>1. near[0] \in Nat /\ far[0] \in Nat
      BY <2>2, <2>3, <2>4, ValidIsNat
    <3>2. near[0] \in Rates
      BY DEF FairValues, FairValue
    <3>3. terms.strike \in Nat
      BY <2>1, <2>4, TermsAssumption DEF Accepts, Fila!initialize
    <3>4. terms.notional \in Nat /\ terms.notional <= MaxU64
      BY <2>4, TermsAssumption, MaxU64Assumption DEF U64
    <3>5. QED
      BY <3>1, <3>2, <3>3, <3>4
  <2>6. \A price \in {terms.strike, near[0]} :
          price > 0 => 10 * (MaxU64 + 1) <= price /\ SCALE + 2 * price <= price * price
    BY <2>4, <2>5 DEF PricesFit
  <2>7. /\ n \in Fila!execute_plugin(quantity, near[0], terms.strike, terms.notional)
        /\ f \in Fila!execute_plugin(quantity, far[0], terms.strike, terms.notional)
        /\ \/ terms.strike <= near[0] /\ near[0] <= far[0]
           \/ terms.strike >= near[0] /\ near[0] >= far[0]
    BY <2>1, <2>2, <2>3
  <2> DEFINE s == near[0]
             e == far[0]
             k == terms.strike
             N == terms.notional
  <2>8. /\ s \in Nat /\ e \in Nat /\ k \in Nat /\ N \in Nat /\ N <= MaxU64
        /\ (k <= s /\ s <= e) \/ (k >= s /\ s >= e)
        /\ \A price \in {k, s} :
             price > 0 => 10 * (MaxU64 + 1) <= price /\ SCALE + 2 * price <= price * price
        /\ quantity \in Quantities
    BY <2>4, <2>5, <2>6, <2>7
  <2>9. /\ n \in Fila!execute_plugin(quantity, s, k, N)
        /\ f \in Fila!execute_plugin(quantity, e, k, N)
    BY <2>7
  <2> HIDE DEF s, e, k, N
  <2>10. QED
    BY <1>1, <2>8, <2>9, ProtectionMonotone
<1>3. QED
  BY <1>2, TermedHolds, PTL

----------------------------------------------------------------------------
(* Farming: neither roots nor quotients, rounded one after the other, make a payoff negative *)

\* The farming plugin computes with the operators of the others.
LEMMA FarmingArithmetic ==
  /\ \A n, d : Farming!RoundHalfEven(n, d) = RoundHalfEven(n, d)
  /\ \A a, b : Farming!DecMul(a, b) = DecMul(a, b)
  /\ \A a, b : Farming!DecDiv(a, b) = DecDiv(a, b)
  /\ \A d : Farming!DecSqrt(d) = DecSqrt(d)
<1>1. ASSUME NEW n, NEW d PROVE Farming!RoundHalfEven(n, d) = RoundHalfEven(n, d)
  BY Zenon DEF Farming!RoundHalfEven, RoundHalfEven
<1>2. ASSUME NEW a, NEW b PROVE Farming!DecMul(a, b) = DecMul(a, b)
  BY <1>1, Zenon DEF Farming!DecMul, DecMul
<1>3. ASSUME NEW a, NEW b PROVE Farming!DecDiv(a, b) = DecDiv(a, b)
  BY <1>1, Zenon DEF Farming!DecDiv, DecDiv
<1>4. ASSUME NEW d PROVE Farming!DecSqrt(d) = DecSqrt(d)
  BY Zenon DEF Farming!DecSqrt, DecSqrt, Farming!Newton, Newton, Farming!NewtonStep,
     NewtonStep, Farming!NewtonStart, NewtonStart,
     Farming!DecDiv, DecDiv, Farming!RoundHalfEven, RoundHalfEven
<1>5. QED
  BY <1>1, <1>2, <1>3, <1>4

\* The base tokens in an LP token, times the price of one, are half of the LP token's value
\* but for the rounding of a quotient and a product.
LEMMA BaseFact ==
  ASSUME NEW l \in Nat \ {0}, NEW u \in Nat \ {0}, NEW h \in Nat, SCALE = 2 * h
  PROVE  /\ Farming!BaseInLp(l, u) \in Nat
         /\ 2 * (2 * (Farming!BaseInLp(l, u) * u) - l * SCALE) <= 3 * u
         /\ 2 * (l * SCALE - 2 * (Farming!BaseInLp(l, u) * u)) <= 3 * u
<1>1. Farming!BaseInLp(l, u) = DecMul(DecDiv(l, u), RoundHalfEven(One, 2))
  BY FarmingArithmetic DEF Farming!BaseInLp, Farming!Half, Farming!One, One
<1>2. QED
  BY <1>1, HalfQuotient

\* The root of two prices that are not too small is not much smaller.
LEMMA RootLarge ==
  ASSUME NEW low \in Nat, NEW u \in Nat, NEW v \in Nat, low <= u, low <= v,
         100 <= low, 100 * SCALE <= low * low, NEW r \in DecSqrt(DecMul(u, v))
  PROVE  r \in Nat /\ low <= 2 * r
<1>1. r \in Nat /\ 2 * (u * v - r * r) <= SCALE + 3 * r
  BY RootOfProduct
<1>2. SUFFICES ASSUME 2 * r < low PROVE FALSE
  BY <1>1
<1>3. u * v >= low * low
  <2>1. u * v = low * low + low * (v - low) + (u - low) * v
    OBVIOUS
  <2>2. low * (v - low) \in Nat /\ (u - low) * v \in Nat /\ low * low \in Nat
    <3>1. v - low \in Nat /\ u - low \in Nat
      OBVIOUS
    <3>2. QED
      BY <3>1
  <2>3. QED
    BY <2>1, <2>2
<1>4. 4 * (r * r) <= low * low
  <2>1. (2 * r) * (2 * r) <= (2 * r) * low
    BY <1>1, <1>2
  <2>2. (2 * r) * low <= low * low
    BY <1>1, <1>2
  <2>3. (2 * r) * (2 * r) = 4 * (r * r) /\ r * r \in Int /\ (2 * r) * low \in Int
    BY <1>1
  <2>4. QED
    BY <2>1, <2>2, <2>3
<1>5. low * low >= 100 * low
  OBVIOUS
<1>6. u * v \in Int /\ r * r \in Int /\ low * low \in Int
  BY <1>1
<1>7. QED
  BY <1>1, <1>2, <1>3, <1>4, <1>5, <1>6, ScaleAssumption

\* A loss of an LP token is half its base tokens times the difference that a root makes.
LEMMA LossFact ==
  ASSUME NEW l \in Nat \ {0}, NEW u \in Nat \ {0}, NEW c \in Nat,
         NEW B \in Nat, B = Farming!BaseInLp(l, u), NEW x \in Farming!LpIl(l, u, c)
  PROVE  /\ x \in Int
         /\ \E r \in DecSqrt(DecMul(u, c)) :
              /\ r \in Nat
              /\ 2 * (SCALE * x - B * (2 * r - u - c)) <= SCALE
              /\ 2 * (B * (2 * r - u - c) - SCALE * x) <= SCALE
<1>1. PICK r : /\ r \in DecSqrt(DecMul(u, c))
               /\ x = DecMul(B, 2 * r - u - c)
  BY FarmingArithmetic DEF Farming!LpIl
<1>2. r \in Nat
  BY <1>1, RootOfProduct
<1> DEFINE n == B * (2 * r - u - c)
<1>3. n \in Int
  BY <1>2
<1>4. x = RoundHalfEven(n, SCALE)
  BY <1>1 DEF DecMul
<1> HIDE DEF n
<1>5. x \in Int /\ 2 * (SCALE * x - n) <= SCALE /\ 2 * (n - SCALE * x) <= SCALE
  BY <1>3, <1>4, RoundingError, ScaleAssumption
<1>6. QED
  BY <1>1, <1>2, <1>5 DEF n

LEMMA DeltaFact ==
  ASSUME NEW l \in Nat \ {0}, NEW u \in Nat \ {0}, NEW v \in Nat,
         NEW B \in Nat, B = Farming!BaseInLp(l, u)
  PROVE  /\ Farming!LpDelta(l, u, v) \in Int
         /\ 2 * (B * (v - u) - SCALE * Farming!LpDelta(l, u, v)) <= SCALE
<1> DEFINE n == B * (v - u)
<1>1. n \in Int
  OBVIOUS
<1>2. Farming!LpDelta(l, u, v) = RoundHalfEven(n, SCALE)
  BY FarmingArithmetic DEF Farming!LpDelta, DecMul
<1> HIDE DEF n
<1>3. QED
  BY <1>1, <1>2, RoundingError, ScaleAssumption DEF n

\* Prices in a range whose ratio leaves room for the roundings: with 28 digits, for example,
\* from 10^-6 to 10^7.
Within(low, high, price) == low <= price /\ price <= high

RangeFits(low, high) ==
  /\ 100 * high <= low * low
  /\ 100 * (high * SCALE) <= low * (low * low)
  /\ 100 * (high * high) <= SCALE * (low * low)

\* The loss at the cap is never a gain of more than the whole LP token.
LEMMA CapLossSmall ==
  ASSUME NEW low \in Nat, NEW high \in Nat, RangeFits(low, high), 100 <= low, SCALE <= high,
         NEW h \in Nat, SCALE = 2 * h,
         NEW l \in Nat, NEW u \in Nat, NEW n \in Nat, NEW c \in Nat,
         Within(low, high, l), Within(low, high, u), Within(low, high, n),
         NEW y \in Farming!LpIl(l, u, c)
  PROVE  y \in Int /\ y <= n
<1> DEFINE B == Farming!BaseInLp(l, u)
<1>1. l \in Nat \ {0} /\ u \in Nat \ {0} /\ low <= u /\ low <= n /\ l <= high /\ u <= high
  BY DEF Within
<1>2. B \in Nat /\ 2 * (2 * (B * u) - l * SCALE) <= 3 * u
  BY <1>1, BaseFact
<1>3. /\ y \in Int
      /\ \E r \in DecSqrt(DecMul(u, c)) :
           r \in Nat /\ 2 * (SCALE * y - B * (2 * r - u - c)) <= SCALE
  <2> HIDE DEF B
  <2>1. B \in Nat /\ B = Farming!BaseInLp(l, u)
    BY <1>2 DEF B
  <2>2. QED
    BY <1>1, <2>1, LossFact
<1> HIDE DEF B
<1>4. PICK r \in DecSqrt(DecMul(u, c)) :
        r \in Nat /\ 2 * (SCALE * y - B * (2 * r - u - c)) <= SCALE
  BY <1>3
<1> DEFINE t == 2 * r - u - c
<1>5. t \in Int /\ t * u <= 2 * SCALE + 3 * u /\ 2 * (SCALE * y - B * t) <= SCALE
  BY <1>1, <1>4, RootExcess
<1> HIDE DEF t
<1>6. SUFFICES ASSUME y >= n + 1 PROVE FALSE
  BY <1>3
<1>7. 2 * (SCALE * n) < 2 * (B * t)
  <2>1. SCALE * y = SCALE * n + SCALE + SCALE * (y - n - 1) /\ SCALE * (y - n - 1) \in Nat
    BY <1>3, <1>6, ScaleAssumption
  <2>2. SCALE * n \in Int /\ B * t \in Int
    BY <1>2, <1>5, ScaleAssumption
  <2>3. QED
    BY <1>5, <2>1, <2>2, ScaleAssumption
<1>8. t > 0
  <2>1. SUFFICES ASSUME t <= 0 PROVE FALSE
    BY <1>5
  <2>2. B * t <= 0 /\ B * t \in Int /\ SCALE * n \in Nat
    BY <1>2, <1>5, <2>1, ScaleAssumption
  <2>3. QED
    BY <1>7, <2>2
\* everything times 2 * u * u
<1> DEFINE z == 2 * (l * SCALE) + 3 * u
<1>9. z \in Nat /\ 4 * (B * u) <= z /\ z <= 5 * (high * SCALE)
  <2>1. l * SCALE <= high * SCALE /\ u <= high * SCALE
    <3>1. high * SCALE = l * SCALE + (high - l) * SCALE /\ (high - l) * SCALE \in Nat
      BY <1>1, ScaleAssumption
    <3>2. high * SCALE = high + high * (SCALE - 1) /\ high * (SCALE - 1) \in Nat
      BY ScaleAssumption
    <3>3. l * SCALE \in Nat
      BY ScaleAssumption
    <3>4. QED
      BY <1>1, <3>1, <3>2, <3>3
  <2>2. l * SCALE \in Nat /\ high * SCALE \in Nat /\ B * u \in Nat
    BY <1>2, ScaleAssumption
  <2>3. QED
    BY <1>2, <2>1, <2>2
<1> HIDE DEF z
<1>10. 4 * ((B * t) * u) <= z * t
  <2>1. z * t = 4 * (B * u) * t + (z - 4 * (B * u)) * t
    BY <1>2, <1>5, <1>9
  <2>2. (z - 4 * (B * u)) * t \in Nat
    BY <1>2, <1>5, <1>8, <1>9
  <2>3. 4 * (B * u) * t = 4 * ((B * t) * u) /\ (B * t) * u \in Int
    BY <1>2, <1>5
  <2>4. QED
    BY <2>1, <2>2, <2>3
<1>11. 4 * ((SCALE * n) * u) < z * t
  <2> DEFINE a == SCALE * n
             b == B * t
  <2>1. a \in Nat /\ b \in Int /\ a < b
    BY <1>2, <1>5, <1>7, ScaleAssumption
  <2>2. 4 * (b * u) <= z * t
    BY <1>10
  <2> HIDE DEF a, b
  <2>3. b * u = a * u + (b - a) * u /\ (b - a) * u >= 1 /\ a * u \in Nat /\ b * u \in Int
    BY <1>1, <2>1
  <2>4. z * t \in Int
    BY <1>5, <1>9
  <2>5. 4 * (a * u) < z * t
    <3> DEFINE p == a * u
               q == b * u
               w == z * t
    <3>1. 4 * q <= w /\ p \in Int /\ q \in Int /\ w \in Int
      BY <2>2, <2>3, <2>4
    <3>4. q > p
      <4> DEFINE k == (b - a) * u
      <4>1. q = p + k /\ k >= 1 /\ k \in Int
        BY <1>1, <2>1, <2>3
      <4> HIDE DEF p, q, k
      <4>2. QED
        BY <3>1, <4>1
    <3> HIDE DEF p, q, w
    <3>2. 4 * p < w
      BY <3>1, <3>4
    <3>3. QED
      BY <3>2 DEF p, w
  <2>6. QED
    BY <2>5 DEF a
<1>12. 4 * ((SCALE * n) * (u * u)) < z * (2 * SCALE + 3 * u)
  <2> DEFINE a == (SCALE * n) * u
             b == z * t
  <2>1. a \in Nat /\ b \in Int /\ 4 * a < b
    BY <1>1, <1>5, <1>9, <1>11, ScaleAssumption
  <2>2. b * u = z * (t * u)
    BY <1>5, <1>9
  <2>3. z * (t * u) <= z * (2 * SCALE + 3 * u)
    <3> DEFINE p == t * u
               q == 2 * SCALE + 3 * u
    <3>1. p \in Int /\ q \in Int /\ p <= q
      BY <1>5, ScaleAssumption
    <3> HIDE DEF p, q
    <3>2. z * q = z * p + z * (q - p) /\ z * (q - p) \in Nat /\ z * p \in Int
      BY <1>9, <3>1
    <3>3. z * p <= z * q
      BY <3>1, <3>2
    <3>4. QED
      BY <3>3 DEF p, q
  <2>4. a * u = (SCALE * n) * (u * u)
    BY ScaleAssumption
  <2> HIDE DEF a, b
  <2>5. b * u = 4 * (a * u) + (b - 4 * a) * u /\ (b - 4 * a) * u >= 1 /\ a * u \in Int
          /\ b * u \in Int
    BY <1>1, <2>1
  <2>6. z * (2 * SCALE + 3 * u) \in Int /\ z * (t * u) \in Int
    BY <1>5, <1>9, ScaleAssumption
  <2>7. 4 * (a * u) < z * (2 * SCALE + 3 * u)
    <3> DEFINE p == a * u
               m == z * (2 * SCALE + 3 * u)
               w == z * (t * u)
    <3>1. w > 4 * p /\ w <= m /\ p \in Int /\ m \in Int /\ w \in Int
      <4>1. b * u > 4 * (a * u)
        <5> DEFINE p1 == a * u
                   k1 == (b - 4 * a) * u
                   q1 == b * u
        <5>1. q1 = 4 * p1 + k1 /\ k1 >= 1 /\ p1 \in Int /\ q1 \in Int /\ k1 \in Int
          BY <2>1, <2>5
        <5> HIDE DEF p1, k1, q1
        <5>2. q1 > 4 * p1
          BY <5>1
        <5>3. QED
          BY <5>2 DEF p1, q1
      <4>2. QED
        BY <4>1, <2>2, <2>3, <2>5, <2>6
    <3> HIDE DEF p, m, w
    <3>2. 4 * p < m
      BY <3>1
    <3>3. QED
      BY <3>2 DEF p, m
  <2>8. QED
    BY <2>4, <2>7
<1>13. z * (2 * SCALE + 3 * u) <= 5 * (high * SCALE) * (2 * SCALE + 3 * u)
  <2>1. /\ 5 * (high * SCALE) * (2 * SCALE + 3 * u)
           = z * (2 * SCALE + 3 * u) + (5 * (high * SCALE) - z) * (2 * SCALE + 3 * u)
        /\ (5 * (high * SCALE) - z) * (2 * SCALE + 3 * u) \in Nat
    <3>1. high * SCALE \in Nat /\ 2 * SCALE + 3 * u \in Nat
      BY ScaleAssumption
    <3>2. 5 * (high * SCALE) - z \in Nat
      BY <1>9, <3>1
    <3>3. QED
      BY <1>9, <3>1, <3>2
  <2>2. z * (2 * SCALE + 3 * u) \in Int
    BY <1>9, ScaleAssumption
  <2>3. QED
    BY <2>1, <2>2
<1> DEFINE uu == u * u
           hs == high * SCALE
<1>14. uu \in Nat /\ hs \in Nat /\ uu >= 1
  BY <1>1, ScaleAssumption
<1>15. 4 * (n * uu) < 10 * hs + 15 * (high * u)
  <2>1. SCALE * (4 * (n * uu)) = 4 * ((SCALE * n) * (u * u))
    BY <1>14, ScaleAssumption
  <2>2. SCALE * (10 * hs + 15 * (high * u)) = 5 * (high * SCALE) * (2 * SCALE + 3 * u)
    BY ScaleAssumption
  <2>3. 4 * (n * uu) \in Int /\ 10 * hs + 15 * (high * u) \in Int
    BY <1>14
  <2> DEFINE a == 4 * (n * uu)
             b == 10 * hs + 15 * (high * u)
  <2>4. SCALE * a < SCALE * b
    <3>1. 4 * ((SCALE * n) * (u * u)) \in Int /\ z * (2 * SCALE + 3 * u) \in Int
            /\ 5 * (high * SCALE) * (2 * SCALE + 3 * u) \in Int
      BY <1>9, ScaleAssumption
    <3>2. QED
      BY <1>12, <1>13, <2>1, <2>2, <3>1
  <2> HIDE DEF a, b
  <2>5. a < b
    <3>1. a \in Int /\ b \in Int
      BY <2>3 DEF a, b
    <3>2. SUFFICES ASSUME a >= b PROVE FALSE
      BY <3>1
    <3>3. SCALE * a = SCALE * b + SCALE * (a - b) /\ SCALE * (a - b) \in Nat
            /\ SCALE * b \in Int
      BY <3>1, <3>2, ScaleAssumption
    <3>4. QED
      BY <2>4, <3>3
  <2>6. QED
    BY <2>5 DEF a, b
<1>16. low * uu <= n * uu
  BY <1>1, <1>14
<1>17. 100 * hs <= low * uu
  <2>1. 100 * hs <= low * (low * low)
    BY DEF RangeFits
  <2>2. low * low <= uu
    <3>1. u * u = low * low + low * (u - low) + (u - low) * u
      BY <1>1
    <3>2. low * (u - low) \in Nat /\ (u - low) * u \in Nat
      <4>1. u - low \in Nat
        BY <1>1
      <4>2. QED
        BY <4>1
    <3>3. QED
      BY <3>1, <3>2
  <2>3. low * (low * low) <= low * uu
    <3> DEFINE m == low * low
    <3>1. m \in Nat /\ m <= uu
      BY <2>2
    <3> HIDE DEF m
    <3>2. low * m <= low * uu
      BY <1>14, <3>1
    <3>3. QED
      BY <3>2 DEF m
  <2>4. low * (low * low) \in Int /\ low * uu \in Int
    BY <1>14
  <2>5. QED
    BY <1>14, <2>1, <2>3, <2>4
<1>18. 100 * (high * u) <= low * uu
  <2>1. 100 * high <= low * u
    <3>1. low * u = low * low + low * (u - low) /\ low * (u - low) \in Nat
      BY <1>1
    <3>2. QED
      BY <3>1 DEF RangeFits
  <2>2. (100 * high) * u <= (low * u) * u
    <3> DEFINE a == 100 * high
               b == low * u
    <3>1. a \in Nat /\ b \in Nat /\ a <= b
      BY <2>1
    <3> HIDE DEF a, b
    <3>2. a * u <= b * u
      BY <1>1, <3>1
    <3>3. QED
      BY <3>2 DEF a, b
  <2>3. (100 * high) * u = 100 * (high * u) /\ (low * u) * u = low * uu
    OBVIOUS
  <2>4. QED
    BY <2>2, <2>3
<1>19. low * uu >= 1 /\ low * uu \in Int /\ n * uu \in Int /\ high * u \in Int
  BY <1>14
<1> HIDE DEF uu, hs
<1>20. QED
  BY <1>14, <1>15, <1>16, <1>17, <1>18, <1>19

\* What the senior tranche's LP token would be worth had the pool earned nothing, without
\* the loss that the junior tranche takes over, is no less than nothing.
LEMMA HedgedWorth ==
  ASSUME NEW low \in Nat, NEW high \in Nat, RangeFits(low, high), 100 <= low, SCALE <= high,
         NEW h \in Nat, SCALE = 2 * h,
         NEW l \in Nat, NEW u \in Nat, NEW v \in Nat, NEW c \in Nat,
         Within(low, high, l), Within(low, high, u), Within(low, high, v),
         NEW x \in Farming!LpIl(l, u, v), NEW y \in Farming!LpIl(l, u, c)
  PROVE  /\ x \in Int /\ y \in Int /\ Farming!LpDelta(l, u, v) \in Int
         /\ l + Farming!LpDelta(l, u, v) + x - y >= 0
<1> DEFINE B == Farming!BaseInLp(l, u)
           delta == Farming!LpDelta(l, u, v)
<1>1. /\ l \in Nat \ {0} /\ u \in Nat \ {0} /\ low <= u /\ low <= v /\ low <= l
      /\ u <= high
  BY DEF Within
<1>2. /\ B \in Nat
      /\ 2 * (2 * (B * u) - l * SCALE) <= 3 * u
      /\ 2 * (l * SCALE - 2 * (B * u)) <= 3 * u
  BY <1>1, BaseFact
<1>3. delta \in Int /\ 2 * (B * (v - u) - SCALE * delta) <= SCALE
  <2> HIDE DEF B
  <2>1. B \in Nat /\ B = Farming!BaseInLp(l, u)
    BY <1>2 DEF B
  <2>2. QED
    BY <1>1, <2>1, DeltaFact
<1>4. ASSUME NEW price \in Nat, NEW z \in Farming!LpIl(l, u, price)
      PROVE  /\ z \in Int
             /\ \E r \in DecSqrt(DecMul(u, price)) :
                  /\ r \in Nat
                  /\ 2 * (SCALE * z - B * (2 * r - u - price)) <= SCALE
                  /\ 2 * (B * (2 * r - u - price) - SCALE * z) <= SCALE
  <2> HIDE DEF B
  <2>1. B \in Nat /\ B = Farming!BaseInLp(l, u)
    BY <1>2 DEF B
  <2>2. QED
    BY <1>1, <1>4, <2>1, LossFact
<1> HIDE DEF B, delta
<1>5. PICK r \in DecSqrt(DecMul(u, v)) :
        r \in Nat /\ 2 * (B * (2 * r - u - v) - SCALE * x) <= SCALE
  BY <1>4
<1>6. PICK s \in DecSqrt(DecMul(u, c)) :
        s \in Nat /\ 2 * (SCALE * y - B * (2 * s - u - c)) <= SCALE
  BY <1>4
<1>7. x \in Int /\ y \in Int
  BY <1>4
<1> DEFINE t == 2 * s - u - c
<1>8. t \in Int /\ t * u <= 2 * SCALE + 3 * u /\ 2 * (SCALE * y - B * t) <= SCALE
  BY <1>1, <1>6, RootExcess
<1> HIDE DEF t
<1> DEFINE ll == low * low
<1>9. ll \in Nat /\ 100 * SCALE <= ll /\ 100 * high <= ll /\ 100 * low <= ll
  BY ScaleAssumption DEF RangeFits
<1>10. low <= 2 * r
  BY <1>1, <1>5, <1>9, RootLarge
<1>11. 2 * t <= low
  <2>1. SUFFICES ASSUME 2 * t > low PROVE FALSE
    BY <1>8
  <2>2. (t - 3) * low <= 2 * SCALE
    <3>1. t - 3 \in Nat
      BY <1>8, <2>1
    <3>2. (t - 3) * u = t * u - 3 * u /\ t * u \in Int
      BY <1>8
    <3>3. (t - 3) * low <= (t - 3) * u
      BY <1>1, <3>1
    <3>4. (t - 3) * low \in Int /\ (t - 3) * u \in Int
      BY <1>8
    <3>5. QED
      BY <1>8, <3>2, <3>3, <3>4, ScaleAssumption
  <2>3. (2 * t) * low = ll + (2 * t - low) * low /\ (2 * t - low) * low \in Nat
    <3> DEFINE k == 2 * t - low
    <3>1. k \in Nat /\ 2 * t = low + k
      BY <1>8, <2>1
    <3> HIDE DEF k
    <3>2. (low + k) * low = low * low + k * low /\ k * low \in Nat
      BY <3>1
    <3>3. QED
      BY <3>1, <3>2 DEF k
  <2>4. (2 * t) * low = 2 * ((t - 3) * low) + 6 * low /\ (t - 3) * low \in Int
    BY <1>8
  <2> HIDE DEF ll
  <2> DEFINE a == (t - 3) * low
             b == (2 * t - low) * low
             d == (2 * t) * low
  <2>5. d = ll + b /\ b >= 0 /\ d = 2 * a + 6 * low /\ a <= 2 * SCALE /\ a \in Int /\ b \in Int
    BY <2>2, <2>3, <2>4
  <2> HIDE DEF a, b, d
  <2>6. QED
    BY <1>9, <2>5, ScaleAssumption
\* what the roots leave, times the base tokens
<1> DEFINE w == B * (2 * r - t)
<1>12. w \in Int /\ 2 * w >= B * low /\ B * low \in Nat
  <2>1. B * (2 * (2 * r - t)) = B * low + B * (4 * r - 2 * t - low)
    BY <1>2, <1>5, <1>8
  <2>2. B * (4 * r - 2 * t - low) \in Nat
    <3>1. 4 * r - 2 * t - low \in Nat
      BY <1>5, <1>8, <1>10, <1>11
    <3>2. QED
      BY <1>2, <3>1
  <2>3. B * (2 * (2 * r - t)) = 2 * w /\ w \in Int /\ B * low \in Nat
    BY <1>2, <1>5, <1>8
  <2> HIDE DEF w
  <2> DEFINE b == B * low
             k == B * (4 * r - 2 * t - low)
  <2>4. 2 * w = b + k /\ k \in Nat /\ b \in Nat /\ w \in Int
    BY <2>1, <2>2, <2>3
  <2> HIDE DEF b, k
  <2>5. w \in Int /\ 2 * w >= b /\ b \in Nat
    BY <2>4
  <2>6. QED
    BY <2>5 DEF b
<1>13. B * low >= 3 * u + 3 * SCALE
  <2> DEFINE ls == l * SCALE
             bl == B * low
  <2>1. SUFFICES ASSUME bl < 3 * u + 3 * SCALE PROVE FALSE
    BY <1>12, ScaleAssumption
  <2>2. 2 * ls <= 4 * (B * u) + 3 * u /\ ls \in Nat /\ B * u \in Nat
    BY <1>2, ScaleAssumption
  <2>3. (2 * ls) * low <= 4 * (bl * u) + 3 * (u * low)
    <3> DEFINE e == 4 * (B * u) + 3 * u
    <3>1. e \in Nat /\ 2 * ls \in Nat /\ 2 * ls <= e
      BY <2>2
    <3>2. e * low = 4 * (bl * u) + 3 * (u * low)
      BY <1>2
    <3> HIDE DEF e, ls
    <3>3. e * low = (2 * ls) * low + (e - 2 * ls) * low /\ (e - 2 * ls) * low \in Nat
            /\ (2 * ls) * low \in Int
      BY <3>1
    <3>4. (2 * ls) * low <= e * low
      BY <3>1, <3>3
    <3>5. QED
      BY <3>2, <3>4
  <2>4. bl * u <= (3 * u + 3 * SCALE) * u
    <3>1. bl \in Nat /\ 3 * u + 3 * SCALE \in Nat
      BY <1>12, ScaleAssumption
    <3> HIDE DEF bl
    <3> DEFINE e == 3 * u + 3 * SCALE
    <3>2. e \in Nat /\ bl <= e
      BY <2>1, <3>1
    <3> HIDE DEF e
    <3>3. e * u = bl * u + (e - bl) * u /\ (e - bl) * u \in Nat /\ bl * u \in Int
      BY <3>1, <3>2
    <3>4. bl * u <= e * u
      BY <3>3
    <3>5. QED
      BY <3>4 DEF e
  <2> DEFINE hh == high * high
             hs == high * SCALE
             sll == SCALE * ll
  <2>5. (3 * u + 3 * SCALE) * u <= 3 * hh + 3 * hs
    <3>1. hh = u * u + u * (high - u) + (high - u) * high
          /\ hs = u * SCALE + (high - u) * SCALE
      BY ScaleAssumption
    <3>2. u * (high - u) \in Nat /\ (high - u) * high \in Nat /\ (high - u) * SCALE \in Nat
      <4>1. high - u \in Nat
        BY <1>1
      <4>2. QED
        BY <4>1, ScaleAssumption
    <3>3. (3 * u + 3 * SCALE) * u = 3 * (u * u) + 3 * (u * SCALE)
      BY ScaleAssumption
    <3>4. u * u \in Int /\ u * SCALE \in Int
      BY ScaleAssumption
    <3>5. QED
      BY <3>1, <3>2, <3>3, <3>4
  <2>6. u * low <= hh
    <3>1. u * low <= u * u /\ u * u <= u * high /\ u * high <= hh
      BY <1>1
    <3>2. u * low \in Int /\ u * u \in Int /\ u * high \in Int
      OBVIOUS
    <3>3. QED
      BY <3>1, <3>2
  <2>7. ls * low >= sll
    <3>1. ls * low = sll + (l - low) * (SCALE * low)
      BY ScaleAssumption
    <3>2. (l - low) * (SCALE * low) \in Nat
      <4>1. l - low \in Nat /\ SCALE * low \in Nat
        BY <1>1, ScaleAssumption
      <4>2. QED
        BY <4>1
    <3>3. sll \in Int /\ ls * low \in Int
      BY <1>9, ScaleAssumption
    <3>4. QED
      BY <3>1, <3>2, <3>3
  <2>8. 100 * hh <= sll
    BY DEF RangeFits
  <2>9. 100 * hs <= sll
    <3>1. sll = (100 * high) * SCALE + (ll - 100 * high) * SCALE
      BY <1>9, ScaleAssumption
    <3>2. (ll - 100 * high) * SCALE \in Nat
      <4>1. ll - 100 * high \in Nat
        BY <1>9
      <4>2. QED
        BY <4>1, ScaleAssumption
    <3>3. (100 * high) * SCALE = 100 * hs /\ hs \in Int
      BY ScaleAssumption
    <3>4. QED
      BY <3>1, <3>2, <3>3
  <2>10. hh \in Nat /\ hh >= 1 /\ hs \in Nat /\ sll \in Nat
    BY <1>1, <1>9, ScaleAssumption
  <2> DEFINE p == ls * low
             q == bl * u
             o == u * low
             e == (3 * u + 3 * SCALE) * u
  <2>11. /\ p \in Int /\ q \in Int /\ o \in Int /\ e \in Int
         /\ 2 * p <= 4 * q + 3 * o
    <3>1. (2 * ls) * low = 2 * (ls * low)
      BY <2>2
    <3>2. p \in Int /\ q \in Int /\ o \in Int /\ e \in Int
      BY <1>12, <2>2, ScaleAssumption
    <3>3. QED
      BY <2>3, <3>1, <3>2
  <2>12. q <= e /\ e <= 3 * hh + 3 * hs /\ o <= hh /\ p >= sll
    BY <2>4, <2>5, <2>6, <2>7
  <2> HIDE DEF p, q, o, e, hh, hs, sll
  <2>13. QED
    BY <2>8, <2>9, <2>10, <2>11, <2>12
<1> HIDE DEF w, ll
<1>14. 2 * (SCALE * (l + delta + x - y)) >= 0
  <2> DEFINE bd == B * (v - u)
             bx == B * (2 * r - u - v)
             bt == B * t
             bu == B * u
             sd == SCALE * delta
             sx == SCALE * x
             sy == SCALE * y
             sl == l * SCALE
  <2>1. bd + bx - bt = w - 2 * bu
    BY <1>2, <1>5, <1>8 DEF w
  <2>2. SCALE * (l + delta + x - y) = sl + sd + sx - sy
    BY <1>3, <1>7, ScaleAssumption
  <2>3. /\ bd \in Int /\ bx \in Int /\ bt \in Int /\ bu \in Int
        /\ sd \in Int /\ sx \in Int /\ sy \in Int /\ sl \in Int
    BY <1>2, <1>3, <1>5, <1>7, <1>8, ScaleAssumption
  <2>4. /\ 2 * (bd - sd) <= SCALE /\ 2 * (bx - sx) <= SCALE /\ 2 * (sy - bt) <= SCALE
        /\ 2 * (2 * bu - sl) <= 3 * u
    BY <1>2, <1>3, <1>5, <1>8
  <2>5. 2 * w >= 3 * u + 3 * SCALE
    <3> DEFINE bl == B * low
    <3>1. w \in Int /\ 2 * w >= bl /\ bl \in Nat /\ bl >= 3 * u + 3 * SCALE
      BY <1>12, <1>13
    <3> HIDE DEF bl
    <3>2. QED
      BY <3>1, ScaleAssumption
  <2> HIDE DEF bd, bx, bt, bu, sd, sx, sy, sl
  <2>6. 2 * (sl + sd + sx - sy) >= 0
    BY <1>12, <2>1, <2>3, <2>4, <2>5, ScaleAssumption
  <2>7. QED
    BY <2>2, <2>6
<1>15. l + delta + x - y >= 0
  <2> DEFINE n == l + delta + x - y
  <2>1. n \in Int /\ 2 * (SCALE * n) >= 0
    BY <1>3, <1>7, <1>14
  <2> HIDE DEF n
  <2>2. SUFFICES ASSUME n <= -1 PROVE FALSE
    BY <2>1 DEF n
  <2>3. SCALE * (-n) >= 1 /\ SCALE * (-n) = -(SCALE * n) /\ SCALE * n \in Int
    BY <2>1, <2>2, ScaleAssumption
  <2>4. QED
    BY <2>1, <2>3
<1>16. QED
  BY <1>3, <1>7, <1>15 DEF delta

\* What the senior tranche's LP token is to be worth is never negative.
LEMMA NetValueIsNat ==
  ASSUME NEW low \in Nat, NEW high \in Nat, RangeFits(low, high), 100 <= low, SCALE <= high,
         NEW h \in Nat, SCALE = 2 * h,
         NEW l \in Nat, NEW u \in Nat, NEW n \in Nat, NEW v \in Nat, NEW c \in Nat,
         Within(low, high, l), Within(low, high, u),
         Within(low, high, n), Within(low, high, v),
         NEW split \in Nat, split <= One,
         NEW x \in Farming!LpIl(l, u, v), NEW y \in Farming!LpIl(l, u, c)
  PROVE  Farming!NetValue(l, u, n, v, split, x, y) \in Nat
<1> DEFINE delta == Farming!LpDelta(l, u, v)
           worth == l + delta + x - y
           accrued == n - (l + delta + x)
<1>1. x \in Int /\ y \in Int /\ delta \in Int /\ worth >= 0
  BY HedgedWorth
<1>2. y <= n
  BY CapLossSmall
<1> HIDE DEF delta
<1>3. worth \in Nat /\ accrued \in Int /\ worth + accrued = n - y
  BY <1>1
<1>4. Farming!NetValue(l, u, n, v, split, x, y) = worth + Farming!SeniorShare(accrued, split)
  BY DEF Farming!NetValue, Farming!Accrued, delta
<1> HIDE DEF worth, accrued
<1>5. CASE accrued < 0
  <2>1. Farming!SeniorShare(accrued, split) = accrued
    BY <1>5 DEF Farming!SeniorShare
  <2>2. QED
    BY <1>1, <1>2, <1>3, <1>4, <2>1
<1>6. CASE accrued >= 0
  <2>1. Farming!SeniorShare(accrued, split) = RoundHalfEven(accrued * (SCALE - split), SCALE)
    BY <1>3, <1>6, FarmingArithmetic DEF Farming!SeniorShare, Farming!One, DecMul
  <2>2. accrued * (SCALE - split) \in Nat
    <3>1. SCALE - split \in Nat
      BY ScaleAssumption DEF One
    <3>2. QED
      BY <1>3, <1>6, <3>1
  <2>3. RoundHalfEven(accrued * (SCALE - split), SCALE) \in Nat
    BY <2>2, RoundingIsNat, ScaleAssumption
  <2>4. QED
    BY <1>3, <1>4, <2>1, <2>3
<1>7. QED
  BY <1>3, <1>5, <1>6

LEMMA FarmingReturns ==
  ASSUME NEW q \in Quantities, Total(q) \in U64,
         NEW low \in Nat, NEW high \in Nat, RangeFits(low, high), 100 <= low, SCALE <= high,
         NEW h \in Nat, SCALE = 2 * h,
         NEW l \in Nat, NEW u \in Nat, NEW n \in Nat, NEW v \in Nat,
         \A price \in {l, u, n, v} : price > 0 => Within(low, high, price),
         NEW split \in Nat, split <= One, NEW cap_low \in Int, NEW cap_high \in Int,
         u > 0 => /\ Farming!DecSqrt(DecMul(u, v)) # {}
                  /\ Farming!CappedUl(u, v, cap_low, cap_high) \in Nat
                  /\ Farming!DecSqrt(DecMul(u, Farming!CappedUl(u, v, cap_low, cap_high))) # {}
  PROVE  Farming!execute_plugin(q, l, u, n, v, split, cap_low, cap_high) # {}
<1> DEFINE c == Farming!CappedUl(u, v, cap_low, cap_high)
           all == Farming!execute_plugin(q, l, u, n, v, split, cap_low, cap_high)
<1>1. CASE q[0] = 0 \/ q[1] = 0
  <2>1. 0 \in U64
    BY MaxU64Assumption DEF U64
  <2>2. Returns(q, 0) # {}
    BY <2>1, InRangeReturns
  <2>3. all = Returns(q, 0)
    <3>1. all = Farming!Returns(q, 0)
      BY <1>1 DEF Farming!execute_plugin
    <3>2. QED
      BY <3>1, Zenon DEF Farming!Returns, Returns,
         Farming!RedeemLogicExecuteResult, RedeemLogicExecuteResult, Farming!Quantities,
         Quantities, Farming!U64, U64, Farming!Tranches, Tranches
  <2>4. QED
    BY <2>2, <2>3
<1>2. CASE ~(q[0] = 0 \/ q[1] = 0) /\ 0 \in {l, u, n, v}
  <2>1. Split(Total(q), 0) \in Quantities /\ 0 \in U64
    BY MaxU64Assumption DEF U64, Split, Quantities, Tranches
  <2>2. Returns(Split(Total(q), 0), 0) # {}
    BY <2>1, InRangeReturns
  <2>3. all = {r \in Returns(Split(Total(q), 0), 0) : Total(q) \in U64}
    <3>1. all = {r \in Farming!Returns(Farming!Split(Farming!Total(q), 0), 0) :
                   Farming!Total(q) \in Farming!U64}
      BY <1>2 DEF Farming!execute_plugin
    <3>2. QED
      BY <3>1, Zenon DEF Farming!Returns, Returns, Farming!Split, Split, Farming!Total, Total,
         Farming!RedeemLogicExecuteResult, RedeemLogicExecuteResult, Farming!Quantities,
         Quantities, Farming!U64, U64, Farming!Tranches, Tranches
  <2>4. QED
    BY <2>2, <2>3
<1>3. CASE ~(q[0] = 0 \/ q[1] = 0) /\ 0 \notin {l, u, n, v}
  <2>1. /\ l > 0 /\ u > 0 /\ n > 0 /\ v > 0
        /\ Within(low, high, l) /\ Within(low, high, u)
        /\ Within(low, high, n) /\ Within(low, high, v)
    BY <1>3
  <2>2. c \in Nat /\ Farming!DecSqrt(DecMul(u, v)) # {} /\ Farming!DecSqrt(DecMul(u, c)) # {}
    BY <2>1
  <2> HIDE DEF c
  <2>3. PICK x : x \in Farming!LpIl(l, u, v)
    BY <2>2, FarmingArithmetic DEF Farming!LpIl
  <2>4. PICK y : y \in Farming!LpIl(l, u, c)
    BY <2>2, FarmingArithmetic DEF Farming!LpIl
  <2> DEFINE net == Farming!NetValue(l, u, n, v, split, x, y)
             share == RoundHalfEven((q[0] * net) * SCALE, n)
             senior == Lesser(Dec(Total(q)), share)
             junior == Greater(0, Dec(Total(q)) - senior)
  <2>5. net \in Nat
    BY <2>1, <2>2, <2>3, <2>4, NetValueIsNat
  <2> HIDE DEF net
  <2>6. share \in Nat
    <3>1. (q[0] * net) * SCALE \in Nat /\ n \in Nat \ {0}
      BY <2>1, <2>5, QuantityIsNat, ScaleAssumption
    <3>2. QED
      BY <3>1, RoundingIsNat, Zenon
  <2>7. Farming!DecDiv(q[0] * net, n) = share
    BY FarmingArithmetic, Zenon DEF DecDiv
  <2> HIDE DEF share
  <2>8. Dec(Total(q)) \in Nat
    BY QuantityIsNat, ScaleAssumption DEF Dec
  <2>9. senior \in Int /\ 0 <= senior /\ senior <= Dec(Total(q))
    BY <2>6, <2>8 DEF Lesser
  <2>10. junior = Dec(Total(q)) - senior
    BY <2>8, <2>9 DEF Greater
  <2>11. ReturnsFloors(q, senior, junior) # {}
    <3> HIDE DEF senior, junior
    <3>1. QED
      BY <2>9, <2>10, FloorsReturn
  <2>12. ReturnsFloors(q, senior, junior) \subseteq all
    <3> DEFINE fsenior == Farming!Lesser(Farming!Dec(Farming!Total(q)), share)
               fjunior == Farming!Greater(0, Farming!Dec(Farming!Total(q)) - fsenior)
    <3>1. Farming!ReturnsFloors(q, fsenior, fjunior) \subseteq all
      <4>1. share = Farming!DecDiv(q[0] * Farming!NetValue(l, u, n, v, split, x, y), n)
        BY <2>7 DEF net
      <4>2. y \in Farming!LpIl(l, u, Farming!CappedUl(u, v, cap_low, cap_high))
        BY <2>4 DEF c
      <4>3. QED
        BY <1>3, <2>3, <4>1, <4>2 DEF Farming!execute_plugin
    <3>2. QED
      BY <3>1, Zenon DEF Farming!ReturnsFloors, ReturnsFloors, Farming!Returns, Returns,
         Farming!RedeemLogicExecuteResult, RedeemLogicExecuteResult, Farming!Quantities,
         Quantities, Farming!U64, U64, Farming!Tranches, Tranches, Farming!Remainder,
         Remainder, Farming!Total, Total, Farming!Split, Split, Farming!DecFloor, DecFloor,
         Farming!Dec, Dec, Farming!Lesser, Lesser, Farming!Greater, Greater
  <2>13. QED
    BY <2>11, <2>12
<1>4. QED
  BY <1>1, <1>2, <1>3

\* The underlying's price, with its move within caps of which one is not negative.
LEMMA CappedIsNat ==
  ASSUME NEW u \in Nat \ {0}, NEW v \in Nat, NEW cap_low \in Int, NEW cap_high \in Int,
         Greater(cap_low, cap_high) >= 0
  PROVE  Farming!CappedUl(u, v, cap_low, cap_high) \in Nat
<1> DEFINE ratio == RoundHalfEven(v * SCALE, u)
           move  == Farming!Greater(cap_low, Farming!Lesser(cap_high, ratio))
<1>1. v * SCALE \in Nat
  BY ScaleAssumption
<1>2. ratio \in Nat
  BY <1>1, RoundingIsNat
<1>3. Farming!DecDiv(v, u) = ratio
  BY FarmingArithmetic, Zenon DEF DecDiv
<1> HIDE DEF ratio
<1>4. move \in Nat
  BY <1>2 DEF Farming!Greater, Farming!Lesser, Greater
<1>5. Farming!CappedUl(u, v, cap_low, cap_high) = RoundHalfEven(u * move, SCALE)
  BY <1>3, FarmingArithmetic, Zenon DEF Farming!CappedUl, DecMul
<1> HIDE DEF move
<1>6. u * move \in Nat
  BY <1>4
<1>7. QED
  BY <1>5, <1>6, RoundingIsNat, ScaleAssumption

\* The steps are enough for the roots that farming takes, of the prices and of those within
\* the caps.
PricesInReach ==
  \A u, v \in SecondRates, t \in Terms :
    u > 0 /\ v >= 0 /\ Greater(t.cap_low, t.cap_high) >= 0 =>
      /\ InReach(DecMul(u, v))
      /\ InReach(DecMul(u, Farming!CappedUl(u, v, t.cap_low, t.cap_high)))

\* Farming never blocks a refresh while the prices stay in a range that leaves room for the
\* roundings, but under caps that are both negative and at the products whose roots never
\* settle.
THEOREM FarmingNeverBlocked ==
  ASSUME Plugins \subseteq {"farming"}, PricesInReach, SCALE % 2 = 0,
         NEW low \in Nat, NEW high \in Nat, RangeFits(low, high),
         \A price \in Rates \union SecondRates : price > 0 => Within(low, high, price),
         \A q \in [Tranches -> Deposits] : Total(q) \in U64
  PROVE  Spec => []RefreshNeverBlocked
<1>1. Init /\ Typed => Solid
  BY DEF Init, Solid
<1>2. PICK h \in Nat : SCALE = 2 * h
  BY ScaleIsTwice
<1>3. SCALE <= high /\ low <= SCALE
  BY RatesAssumption, ScaleAssumption DEF One, Within
<1>4. 100 <= low
  <2>1. SUFFICES ASSUME low < 100 PROVE FALSE
    OBVIOUS
  <2>2. 100 * high <= low * low /\ low <= high
    BY <1>3, ScaleAssumption DEF RangeFits
  <2>3. low * low <= 99 * low
    BY <2>1
  <2>4. QED
    BY <1>3, <2>1, <2>2, <2>3, ScaleAssumption
<1>5. Solid => RefreshNeverBlocked
  <2>1. SUFFICES ASSUME Solid, NEW new \in FairValues, IsValid(rate, new),
                        Greater(terms.cap_low, terms.cap_high) >= 0,
                        \A product \in Rooted(new) : ~Oscillates(product)
                 PROVE  Results(plugin, new) # {}
    BY DEF RefreshNeverBlocked, Solid, Typed
  <2>2. /\ plugin = "farming" /\ Accepts(plugin, terms) /\ terms \in Terms
        /\ quantity \in Quantities /\ Total(quantity) \in U64
        /\ rate \in FairValues
    BY <2>1 DEF Solid, Typed
  <2>3. /\ rate[0] \in Nat /\ rate[1] \in Nat /\ new[0] \in Nat /\ new[1] \in Nat
        /\ rate[0] \in Rates /\ rate[1] \in SecondRates
        /\ new[0] \in Rates /\ new[1] \in SecondRates
    BY <2>1, <2>2, ValidIsNat DEF FairValues, FairValue
  <2>4. /\ terms.interest_split \in Nat /\ terms.interest_split <= One
        /\ terms.cap_low \in Int /\ terms.cap_high \in Int
    BY <2>2, TermsAssumption DEF Accepts, Farming!initialize, Farming!One, One
  <2> DEFINE c == Farming!CappedUl(rate[1], new[1], terms.cap_low, terms.cap_high)
  <2>5. rate[1] > 0 => /\ Farming!DecSqrt(DecMul(rate[1], new[1])) # {}
                       /\ c \in Nat
                       /\ Farming!DecSqrt(DecMul(rate[1], c)) # {}
    <3>1. SUFFICES ASSUME rate[1] > 0
                   PROVE  /\ Farming!DecSqrt(DecMul(rate[1], new[1])) # {}
                          /\ c \in Nat
                          /\ Farming!DecSqrt(DecMul(rate[1], c)) # {}
      OBVIOUS
    <3>2. rate[1] \in Nat \ {0}
      BY <2>3, <3>1
    <3>3. c \in Nat
      BY <2>1, <2>3, <2>4, <3>2, CappedIsNat
    <3>4. /\ DecSqrt(DecMul(rate[1], new[1])) # {}
          /\ DecSqrt(DecMul(rate[1], c)) # {}
      <4>1. DecMul(rate[1], new[1]) \in Nat /\ DecMul(rate[1], c) \in Nat
        BY <2>3, <3>3, MulIsNat
      <4>2. InReach(DecMul(rate[1], new[1])) /\ InReach(DecMul(rate[1], c))
        BY <2>1, <2>2, <2>3, <3>1 DEF PricesInReach
      <4>3. Rooted(new) = {DecMul(rate[1], price) : price \in {new[1], c}}
        BY <2>2, <3>1 DEF Rooted
      <4>4. ~Oscillates(DecMul(rate[1], new[1])) /\ ~Oscillates(DecMul(rate[1], c))
        BY <2>1, <4>3
      <4> HIDE DEF c
      <4>5. QED
        BY <4>1, <4>2, <4>4, RootSettles
    <3> HIDE DEF c
    <3>5. QED
      BY <3>3, <3>4, FarmingArithmetic
  <2> HIDE DEF c
  <2>6. \A price \in {rate[0], rate[1], new[0], new[1]} :
          price > 0 => Within(low, high, price)
    BY <2>3
  <2>7. Farming!execute_plugin(quantity, rate[0], rate[1], new[0], new[1],
          terms.interest_split, terms.cap_low, terms.cap_high) # {}
    BY <1>2, <1>3, <1>4, <2>2, <2>3, <2>4, <2>5, <2>6, FarmingReturns DEF c
  <2>8. QED
    BY <2>1, <2>2, <2>7 DEF Results, Execute, Farming!execute, Farming!IsValid, IsValid
<1>6. QED
  BY <1>1, <1>5, NextKeepsSolid, TypedHolds, PTL DEF Spec

----------------------------------------------------------------------------
(* Farming: what each of its sides is promised, with no bound on the prices *)

\* What an LP token of the senior tranche was decided to be worth, in the result.
LEMMA FarmingSenior ==
  ASSUME NEW q \in Quantities, q[0] # 0, q[1] # 0,
         NEW l \in Nat \ {0}, NEW u \in Nat \ {0}, NEW n \in Nat \ {0}, NEW v \in Nat \ {0},
         NEW split \in Int, NEW low \in Int, NEW high \in Int,
         NEW result \in Farming!execute_plugin(q, l, u, n, v, split, low, high)
  PROVE  \E x \in Farming!LpIl(l, u, v),
            y \in Farming!LpIl(l, u, Farming!CappedUl(u, v, low, high)) :
           result.new_quantity[0] =
             DecFloor(Lesser(Dec(Total(q)),
                             DecDiv(q[0] * Farming!NetValue(l, u, n, v, split, x, y), n)))
<1>1. PICK x \in Farming!LpIl(l, u, v),
           y \in Farming!LpIl(l, u, Farming!CappedUl(u, v, low, high)) :
        LET net    == Farming!NetValue(l, u, n, v, split, x, y)
            senior == Lesser(Dec(Total(q)), Farming!DecDiv(q[0] * net, n))
        IN  result \in ReturnsFloors(q, senior, Greater(0, Dec(Total(q)) - senior))
  BY DEF Farming!execute_plugin, Farming!ReturnsFloors, ReturnsFloors,
         Farming!Returns, Returns, Farming!RedeemLogicExecuteResult,
         RedeemLogicExecuteResult, Farming!Quantities, Quantities, Farming!U64, U64,
         Farming!Tranches, Tranches, Farming!Remainder, Remainder, Farming!Total,
         Total, Farming!Split, Split, Farming!DecFloor, DecFloor, Farming!Dec, Dec,
         Farming!Lesser, Lesser, Farming!Greater, Greater
<1> DEFINE net    == Farming!NetValue(l, u, n, v, split, x, y)
           senior == Lesser(Dec(Total(q)), DecDiv(q[0] * net, n))
<1>2. Farming!DecDiv(q[0] * net, n) = DecDiv(q[0] * net, n)
  BY FarmingArithmetic
<1>3. result \in ReturnsFloors(q, senior, Greater(0, Dec(Total(q)) - senior))
  BY <1>1, <1>2
<1> HIDE DEF senior
<1>4. result.new_quantity[0] = DecFloor(senior)
  BY <1>3, SeniorOfFloors
<1>5. QED
  BY <1>4 DEF senior

\* That tranche bears the loss at the cap whatever accrued; it cannot gain more than that.
LEMMA NetAtMost ==
  ASSUME NEW l \in Nat, NEW u \in Nat, NEW n \in Nat, NEW v \in Nat,
         NEW split \in Nat, split <= One, NEW x \in Int, NEW y \in Int,
         Farming!LpDelta(l, u, v) \in Int
  PROVE  /\ Farming!NetValue(l, u, n, v, split, x, y) \in Int
         /\ Farming!NetValue(l, u, n, v, split, x, y) <= n - y
         /\ Farming!NetValue(l, u, n, v, split, x, y)
              >= Lesser(n, l + Farming!LpDelta(l, u, v) + x) - y
<1> DEFINE held == l + Farming!LpDelta(l, u, v) + x
           accrued == n - held
           share == Farming!SeniorShare(accrued, split)
<1>1. held \in Int /\ accrued \in Int
  OBVIOUS
<1>2. Farming!NetValue(l, u, n, v, split, x, y) = held - y + share
  BY DEF Farming!NetValue, Farming!Accrued
<1> HIDE DEF held
<1>3. CASE accrued < 0
  <2>1. share = accrued
    BY <1>3 DEF Farming!SeniorShare
  <2>2. QED
    BY <1>1, <1>2, <1>3, <2>1 DEF held, Lesser
<1>4. CASE accrued >= 0
  <2>1. share = RoundHalfEven(accrued * (SCALE - split), SCALE)
    BY <1>1, <1>4, FarmingArithmetic DEF Farming!SeniorShare, Farming!One, DecMul
  <2>2. accrued \in Nat /\ SCALE - split \in Nat /\ SCALE - split <= SCALE
    BY <1>1, <1>4, ScaleAssumption DEF One
  <2> HIDE DEF accrued, share
  <2> DEFINE a == accrued * (SCALE - split)
             b == accrued * SCALE
  <2>3. a \in Nat /\ b \in Nat /\ a <= b
    BY <2>2, ScaleAssumption
  <2>4. RoundHalfEven(b, SCALE) = accrued
    BY <2>2, RoundingExact, ScaleAssumption
  <2> HIDE DEF a, b
  <2>5. a * SCALE <= b * SCALE
    BY <2>3, ScaleAssumption
  <2>6. RoundHalfEven(a, SCALE) <= RoundHalfEven(b, SCALE) /\ RoundHalfEven(a, SCALE) \in Nat
    <3>1. a \in Int /\ b \in Int /\ SCALE \in Nat \ {0}
      BY <2>3, ScaleAssumption
    <3>2. RoundHalfEven(a, SCALE) <= RoundHalfEven(b, SCALE)
      BY <2>5, <3>1, RoundingMonotone, Zenon
    <3>3. RoundHalfEven(a, SCALE) \in Nat
      BY <2>3, <3>1, RoundingIsNat, Zenon
    <3>4. QED
      BY <3>2, <3>3
  <2>7. share = RoundHalfEven(a, SCALE)
    BY <2>1, Zenon DEF a
  <2>8. QED
    BY <1>1, <1>2, <1>4, <2>2, <2>4, <2>6, <2>7 DEF accrued, held, Lesser
<1>5. QED
  BY <1>1, <1>3, <1>4

\* The capped price, whose move was rounded as a quotient and the product with it again, and
\* the prices at the caps as integers.
LEMMA CapClose ==
  ASSUME NEW u \in Nat \ {0}, NEW v \in Nat, NEW cl \in Int, NEW ch \in Int,
         NEW capped \in Int,
         capped = Greater((cl * u) \div SCALE, Lesser((ch * u) \div SCALE, v)), capped >= 0,
         NEW c, c = Farming!CappedUl(u, v, cl, ch)
  PROVE  /\ c \in Nat
         /\ 2 * (SCALE * (c - capped)) <= 3 * SCALE + u
         /\ 2 * (SCALE * (capped - c)) <= SCALE + u
<1> DEFINE ratio == RoundHalfEven(v * SCALE, u)
           m  == Greater(cl, Lesser(ch, ratio))
           fl == (cl * u) \div SCALE
           fh == (ch * u) \div SCALE
<1>1. /\ ratio \in Nat
      /\ 2 * (u * ratio - v * SCALE) <= u /\ 2 * (v * SCALE - u * ratio) <= u
  <2> DEFINE k == v * SCALE
  <2>1. k \in Nat /\ k \in Int
    BY ScaleAssumption
  <2> HIDE DEF k
  <2>2. /\ RoundHalfEven(k, u) \in Nat
        /\ 2 * (u * RoundHalfEven(k, u) - k) <= u /\ 2 * (k - u * RoundHalfEven(k, u)) <= u
    BY <2>1, RoundingError, RoundingIsNat
  <2>3. QED
    BY <2>2 DEF k
<1>2. c = RoundHalfEven(u * m, SCALE)
  BY FarmingArithmetic, Zenon DEF Farming!CappedUl, DecMul, DecDiv, Farming!Greater, Greater,
     Farming!Lesser, Lesser
<1>3. /\ fl \in Int /\ SCALE * fl <= u * cl /\ u * cl < SCALE * fl + SCALE
      /\ fh \in Int /\ SCALE * fh <= u * ch /\ u * ch < SCALE * fh + SCALE
  <2>1. ASSUME NEW a \in Int
        PROVE  /\ (a * u) \div SCALE \in Int /\ SCALE * ((a * u) \div SCALE) <= u * a
               /\ u * a < SCALE * ((a * u) \div SCALE) + SCALE
    <3> DEFINE k == a * u
    <3>1. k \in Int /\ k = u * a
      OBVIOUS
    <3> HIDE DEF k
    <3>2. /\ k \div SCALE \in Int /\ k % SCALE \in 0 .. SCALE - 1
          /\ k = SCALE * (k \div SCALE) + (k % SCALE)
      BY <3>1, DivModFact, ScaleAssumption
    <3>3. SCALE * (k \div SCALE) \in Int
      BY <3>2, ScaleAssumption
    <3>4. SCALE * (k \div SCALE) <= u * a /\ u * a < SCALE * (k \div SCALE) + SCALE
      BY <3>1, <3>2, <3>3, ScaleAssumption
    <3>5. QED
      BY <3>2, <3>4 DEF k
  <2>2. QED
    BY <2>1
<1>4. capped = Greater(fl, Lesser(fh, v))
  OBVIOUS
<1> HIDE DEF ratio, fl, fh
<1>5. m \in Int
  BY <1>1 DEF Greater, Lesser
<1>6. u * cl \in Int /\ u * ch \in Int /\ u * ratio \in Int /\ v * SCALE \in Int
        /\ SCALE * fl \in Int /\ SCALE * fh \in Int /\ SCALE * capped \in Int
  BY <1>1, <1>3, ScaleAssumption
<1>7. ASSUME NEW a \in Int, NEW b \in Int, a <= b PROVE u * a <= u * b /\ SCALE * a <= SCALE * b
  BY <1>7, ScaleAssumption
<1>8. cl <= m /\ (ch <= m \/ ratio <= m)
  BY <1>1, <1>5 DEF Greater, Lesser
<1>9. fl <= capped /\ (fh <= capped \/ v <= capped)
  BY <1>3, <1>4 DEF Greater, Lesser
<1>10. capped = fl \/ (capped = fh /\ fh <= v) \/ (capped = v /\ v <= fh)
  BY <1>3, <1>4 DEF Greater, Lesser
<1>11. m = cl \/ (m = ch /\ ch <= ratio) \/ (m = ratio /\ ratio <= ch)
  BY <1>1 DEF Greater, Lesser
<1>12. u * m \in Int /\ u * cl <= u * m /\ (u * ch <= u * m \/ u * ratio <= u * m)
  BY <1>1, <1>5, <1>7, <1>8
<1>13. /\ u * m = u * cl \/ (u * m = u * ch /\ u * ch <= u * ratio)
                        \/ (u * m = u * ratio /\ u * ratio <= u * ch)
  BY <1>1, <1>7, <1>11
<1>14. /\ SCALE * fl <= SCALE * capped
       /\ SCALE * fh <= SCALE * capped \/ v * SCALE <= SCALE * capped
  <2>1. SCALE * v = v * SCALE
    BY ScaleAssumption
  <2>2. QED
    BY <1>3, <1>7, <1>9, <2>1
<1>15. \/ SCALE * capped = SCALE * fl
       \/ SCALE * capped = SCALE * fh /\ SCALE * fh <= v * SCALE
       \/ SCALE * capped = v * SCALE /\ v * SCALE <= SCALE * fh
  <2>1. SCALE * v = v * SCALE
    BY ScaleAssumption
  <2>2. QED
    BY <1>3, <1>7, <1>10, <2>1
<1>16. m >= 0
  <2>1. SUFFICES ASSUME m <= -1 PROVE FALSE
    BY <1>5
  <2>2. cl <= -1 /\ ch <= -1
    BY <1>1, <1>5, <1>8, <2>1
  <2>3. u * cl <= -1 /\ u * ch <= -1
    BY <2>2
  <2>4. ASSUME NEW a \in Int, SCALE * a <= -1 PROVE a <= -1
    <3>1. SUFFICES ASSUME a >= 0 PROVE FALSE
      BY <2>4
    <3>2. SCALE * a >= 0
      BY <3>1, ScaleAssumption
    <3>3. QED
      BY <2>4, <3>2, ScaleAssumption
  <2>5. SCALE * fl <= -1 /\ SCALE * fh <= -1
    BY <1>3, <1>6, <2>3
  <2>6. fl <= -1 /\ fh <= -1
    BY <1>3, <2>4, <2>5
  <2>7. QED
    BY <1>3, <1>10, <2>6
<1> HIDE DEF m
<1>17. /\ c \in Nat
       /\ 2 * (SCALE * c - u * m) <= SCALE /\ 2 * (u * m - SCALE * c) <= SCALE
  <2> DEFINE k == u * m
  <2>1. k \in Nat /\ k \in Int
    BY <1>5, <1>16
  <2>2. c = RoundHalfEven(k, SCALE)
    BY <1>2
  <2> HIDE DEF k
  <2>3. /\ c \in Nat
        /\ 2 * (SCALE * c - k) <= SCALE /\ 2 * (k - SCALE * c) <= SCALE
    BY <2>1, <2>2, RoundingError, RoundingIsNat, ScaleAssumption
  <2>4. QED
    BY <2>3 DEF k
<1>18. 2 * (u * m) <= 2 * (SCALE * capped) + 2 * SCALE + u
  BY <1>1, <1>3, <1>6, <1>12, <1>13, <1>14, ScaleAssumption
<1>19. 2 * (SCALE * capped) <= 2 * (u * m) + u
  BY <1>1, <1>3, <1>6, <1>12, <1>15, ScaleAssumption
<1>20. /\ SCALE * (c - capped) = SCALE * c - SCALE * capped
       /\ SCALE * (capped - c) = SCALE * capped - SCALE * c
       /\ SCALE * c \in Int
  BY <1>17, ScaleAssumption
<1>21. QED
  BY <1>6, <1>12, <1>17, <1>18, <1>19, <1>20, ScaleAssumption

\* Within its caps the price is rounded, but not capped.
LEMMA CapUntouched ==
  ASSUME NEW u \in Nat \ {0}, NEW v \in Nat, NEW cl \in Int, NEW ch \in Int,
         cl * u <= v * One, v * One <= ch * u,
         NEW c, c = Farming!CappedUl(u, v, cl, ch)
  PROVE  /\ c \in Nat
         /\ 2 * (SCALE * (c - v)) <= SCALE + u
         /\ 2 * (SCALE * (v - c)) <= SCALE + u
<1> DEFINE ratio == RoundHalfEven(v * SCALE, u)
<1>1. /\ ratio \in Nat
      /\ 2 * (u * ratio - v * SCALE) <= u /\ 2 * (v * SCALE - u * ratio) <= u
      /\ cl <= ratio /\ ratio <= ch
  <2> DEFINE k == v * SCALE
  <2>1. k \in Nat /\ k \in Int /\ cl * u <= k * 1 /\ k * 1 <= ch * u
    BY ScaleAssumption DEF One
  <2> HIDE DEF k
  <2>2. /\ RoundHalfEven(k, u) \in Nat
        /\ 2 * (u * RoundHalfEven(k, u) - k) <= u /\ 2 * (k - u * RoundHalfEven(k, u)) <= u
    BY <2>1, RoundingError, RoundingIsNat
  <2>3. ASSUME NEW a \in Int PROVE RoundHalfEven(a * u, u) = a
    BY RoundingExact, Zenon
  <2>4. cl * u \in Int /\ ch * u \in Int
    OBVIOUS
  <2>5. (cl * u) * u <= k * u /\ k * u <= (ch * u) * u
    <3> DEFINE a == cl * u
               b == ch * u
    <3>1. a \in Int /\ b \in Int /\ a <= k /\ k <= b
      BY <2>1, <2>4
    <3> HIDE DEF a, b
    <3>2. a * u <= k * u /\ k * u <= b * u
      BY <2>1, <3>1
    <3>3. QED
      BY <3>2 DEF a, b
  <2>6. /\ RoundHalfEven(cl * u, u) <= RoundHalfEven(k, u)
        /\ RoundHalfEven(k, u) <= RoundHalfEven(ch * u, u)
    BY <2>1, <2>4, <2>5, RoundingMonotone, Zenon
  <2>7. QED
    BY <2>2, <2>3, <2>6 DEF k
<1>2. c = RoundHalfEven(u * Greater(cl, Lesser(ch, ratio)), SCALE)
  BY FarmingArithmetic, Zenon DEF Farming!CappedUl, DecMul, DecDiv, Farming!Greater, Greater,
     Farming!Lesser, Lesser
<1> HIDE DEF ratio
<1>3. Greater(cl, Lesser(ch, ratio)) = ratio
  BY <1>1 DEF Greater, Lesser
<1>4. /\ c \in Nat
      /\ 2 * (SCALE * c - u * ratio) <= SCALE /\ 2 * (u * ratio - SCALE * c) <= SCALE
  <2> DEFINE k == u * ratio
  <2>1. k \in Nat /\ k \in Int
    BY <1>1
  <2>2. c = RoundHalfEven(k, SCALE)
    BY <1>2, <1>3
  <2> HIDE DEF k
  <2>3. /\ c \in Nat
        /\ 2 * (SCALE * c - k) <= SCALE /\ 2 * (k - SCALE * c) <= SCALE
    BY <2>1, <2>2, RoundingError, RoundingIsNat, ScaleAssumption
  <2>4. QED
    BY <2>3 DEF k
<1>5. /\ SCALE * (c - v) = SCALE * c - v * SCALE
      /\ SCALE * (v - c) = v * SCALE - SCALE * c
      /\ SCALE * c \in Int /\ v * SCALE \in Int /\ u * ratio \in Int
  BY <1>1, <1>4, ScaleAssumption
<1>6. QED
  BY <1>1, <1>4, <1>5, ScaleAssumption

\* What an integer up to the root of the product leaves out makes up for all roundings.
LEMMA SellerRoots ==
  ASSUME NEW u \in Nat \ {0}, NEW c \in Nat, NEW capped \in Nat,
         2 * (SCALE * (c - capped)) <= 3 * SCALE + u,
         2 * (SCALE * (capped - c)) <= SCALE + u,
         NEW R \in DecSqrt(DecMul(u, c)), NEW root \in Nat, root * root <= u * capped
  PROVE  LET margin == u + capped - 2 * root + LossRounding(u, Greater(root, 1))
         IN  margin \in Nat /\ u + c - 2 * R <= margin
<1> DEFINE w == Greater(root, 1)
           uu == (u * u) \div SCALE
           K == 2 * SCALE + u + uu
           a == (3 * SCALE + u) \div (2 * SCALE)
           b == K \div w
           D == root - R
<1>1. w \in Nat \ {0} /\ (root > 0 => w = root)
  BY DEF Greater
<1> HIDE DEF w
<1>2. LossRounding(u, Greater(root, 1)) = 4 + a + b
  BY DEF LossRounding, One, w
<1>3. R \in Nat /\ 2 * (u * c - R * R) <= SCALE + 3 * R
  BY RootOfProduct
<1>4. uu \in Nat /\ K \in Nat
  <2> DEFINE k == u * u
  <2>1. k \in Nat
    OBVIOUS
  <2> HIDE DEF k
  <2>2. k \div SCALE \in Nat
    BY <2>1, DivIsNat, ScaleAssumption
  <2>3. uu \in Nat
    BY <2>2 DEF k
  <2>4. QED
    BY <2>3, ScaleAssumption
<1>5. a \in Nat /\ c - capped <= a
  <2>1. 3 * SCALE + u \in Nat /\ 2 * SCALE \in Nat \ {0} /\ c - capped \in Int
    BY ScaleAssumption
  <2>2. (c - capped) * (2 * SCALE) <= 3 * SCALE + u
    BY ScaleAssumption
  <2>3. QED
    BY <2>1, <2>2, AtMostQuotient, Zenon
<1>6. 2 * (u * (capped - c)) - u <= uu
  <2> DEFINE x == 2 * (u * (capped - c)) - u
             k == u * u
  <2>1. x \in Int /\ k \in Nat
    OBVIOUS
  <2>2. x * SCALE <= k
    <3>1. 2 * (SCALE * (capped - c)) - SCALE <= u /\ 2 * (SCALE * (capped - c)) - SCALE \in Int
      BY ScaleAssumption
    <3>2. u * (2 * (SCALE * (capped - c)) - SCALE) <= u * u
      BY <3>1
    <3>3. u * (2 * (SCALE * (capped - c)) - SCALE) = x * SCALE
      BY ScaleAssumption
    <3>4. QED
      BY <3>2, <3>3
  <2> HIDE DEF x, k
  <2>3. x <= k \div SCALE
    BY <2>1, <2>2, AtMostQuotient, ScaleAssumption
  <2>4. QED
    BY <2>3 DEF x, k
<1> HIDE DEF uu, a, b
<1>7. b \in Nat /\ 2 * D - 3 <= b
  <2>1. (2 * D - 3) * w <= K
    <3>1. CASE 2 * D <= 3
      <4>1. 3 - 2 * D \in Nat /\ (2 * D - 3) * w = -((3 - 2 * D) * w)
        BY <1>1, <1>3, <3>1
      <4>2. (3 - 2 * D) * w \in Nat
        BY <1>1, <4>1
      <4>3. QED
        BY <1>4, <4>1, <4>2
    <3>2. CASE 2 * D > 3
      <4>1. w = root
        BY <1>1, <1>3, <3>2
      <4>2. 2 * (D * (root + R)) = 2 * (root * root) - 2 * (R * R)
        BY <1>3
      <4>3. u * capped = u * c + u * (capped - c)
        OBVIOUS
      <4>4. 2 * (D * (root + R)) <= SCALE + 3 * R + u + uu
        <5>1. /\ root * root \in Int /\ R * R \in Int /\ u * c \in Int /\ u * capped \in Int
              /\ u * (capped - c) \in Int /\ D * (root + R) \in Int
          BY <1>3
        <5>2. QED
          BY <1>3, <1>4, <1>6, <4>2, <4>3, <5>1, ScaleAssumption
      <4>5. 2 * (D * (root + R)) = (2 * D - 3) * w + 3 * root + (2 * D - 3) * R + 3 * R
        BY <1>3, <4>1
      <4>6. (2 * D - 3) * R \in Nat /\ (2 * D - 3) * w \in Int
        <5>1. 2 * D - 3 \in Nat
          BY <1>3, <3>2
        <5>2. QED
          BY <1>1, <1>3, <5>1
      <4>7. QED
        BY <1>3, <1>4, <4>4, <4>5, <4>6, ScaleAssumption
    <3>3. QED
      BY <1>3, <3>1, <3>2
  <2> DEFINE x == 2 * D - 3
  <2>2. x \in Int
    BY <1>3
  <2> HIDE DEF x, K
  <2>3. x <= K \div w /\ K \div w \in Nat
    BY <1>1, <1>4, <2>1, <2>2, AtMostQuotient DEF x
  <2>4. QED
    BY <2>3 DEF x, b
<1>8. u + capped >= 2 * root
  <2>1. SUFFICES ASSUME u + capped < 2 * root PROVE FALSE
    OBVIOUS
  <2>2. (u + capped) * (u + capped) < (2 * root) * (2 * root)
    <3> DEFINE s == u + capped
               t == 2 * root
    <3>1. s \in Nat /\ t \in Nat /\ s < t
      BY <2>1
    <3> HIDE DEF s, t
    <3>2. t * t = s * s + s * (t - s) + (t - s) * t /\ (t - s) * t >= 1 /\ s * (t - s) >= 0
      <4>1. t - s \in Nat \ {0} /\ t \in Nat \ {0}
        BY <3>1
      <4>2. QED
        BY <3>1, <4>1
    <3>3. s * s \in Int /\ s * (t - s) \in Int /\ (t - s) * t \in Int
      BY <3>1
    <3>4. s * s < t * t
      BY <3>1, <3>2, <3>3
    <3>5. QED
      BY <3>4 DEF s, t
  <2>3. (u + capped) * (u + capped) = 4 * (u * capped) + (u - capped) * (u - capped)
    OBVIOUS
  <2>4. (u - capped) * (u - capped) >= 0
    <3>1. CASE u >= capped
      BY <3>1
    <3>2. CASE u < capped
      <4>1. (u - capped) * (u - capped) = (capped - u) * (capped - u)
        OBVIOUS
      <4>2. QED
        BY <3>2, <4>1
    <3>3. QED
      BY <3>1, <3>2
  <2>5. (2 * root) * (2 * root) = 4 * (root * root)
    OBVIOUS
  <2>6. /\ u * capped \in Int /\ root * root \in Int
        /\ (u - capped) * (u - capped) \in Int
    OBVIOUS
  <2>7. QED
    BY <2>2, <2>3, <2>4, <2>5, <2>6
<1>9. QED
  BY <1>2, <1>3, <1>5, <1>7, <1>8

\* What the senior tranche is given, with the loss that its net value leaves it.
LEMMA SellerLoss ==
  ASSUME NEW q \in Quantities, q[0] # 0, q[1] # 0, NEW h \in Nat, SCALE = 2 * h,
         NEW l \in Nat \ {0}, NEW u \in Nat \ {0}, NEW n \in Nat \ {0}, NEW v \in Nat \ {0},
         NEW split \in Nat, split <= One, NEW cl \in Int, NEW ch \in Int,
         NEW result \in Farming!execute_plugin(q, l, u, n, v, split, cl, ch),
         NEW capped \in Int,
         capped = Greater((cl * u) \div SCALE, Lesser((ch * u) \div SCALE, v)),
         NEW root \in Nat, root * root <= u * capped
  PROVE  LET loss == (l * One + 2 * u)
                       * (u + capped - 2 * root + LossRounding(u, Greater(root, 1)))
                     + u * One
         IN  2 * u * One * (n * (result.new_quantity[0] - q[0])) <= q[0] * loss + u * n
<1> DEFINE c == Farming!CappedUl(u, v, cl, ch)
           B == Farming!BaseInLp(l, u)
           margin == u + capped - 2 * root + LossRounding(u, Greater(root, 1))
           paid == result.new_quantity[0]
           loss == (l * SCALE + 2 * u) * margin + u * SCALE
<1>1. PICK x \in Farming!LpIl(l, u, v), y \in Farming!LpIl(l, u, c) :
        paid = DecFloor(Lesser(Dec(Total(q)),
                               DecDiv(q[0] * Farming!NetValue(l, u, n, v, split, x, y), n)))
  BY FarmingSenior
<1>2. capped >= 0
  <2>1. SUFFICES ASSUME capped <= -1 PROVE FALSE
    OBVIOUS
  <2>2. u * capped <= -1
    BY <2>1
  <2>3. root * root >= 0
    OBVIOUS
  <2>4. QED
    BY <2>2, <2>3
<1>3. /\ c \in Nat
      /\ 2 * (SCALE * (c - capped)) <= 3 * SCALE + u
      /\ 2 * (SCALE * (capped - c)) <= SCALE + u
  BY <1>2, CapClose
<1> HIDE DEF c
<1>4. B \in Nat /\ 2 * (2 * (B * u) - l * SCALE) <= 3 * u
  BY BaseFact
<1>5. x \in Int /\ y \in Int
        /\ \E r \in DecSqrt(DecMul(u, c)) :
             r \in Nat /\ 2 * (B * (2 * r - u - c) - SCALE * y) <= SCALE
  <2> HIDE DEF B
  <2>1. B \in Nat /\ B = Farming!BaseInLp(l, u)
    BY <1>4 DEF B
  <2>2. QED
    BY <1>1, <1>3, <2>1, LossFact
<1>6. Farming!LpDelta(l, u, v) \in Int
  <2> HIDE DEF B
  <2>1. B \in Nat /\ B = Farming!BaseInLp(l, u)
    BY <1>4 DEF B
  <2>2. QED
    BY <2>1, DeltaFact
<1> HIDE DEF B
<1>7. PICK R \in DecSqrt(DecMul(u, c)) :
        R \in Nat /\ 2 * (B * (2 * R - u - c) - SCALE * y) <= SCALE
  BY <1>5
<1>8. margin \in Nat /\ u + c - 2 * R <= margin
  <2>1. capped \in Nat
    BY <1>2
  <2>2. QED
    BY <1>3, <1>7, <2>1, SellerRoots, Zenon
<1> HIDE DEF margin
<1>9. -(2 * (u * (SCALE * y))) <= loss
  <2> DEFINE t == u + c - 2 * R
  <2>1. t \in Int /\ t <= margin /\ -(2 * (SCALE * y)) <= SCALE + 2 * (B * t)
    <3>1. B * (2 * R - u - c) = -(B * t) /\ B * t \in Int /\ SCALE * y \in Int
      BY <1>3, <1>4, <1>5, <1>7, ScaleAssumption
    <3>2. QED
      BY <1>3, <1>7, <1>8, <3>1, ScaleAssumption
  <2> HIDE DEF t
  <2>2. B * t <= B * margin /\ B * t \in Int /\ B * margin \in Nat
    BY <1>4, <1>8, <2>1
  <2>3. -(2 * (SCALE * y)) <= SCALE + 2 * (B * margin) /\ SCALE * y \in Int
    BY <1>5, <2>1, <2>2, ScaleAssumption
  <2>4. u * (-(2 * (SCALE * y))) <= u * (SCALE + 2 * (B * margin))
    <3> DEFINE a == -(2 * (SCALE * y))
               b == SCALE + 2 * (B * margin)
    <3>1. a \in Int /\ b \in Int /\ a <= b
      BY <2>2, <2>3, ScaleAssumption
    <3> HIDE DEF a, b
    <3>2. u * a <= u * b
      BY <3>1
    <3>3. QED
      BY <3>2 DEF a, b
  <2>5. /\ u * (-(2 * (SCALE * y))) = -(2 * (u * (SCALE * y)))
        /\ u * (SCALE + 2 * (B * margin)) = u * SCALE + 2 * (B * u) * margin
    BY <1>4, <1>5, <1>8, ScaleAssumption
  <2>6. 2 * (B * u) * margin <= (l * SCALE + 2 * u) * margin
    <3> DEFINE a == 2 * (B * u)
               b == l * SCALE + 2 * u
    <3>1. a \in Int /\ b \in Int /\ a <= b
      <4>1. B * u \in Nat /\ l * SCALE \in Nat
        BY <1>4, ScaleAssumption
      <4>2. QED
        BY <1>4, <4>1
    <3> HIDE DEF a, b
    <3>2. a * margin <= b * margin
      BY <1>8, <3>1
    <3>3. QED
      BY <3>2 DEF a, b
  <2>7. /\ u * (SCALE * y) \in Int /\ 2 * (B * u) * margin \in Int
        /\ (l * SCALE + 2 * u) * margin \in Int /\ u * SCALE \in Int
    BY <1>4, <1>5, <1>8, ScaleAssumption
  <2>8. QED
    BY <2>4, <2>5, <2>6, <2>7
<1> DEFINE net == Farming!NetValue(l, u, n, v, split, x, y)
           share == RoundHalfEven((q[0] * net) * SCALE, n)
<1>10. net \in Int /\ net <= n - y
  BY <1>5, <1>6, NetAtMost
<1>11. paid = DecFloor(Lesser(Dec(Total(q)), share))
  BY <1>1, Zenon DEF DecDiv
<1> HIDE DEF net
<1>12. q[0] \in Nat /\ Total(q) \in Nat
  BY QuantityIsNat
<1>13. share \in Int /\ 2 * (n * share) <= 2 * ((q[0] * net) * SCALE) + n
  <2> DEFINE k == (q[0] * net) * SCALE
  <2>1. k \in Int
    BY <1>10, <1>12, ScaleAssumption
  <2> HIDE DEF k
  <2>2. RoundHalfEven(k, n) \in Int /\ 2 * (n * RoundHalfEven(k, n) - k) <= n
    BY <2>1, RoundingError
  <2>3. n * RoundHalfEven(k, n) \in Int
    BY <2>2
  <2>4. QED
    BY <2>1, <2>2, <2>3 DEF k
<1> HIDE DEF share, paid
<1>14. paid \in Int /\ SCALE * paid <= share
  <2> DEFINE least == Lesser(Dec(Total(q)), share)
  <2>1. least \in Int /\ least <= share
    BY <1>12, <1>13, ScaleAssumption DEF Lesser, Dec
  <2>2. paid = DecFloor(least)
    BY <1>11
  <2> HIDE DEF least
  <2>3. DecFloor(least) \in Int /\ SCALE * DecFloor(least) <= least
    BY <2>1, FloorFact
  <2>4. QED
    BY <1>13, <2>1, <2>2, <2>3, ScaleAssumption
<1> DEFINE q0 == q[0]
<1>15. q0 \in Nat
  BY <1>12
<1> HIDE DEF loss
<1>16. loss \in Int
  BY <1>8, ScaleAssumption DEF loss
<1>17. 2 * u * SCALE * (n * (paid - q0)) <= q0 * loss + u * n
  <2>1. 2 * (n * (SCALE * paid)) <= 2 * (SCALE * (q0 * (n - y))) + n
    <3>1. n * (SCALE * paid) <= n * share
      <4> DEFINE a == SCALE * paid
      <4>1. a \in Int /\ a <= share
        BY <1>14, ScaleAssumption
      <4> HIDE DEF a
      <4>2. n * a <= n * share
        BY <1>13, <4>1
      <4>3. QED
        BY <4>2 DEF a
    <3>2. q0 * net <= q0 * (n - y)
      BY <1>5, <1>10, <1>15
    <3>3. (q0 * net) * SCALE <= SCALE * (q0 * (n - y))
      <4> DEFINE a == q0 * net
                 b == q0 * (n - y)
      <4>1. a \in Int /\ b \in Int /\ a <= b
        BY <1>5, <1>10, <1>15, <3>2
      <4> HIDE DEF a, b
      <4>2. a * SCALE <= SCALE * b
        BY <4>1, ScaleAssumption
      <4>3. QED
        BY <4>2 DEF a, b
    <3>4. 2 * (n * share) <= 2 * ((q0 * net) * SCALE) + n
      BY <1>13
    <3> HIDE DEF q0
    <3>5. /\ n * (SCALE * paid) \in Int /\ n * share \in Int /\ (q0 * net) * SCALE \in Int
          /\ SCALE * (q0 * (n - y)) \in Int
      BY <1>5, <1>10, <1>13, <1>14, <1>15, ScaleAssumption
    <3>6. QED
      BY <3>1, <3>3, <3>4, <3>5
  <2> HIDE DEF q0
  <2>2. u * (2 * (n * (SCALE * paid))) <= u * (2 * (SCALE * (q0 * (n - y))) + n)
    <3> DEFINE a == 2 * (n * (SCALE * paid))
               b == 2 * (SCALE * (q0 * (n - y))) + n
    <3>1. a \in Int /\ b \in Int /\ a <= b
      BY <1>5, <1>14, <1>15, <2>1, ScaleAssumption
    <3> HIDE DEF a, b
    <3>2. u * a <= u * b
      BY <3>1
    <3>3. QED
      BY <3>2 DEF a, b
  <2>3. q0 * (-(2 * (u * (SCALE * y)))) <= q0 * loss
    <3> DEFINE a == -(2 * (u * (SCALE * y)))
    <3>1. a \in Int /\ a <= loss
      BY <1>5, <1>9, ScaleAssumption
    <3> HIDE DEF a
    <3>2. q0 * a <= q0 * loss
      BY <1>15, <1>16, <3>1
    <3>3. QED
      BY <3>2 DEF a
  <2>4. 2 * u * SCALE * (n * (paid - q0))
          = u * (2 * (n * (SCALE * paid))) - 2 * (u * SCALE) * (n * q0)
    BY <1>14, <1>15, ScaleAssumption
  <2>5. u * (2 * (SCALE * (q0 * (n - y))) + n)
          = 2 * (u * SCALE) * (n * q0) + q0 * (-(2 * (u * (SCALE * y)))) + u * n
    BY <1>5, <1>15, ScaleAssumption
  <2>6. /\ u * (2 * (n * (SCALE * paid))) \in Int /\ 2 * (u * SCALE) * (n * q0) \in Int
        /\ q0 * (-(2 * (u * (SCALE * y)))) \in Int /\ u * n \in Int /\ q0 * loss \in Int
    BY <1>5, <1>14, <1>15, <1>16, ScaleAssumption
  <2>7. QED
    BY <2>2, <2>3, <2>4, <2>5, <2>6
<1>18. QED
  BY <1>17 DEF q0, paid, loss, margin, One

\* The seller of protection against impermanent loss never pays for more than the loss at
\* the cap, whatever the prices and however far the roots and quotients are rounded.
THEOREM SellerLossIsCapped ==
  ASSUME SCALE % 2 = 0
  PROVE  Spec => []SellerLossCapped
<1>1. PICK h \in Nat : SCALE = 2 * h
  BY ScaleIsTwice
<1>2. Termed => SellerLossCapped
  <2>1. SUFFICES ASSUME Termed, plugin = "farming", NEW new \in FairValues,
                        NEW result \in Results("farming", new)
                 PROVE  LET old_lp == rate[0]
                            old_ul == rate[1]
                            low    == (terms.cap_low * old_ul) \div One
                            high   == (terms.cap_high * old_ul) \div One
                            capped == Greater(low, Lesser(high, new[1]))
                        IN  0 \notin {quantity[0], quantity[1], old_lp, old_ul,
                                      new[0], new[1]} =>
                              \A root \in 0 .. Greater(old_ul, capped) :
                                root * root <= old_ul * capped =>
                                  LET loss == (old_lp * One + 2 * old_ul)
                                                * (old_ul + capped - 2 * root
                                                     + LossRounding(old_ul, Greater(root, 1)))
                                              + old_ul * One
                                  IN  2 * old_ul * One
                                        * (new[0] * (result.new_quantity[0] - quantity[0]))
                                      <= quantity[0] * loss + old_ul * new[0]
    BY DEF SellerLossCapped
  <2> DEFINE l == rate[0]
             u == rate[1]
             n == new[0]
             v == new[1]
             cl == terms.cap_low
             ch == terms.cap_high
             capped == Greater((cl * u) \div SCALE, Lesser((ch * u) \div SCALE, v))
  <2>2. SUFFICES ASSUME 0 \notin {quantity[0], quantity[1], l, u, n, v},
                        NEW root \in 0 .. Greater(u, capped), root * root <= u * capped
                 PROVE  2 * u * One * (n * (result.new_quantity[0] - quantity[0]))
                          <= quantity[0] * ((l * One + 2 * u)
                                              * (u + capped - 2 * root
                                                   + LossRounding(u, Greater(root, 1)))
                                            + u * One) + u * n
    BY DEF One
  <2>3. /\ IsValid(rate, new)
        /\ result \in Farming!execute_plugin(quantity, l, u, n, v, terms.interest_split,
                                             cl, ch)
    BY <2>1 DEF Results, Execute, Farming!execute, Farming!IsValid, IsValid
  <2>4. /\ terms \in Terms /\ quantity \in Quantities /\ rate \in FairValues
        /\ Accepts("farming", terms)
    BY <2>1 DEF Termed, Typed
  <2>5. /\ l \in Nat \ {0} /\ u \in Nat \ {0} /\ n \in Nat \ {0} /\ v \in Nat \ {0}
        /\ quantity[0] # 0 /\ quantity[1] # 0
    BY <2>2, <2>3, <2>4, ValidIsNat
  <2>6. /\ terms.interest_split \in Nat /\ terms.interest_split <= One
        /\ cl \in Int /\ ch \in Int
    BY <2>4, TermsAssumption DEF Accepts, Farming!initialize, Farming!One, One
  <2> HIDE DEF l, u, n, v, cl, ch
  <2>7. capped \in Int
    <3>1. ASSUME NEW a \in Int PROVE (a * u) \div SCALE \in Int
      <4>1. a * u \in Int
        BY <2>5
      <4>2. QED
        BY <4>1, DivModFact, ScaleAssumption
    <3>2. (cl * u) \div SCALE \in Int /\ (ch * u) \div SCALE \in Int
      BY <2>6, <3>1
    <3>3. QED
      BY <2>5, <3>2 DEF Greater, Lesser
  <2>8. root \in Nat
    BY <2>5, <2>7 DEF Greater
  <2> DEFINE split == terms.interest_split
             k == capped
  <2>9. k \in Int /\ k = Greater((cl * u) \div SCALE, Lesser((ch * u) \div SCALE, v))
    BY <2>7
  <2>10. split \in Nat /\ split <= One
    BY <2>6
  <2>11. result \in Farming!execute_plugin(quantity, l, u, n, v, split, cl, ch)
    BY <2>3
  <2>12. root * root <= u * k
    BY <2>2
  <2> HIDE DEF k, split, capped
  <2>13. 2 * u * One * (n * (result.new_quantity[0] - quantity[0]))
           <= quantity[0] * ((l * One + 2 * u)
                               * (u + k - 2 * root + LossRounding(u, Greater(root, 1)))
                             + u * One) + u * n
    BY <1>1, <2>4, <2>5, <2>6, <2>8, <2>9, <2>10, <2>11, <2>12, SellerLoss
  <2>14. QED
    BY <2>13 DEF k
<1>3. QED
  BY <1>2, TermedHolds, PTL

\* The roots of two prices with their own and with a rounded price, and the growth of the
\* pool that a difference of them would need.
LEMMA HedgeRoots ==
  ASSUME NEW u \in Nat \ {0}, NEW v \in Nat \ {0}, NEW c \in Nat,
         2 * (SCALE * (c - v)) <= SCALE + u, 2 * (SCALE * (v - c)) <= SCALE + u,
         NEW r \in DecSqrt(DecMul(u, v)), NEW R \in DecSqrt(DecMul(u, c)),
         NEW L, L = LossRounding(u, Lesser(u, v))
  PROVE  /\ L \in Nat /\ L >= 4 /\ c - v <= L
         /\ 2 * (R - r) + (v - c) <= L
         /\ \A l, n \in Nat \ {0} :
              n * n * u >= l * l * v => 2 * (l * R - n * u) + l * (v - c) <= l * L
<1> DEFINE w == Lesser(u, v)
           uu == (u * u) \div SCALE
           K == 2 * SCALE + u + uu
           a == (3 * SCALE + u) \div (2 * SCALE)
           b == K \div w
           D == R - r
<1>1. w \in Nat \ {0} /\ w * w <= u * v
  <2>1. CASE u <= v
    BY <2>1 DEF Lesser
  <2>2. CASE u > v
    BY <2>2 DEF Lesser
  <2>3. QED
    BY <2>1, <2>2
<1> HIDE DEF w
<1>2. L = 4 + a + b
  BY DEF LossRounding, One, w
<1>3. /\ R \in Nat /\ 2 * (R * R - u * c) <= SCALE + 3 * R
      /\ r \in Nat /\ 2 * (u * v - r * r) <= SCALE + 3 * r
  BY RootOfProduct
<1>4. uu \in Nat /\ K \in Nat
  <2> DEFINE k == u * u
  <2>1. k \in Nat
    OBVIOUS
  <2> HIDE DEF k
  <2>2. k \div SCALE \in Nat
    BY <2>1, DivIsNat, ScaleAssumption
  <2>3. uu \in Nat
    BY <2>2 DEF k
  <2>4. QED
    BY <2>3, ScaleAssumption
<1>5. a \in Nat /\ c - v <= a /\ v - c <= a
  <2>1. /\ 3 * SCALE + u \in Nat /\ 2 * SCALE \in Nat \ {0} /\ c - v \in Int /\ v - c \in Int
    BY ScaleAssumption
  <2>2. (c - v) * (2 * SCALE) <= 3 * SCALE + u /\ (v - c) * (2 * SCALE) <= 3 * SCALE + u
    BY ScaleAssumption
  <2>3. QED
    BY <2>1, <2>2, AtMostQuotient, Zenon
<1>6. 2 * (u * (c - v)) - u <= uu
  <2> DEFINE x == 2 * (u * (c - v)) - u
             k == u * u
  <2>1. x \in Int /\ k \in Nat
    OBVIOUS
  <2>2. x * SCALE <= k
    <3>1. 2 * (SCALE * (c - v)) - SCALE <= u /\ 2 * (SCALE * (c - v)) - SCALE \in Int
      BY ScaleAssumption
    <3>2. u * (2 * (SCALE * (c - v)) - SCALE) <= u * u
      BY <3>1
    <3>3. u * (2 * (SCALE * (c - v)) - SCALE) = x * SCALE
      BY ScaleAssumption
    <3>4. QED
      BY <3>2, <3>3
  <2> HIDE DEF x, k
  <2>3. x <= k \div SCALE
    BY <2>1, <2>2, AtMostQuotient, ScaleAssumption
  <2>4. QED
    BY <2>3 DEF x, k
<1> HIDE DEF uu, a
<1>7. b \in Nat /\ K < w * (b + 1)
  <2> HIDE DEF K
  <2>1. K \in Int
    BY <1>4
  <2>2. K \div w \in Nat
    BY <1>1, <1>4, DivIsNat
  <2>3. K % w \in 0 .. w - 1 /\ K = w * (K \div w) + (K % w)
    BY <1>1, <2>1, DivModFact, Zenon
  <2>4. w * (b + 1) = w * b + w
    BY <1>1, <2>2
  <2>5. QED
    BY <1>1, <2>2, <2>3, <2>4
<1> HIDE DEF b
<1>8. 2 * (R * R) <= 2 * (u * v) + u + uu + SCALE + 3 * R
  <2>1. u * c = u * v + u * (c - v)
    OBVIOUS
  <2>2. R * R \in Int /\ u * c \in Int /\ u * v \in Int /\ u * (c - v) \in Int
    BY <1>3
  <2>3. QED
    BY <1>3, <1>4, <1>6, <2>1, <2>2, ScaleAssumption
<1>9. ASSUME NEW x \in Int, x * w <= K PROVE x <= b
  <2>1. SUFFICES ASSUME x >= b + 1 PROVE FALSE
    BY <1>7
  <2>2. x * w = w * (b + 1) + w * (x - b - 1) /\ w * (x - b - 1) >= 0
    BY <1>1, <1>7, <2>1
  <2>3. w * (b + 1) \in Int /\ w * (x - b - 1) \in Int
    BY <1>1, <1>7
  <2>4. QED
    BY <1>4, <1>7, <1>9, <2>2, <2>3
<1>10. (2 * D - 3) * w <= K
  <2>1. CASE 2 * D <= 3
    <3>1. 3 - 2 * D \in Nat /\ (2 * D - 3) * w = -((3 - 2 * D) * w)
      BY <1>1, <1>3, <2>1
    <3>2. (3 - 2 * D) * w \in Nat
      BY <1>1, <3>1
    <3>3. QED
      BY <1>4, <3>1, <3>2
  <2>2. CASE 2 * D > 3 /\ R + r >= w
    <3>1. (2 * D - 3) * (R + r) = 2 * (R * R) - 2 * (r * r) - 3 * R - 3 * r
      BY <1>3
    <3>2. (2 * D - 3) * (R + r) <= K
      <4>1. R * R \in Int /\ r * r \in Int /\ u * v \in Int /\ (2 * D - 3) * (R + r) \in Int
        BY <1>3
      <4> HIDE DEF D
      <4>2. QED
        BY <1>3, <1>4, <1>8, <3>1, <4>1, ScaleAssumption
    <3>3. (2 * D - 3) * (R + r) = (2 * D - 3) * w + (2 * D - 3) * (R + r - w)
      BY <1>1, <1>3
    <3>4. (2 * D - 3) * (R + r - w) \in Nat /\ (2 * D - 3) * w \in Int
      <4>1. 2 * D - 3 \in Nat /\ R + r - w \in Nat
        BY <1>1, <1>3, <2>2
      <4> HIDE DEF D
      <4>2. QED
        BY <1>1, <4>1
    <3>5. QED
      BY <1>4, <3>2, <3>3, <3>4
  <2>3. CASE 2 * D > 3 /\ R + r < w
    <3> DEFINE e == w - r
    <3>1. e \in Nat /\ D <= e /\ 2 * e - 3 \in Nat /\ 2 * D - 3 \in Nat
      BY <1>1, <1>3, <2>3
    <3>2. (2 * e - 3) * (w + r) = 2 * (w * w) - 2 * (r * r) - 3 * w - 3 * r
      BY <1>1, <1>3
    <3>3. (2 * e - 3) * (w + r) <= SCALE
      <4>1. w * w \in Int /\ r * r \in Int /\ u * v \in Int
        BY <1>1, <1>3
      <4> HIDE DEF e, D
      <4>2. (2 * e - 3) * (w + r) <= SCALE + 3 * r - 3 * w - 3 * r
        BY <1>1, <1>3, <3>2, <4>1, ScaleAssumption
      <4>3. (2 * e - 3) * (w + r) \in Int
        BY <1>1, <1>3, <3>1
      <4>4. QED
        BY <1>1, <1>3, <4>2, <4>3, ScaleAssumption
    <3> HIDE DEF e, D
    <3> DEFINE x == 2 * D - 3
               z == 2 * e - 3
    <3>4. x \in Nat /\ z \in Nat /\ x <= z
      <4>1. D \in Int
        BY <1>3 DEF D
      <4>2. QED
        BY <3>1, <4>1
    <3>5. z * (w + r) <= SCALE
      BY <3>3
    <3> HIDE DEF x, z
    <3>6. x * w <= z * w /\ z * (w + r) = z * w + z * r /\ z * r \in Nat /\ x * w \in Int
            /\ z * w \in Int
      BY <1>1, <1>3, <3>4
    <3>7. x * w <= K
      BY <1>4, <3>5, <3>6, ScaleAssumption
    <3>8. QED
      BY <3>7 DEF x
  <2>4. QED
    BY <1>1, <1>3, <2>1, <2>2, <2>3
<1>11. 2 * D - 3 <= b
  BY <1>3, <1>9, <1>10
<1>12. ASSUME NEW l \in Nat \ {0}, NEW n \in Nat \ {0}, n * n * u >= l * l * v
       PROVE  2 * (l * R - n * u) <= l * (4 + b)
  <2> DEFINE X == l * R - n * u
             N == n * u
  <2>1. N \in Nat /\ X \in Int /\ l * R = X + N /\ l * R \in Nat
    BY <1>3
  <2>2. N * N >= (l * l) * (u * v)
    <3> DEFINE s == n * n * u
               t == l * l * v
    <3>1. s \in Nat /\ t \in Nat /\ s >= t
      BY <1>12
    <3> HIDE DEF s, t
    <3>2. s * u >= t * u
      BY <3>1
    <3>3. N * N = (n * n * u) * u /\ (l * l) * (u * v) = (l * l * v) * u
      OBVIOUS
    <3>4. QED
      BY <3>2, <3>3 DEF s, t
  <2>3. l * w <= N
    <3>1. (l * w) * (l * w) <= N * N
      <4>1. (l * w) * (l * w) = (l * l) * (w * w)
        BY <1>1
      <4>2. (l * l) * (w * w) <= (l * l) * (u * v)
        <5> DEFINE s == w * w
                   t == u * v
        <5>1. s \in Nat /\ t \in Nat /\ s <= t /\ l * l \in Nat
          BY <1>1
        <5> HIDE DEF s, t
        <5>2. (l * l) * s <= (l * l) * t
          BY <5>1
        <5>3. QED
          BY <5>2 DEF s, t
      <4>3. (l * l) * (w * w) \in Int /\ (l * l) * (u * v) \in Int /\ N * N \in Int
        BY <1>1, <2>1
      <4>4. QED
        BY <2>2, <4>1, <4>2, <4>3
    <3>2. l * w \in Nat
      BY <1>1
    <3>3. QED
      BY <2>1, <3>1, <3>2, SquareOrder
  <2>4. CASE 2 * X <= 3 * l
    <3>1. l * (4 + b) = 4 * l + l * b /\ l * b \in Nat
      BY <1>7
    <3>2. QED
      BY <2>1, <2>4, <3>1
  <2>5. CASE 2 * X > 3 * l
    <3>1. 2 * (X * (l * R + N)) = 2 * ((l * l) * (R * R)) - 2 * (N * N)
      BY <1>3
    <3>2. 2 * ((l * l) * (R * R)) <= (l * l) * (2 * (u * v) + K + 3 * R)
      <4> DEFINE s == 2 * (R * R)
                 t == 2 * (u * v) + K + 3 * R
      <4>1. s \in Nat /\ t \in Nat /\ s <= t /\ l * l \in Nat
        <5>1. u * v \in Nat /\ R * R \in Nat
          BY <1>3
        <5>2. QED
          BY <1>3, <1>4, <1>8, <5>1, ScaleAssumption
      <4> HIDE DEF s, t
      <4>2. (l * l) * s <= (l * l) * t
        BY <4>1
      <4>3. 2 * ((l * l) * (R * R)) = (l * l) * (2 * (R * R))
        BY <1>3
      <4>4. QED
        BY <4>2, <4>3 DEF s, t
    <3>3. (l * l) * (2 * (u * v) + K + 3 * R)
            = 2 * ((l * l) * (u * v)) + (l * l) * K + 3 * ((l * l) * R)
      BY <1>3, <1>4
    <3>4. /\ 2 * (X * (l * R + N)) <= (l * l) * K + 3 * ((l * l) * R)
          /\ X * (l * R + N) \in Int /\ (l * l) * K \in Int /\ (l * l) * R \in Int
      <4>1. /\ (l * l) * (R * R) \in Int /\ N * N \in Int /\ (l * l) * (u * v) \in Int
            /\ (l * l) * K \in Int /\ (l * l) * R \in Int /\ X * (l * R + N) \in Int
        BY <1>3, <1>4, <2>1
      <4> HIDE DEF X, N, K
      <4>2. QED
        BY <2>2, <3>1, <3>2, <3>3, <4>1
    <3> HIDE DEF X, N, K
    <3>5. 2 * (X * N) <= (l * l) * K
      <4>1. 2 * (X * (l * R + N)) = (2 * X) * (l * R) + 2 * (X * N)
        BY <2>1
      <4>2. (2 * X) * (l * R) >= (3 * l) * (l * R)
        <5> DEFINE s == 2 * X
                   t == 3 * l
                   k == l * R
        <5>1. s \in Int /\ t \in Int /\ t <= s /\ k \in Nat
          BY <2>1, <2>5
        <5> HIDE DEF s, t, k
        <5>2. t * k <= s * k
          BY <5>1
        <5>3. QED
          BY <5>2 DEF s, t, k
      <4>3. (3 * l) * (l * R) = 3 * ((l * l) * R)
        BY <1>3
      <4>4. (2 * X) * (l * R) \in Int /\ X * N \in Int
        BY <1>3, <2>1
      <4>5. QED
        BY <3>4, <4>1, <4>2, <4>3, <4>4
    <3>6. 2 * (X * (l * w)) <= (l * l) * K
      <4> DEFINE k == l * w
      <4>1. k \in Nat /\ k <= N /\ X \in Nat
        BY <1>1, <2>1, <2>3, <2>5
      <4> HIDE DEF k
      <4>2. X * k <= X * N /\ X * k \in Int /\ X * N \in Int
        BY <2>1, <4>1
      <4>3. 2 * (X * k) <= (l * l) * K
        BY <3>4, <3>5, <4>2
      <4>4. QED
        BY <4>3 DEF k
    <3>7. 2 * (X * w) <= l * K
      <4>1. SUFFICES ASSUME 2 * (X * w) >= l * K + 1 PROVE FALSE
        BY <1>1, <1>4, <2>1
      <4> DEFINE s == 2 * (X * w)
                 t == l * K
      <4>2. s \in Int /\ t \in Int /\ s >= t + 1
        BY <1>1, <1>4, <2>1, <4>1
      <4>3. 2 * (X * (l * w)) = l * s /\ (l * l) * K = l * t
        BY <1>1, <1>4, <2>1
      <4> HIDE DEF s, t
      <4>4. l * s >= l * t + 1
        BY <4>2
      <4>5. l * s \in Int /\ l * t \in Int
        BY <4>2
      <4>6. QED
        BY <3>6, <4>3, <4>4, <4>5
    <3>8. l * K <= l * (w * (b + 1))
      <4> DEFINE t == w * (b + 1)
      <4>1. t \in Int /\ K <= t
        BY <1>1, <1>4, <1>7
      <4> HIDE DEF t
      <4>2. l * K <= l * t
        BY <1>4, <4>1
      <4>3. QED
        BY <4>2 DEF t
    <3>9. 2 * X <= l * (b + 1)
      <4>1. SUFFICES ASSUME 2 * X >= l * (b + 1) + 1 PROVE FALSE
        BY <1>7, <2>1
      <4> DEFINE s == 2 * X
                 t == l * (b + 1)
      <4>2. s \in Int /\ t \in Int /\ s >= t + 1
        BY <1>7, <2>1, <4>1
      <4>3. 2 * (X * w) = w * s /\ l * (w * (b + 1)) = w * t
        BY <1>1, <1>7, <2>1
      <4> HIDE DEF s, t
      <4>4. w * s >= w * t + 1 /\ w * s \in Int /\ w * t \in Int /\ l * K \in Int
        BY <1>1, <1>4, <4>2
      <4>5. QED
        BY <3>7, <3>8, <4>3, <4>4
    <3>10. l * (4 + b) = l * (b + 1) + 3 * l /\ l * (b + 1) \in Int
      BY <1>7
    <3>11. QED
      BY <2>1, <3>9, <3>10 DEF X
  <2>6. QED
    BY <2>1, <2>4, <2>5
<1>13. ASSUME NEW l \in Nat \ {0}, NEW n \in Nat \ {0}, n * n * u >= l * l * v
       PROVE  2 * (l * R - n * u) + l * (v - c) <= l * L
  <2>1. l * (v - c) <= l * a
    BY <1>5
  <2>2. l * L = l * (4 + b) + l * a
    BY <1>2, <1>5, <1>7
  <2>3. l * (v - c) \in Int /\ l * a \in Int /\ l * (4 + b) \in Int /\ l * R - n * u \in Int
    BY <1>3, <1>5, <1>7
  <2>4. 2 * (l * R - n * u) <= l * (4 + b)
    BY <1>12, <1>13
  <2>5. QED
    BY <2>1, <2>2, <2>3, <2>4
<1>14. L \in Nat /\ L >= 4 /\ c - v <= L /\ 2 * D + (v - c) <= L
  <2>1. D \in Int
    BY <1>3
  <2> HIDE DEF D
  <2>2. QED
    BY <1>2, <1>5, <1>7, <1>11, <2>1
<1>15. QED
  BY <1>13, <1>14

\* The senior tranche's LP token, after a move within the caps of a pool that earned
\* something, against half of the quote currency and half of the underlying.
LEMMA HedgedNet ==
  ASSUME NEW h \in Nat, SCALE = 2 * h,
         NEW l \in Nat \ {0}, NEW u \in Nat \ {0}, NEW n \in Nat \ {0}, NEW v \in Nat \ {0},
         NEW split \in Nat, split <= One, NEW c \in Nat,
         2 * (SCALE * (c - v)) <= SCALE + u, 2 * (SCALE * (v - c)) <= SCALE + u,
         n * n * u >= l * l * v,
         NEW x \in Farming!LpIl(l, u, v), NEW y \in Farming!LpIl(l, u, c)
  PROVE  /\ Farming!NetValue(l, u, n, v, split, x, y) \in Int
         /\ l * One * (u + v)
              - (2 * u * (u + v) + 4 * u * One
                   + (l * One + 2 * u) * LossRounding(u, Lesser(u, v)))
            <= 2 * (u * (SCALE * Farming!NetValue(l, u, n, v, split, x, y)))
<1> DEFINE B == Farming!BaseInLp(l, u)
           delta == Farming!LpDelta(l, u, v)
           L == LossRounding(u, Lesser(u, v))
           net == Farming!NetValue(l, u, n, v, split, x, y)
           held == l + delta + x
           P == 2 * (B * u)
           Q == l * SCALE
           g == u * (u + v)
<1>1. B \in Nat /\ 2 * P <= 2 * Q + 3 * u /\ 2 * Q <= 2 * P + 3 * u
  BY BaseFact
<1>2. delta \in Int /\ 2 * (B * (v - u) - SCALE * delta) <= SCALE
  <2> HIDE DEF B
  <2>1. B \in Nat /\ B = Farming!BaseInLp(l, u)
    BY <1>1 DEF B
  <2>2. QED
    BY <2>1, DeltaFact
<1>3. ASSUME NEW price \in Nat, NEW z \in Farming!LpIl(l, u, price)
      PROVE  /\ z \in Int
             /\ \E s \in DecSqrt(DecMul(u, price)) :
                  /\ s \in Nat
                  /\ 2 * (SCALE * z - B * (2 * s - u - price)) <= SCALE
                  /\ 2 * (B * (2 * s - u - price) - SCALE * z) <= SCALE
  <2> HIDE DEF B
  <2>1. B \in Nat /\ B = Farming!BaseInLp(l, u)
    BY <1>1 DEF B
  <2>2. QED
    BY <1>3, <2>1, LossFact
<1> HIDE DEF B, delta
<1>4. PICK r \in DecSqrt(DecMul(u, v)) :
        r \in Nat /\ 2 * (B * (2 * r - u - v) - SCALE * x) <= SCALE
  BY <1>3
<1>5. PICK R \in DecSqrt(DecMul(u, c)) :
        R \in Nat /\ 2 * (SCALE * y - B * (2 * R - u - c)) <= SCALE
  BY <1>3
<1>6. x \in Int /\ y \in Int
  BY <1>3
<1> DEFINE E == 2 * (R - r) + (v - c)
           T == u + c - 2 * R
<1>7. /\ L \in Nat /\ L >= 4 /\ c - v <= L /\ E <= L
      /\ 2 * (l * R - n * u) + l * (v - c) <= l * L
  BY HedgeRoots
<1>8. -(T * u) <= 2 * SCALE + 3 * u
  <2>1. (2 * R - u - c) * u <= 2 * SCALE + 3 * u
    BY RootExcess
  <2>2. (2 * R - u - c) * u = -(T * u)
    BY <1>5
  <2>3. QED
    BY <2>1, <2>2
<1>9. /\ net \in Int
      /\ n >= held => net >= held - y
      /\ n < held => net = n - y
  <2>1. delta = Farming!LpDelta(l, u, v) /\ Farming!LpDelta(l, u, v) \in Int
    BY <1>2 DEF delta
  <2>2. l \in Nat /\ u \in Nat /\ n \in Nat /\ v \in Nat
    OBVIOUS
  <2>3. net \in Int /\ net <= n - y
    BY <1>6, <2>1, <2>2, NetAtMost
  <2>4. net >= Lesser(n, l + Farming!LpDelta(l, u, v) + x) - y
    BY <1>6, <2>1, <2>2, NetAtMost
  <2>5. l + Farming!LpDelta(l, u, v) + x = held
    BY <2>1
  <2>6. held \in Int /\ net >= Lesser(n, held) - y
    BY <1>6, <2>1, <2>4, <2>5
  <2> HIDE DEF held, net
  <2>7. QED
    BY <1>6, <2>3, <2>6 DEF Lesser
<1> HIDE DEF net, L
<1>10. /\ held \in Int /\ E \in Int /\ T \in Int /\ P \in Nat /\ Q \in Nat /\ g \in Nat
       /\ B * (v - u) \in Int /\ SCALE * delta \in Int /\ SCALE * x \in Int
       /\ SCALE * y \in Int /\ SCALE * net \in Int /\ u * SCALE \in Nat
       /\ P * E \in Int /\ P * T \in Int /\ Q * T \in Int /\ Q * L \in Nat /\ u * L \in Nat
       /\ u * T \in Int /\ B * E \in Int /\ B * T \in Int /\ P * L \in Nat
  <2>1. held \in Int /\ E \in Int /\ T \in Int /\ P \in Nat /\ Q \in Nat /\ g \in Nat
    BY <1>1, <1>2, <1>4, <1>5, <1>6, ScaleAssumption
  <2> HIDE DEF held, E, T, P, Q, g
  <2>2. QED
    BY <1>1, <1>2, <1>6, <1>7, <1>9, <2>1, ScaleAssumption
<1>11. ASSUME NEW a \in Nat
       PROVE  2 * (P * a) <= 2 * (Q * a) + 3 * (u * a) /\ 2 * (Q * a) <= 2 * (P * a) + 3 * (u * a)
  <2> HIDE DEF P, Q
  <2>1. /\ (2 * P) * a <= (2 * Q + 3 * u) * a
        /\ (2 * Q) * a <= (2 * P + 3 * u) * a
    <3> DEFINE s == 2 * P
               t == 2 * Q + 3 * u
               s1 == 2 * Q
               t1 == 2 * P + 3 * u
    <3>1. s \in Int /\ t \in Int /\ s <= t /\ s1 \in Int /\ t1 \in Int /\ s1 <= t1
      BY <1>1, <1>10
    <3> HIDE DEF s, t, s1, t1
    <3>2. s * a <= t * a /\ s1 * a <= t1 * a
      BY <3>1
    <3>3. QED
      BY <3>2 DEF s, t, s1, t1
  <2>2. /\ (2 * P) * a = 2 * (P * a) /\ (2 * Q + 3 * u) * a = 2 * (Q * a) + 3 * (u * a)
        /\ (2 * Q) * a = 2 * (Q * a) /\ (2 * P + 3 * u) * a = 2 * (P * a) + 3 * (u * a)
    BY <1>10
  <2>3. QED
    BY <2>1, <2>2
<1> DEFINE Worth == Q * (u + v) - (2 * g + 4 * (u * SCALE) + Q * L + 2 * (u * L))
                      <= 2 * (u * (SCALE * net))
<1>12. ASSUME n >= held PROVE Worth
  <2>1. net >= held - y
    BY <1>9, <1>12
  <2>2. SCALE * net >= SCALE * l + SCALE * delta + SCALE * x - SCALE * y
    <3>1. SCALE * (held - y) = SCALE * l + SCALE * delta + SCALE * x - SCALE * y
      BY <1>2, <1>6, ScaleAssumption
    <3> DEFINE a == held - y
    <3>2. a \in Int /\ a <= net
      BY <1>6, <1>10, <2>1
    <3> HIDE DEF a
    <3>3. SCALE * a <= SCALE * net
      BY <1>9, <3>2, ScaleAssumption
    <3>4. QED
      BY <3>1, <3>3 DEF a
  <2>3. 2 * (SCALE * net) >= 2 * Q + 2 * (B * (v - u)) - 3 * SCALE - 2 * (B * E)
    <3>1. B * (2 * r - u - v) - B * (2 * R - u - c) = -(B * E)
      BY <1>1, <1>4, <1>5
    <3>2. B * (2 * r - u - v) \in Int /\ B * (2 * R - u - c) \in Int /\ SCALE * l = Q
      BY <1>1, <1>4, <1>5, ScaleAssumption
    <3> HIDE DEF E, held, Q
    <3>3. QED
      BY <1>2, <1>4, <1>5, <1>10, <2>2, <3>1, <3>2, ScaleAssumption
  <2>4. 2 * (u * (SCALE * net)) >= 2 * (Q * u) + P * (v - u) - 3 * (u * SCALE) - P * E
    <3> DEFINE a == 2 * Q + 2 * (B * (v - u)) - 3 * SCALE - 2 * (B * E)
               b == 2 * (SCALE * net)
    <3>1. a \in Int /\ b \in Int /\ a <= b
      <4> HIDE DEF E, Q
      <4>1. QED
        BY <1>10, <2>3, ScaleAssumption
    <3>2. u * a = 2 * (Q * u) + P * (v - u) - 3 * (u * SCALE) - P * E
      <4>1. u * (2 * (B * (v - u))) = P * (v - u) /\ u * (2 * (B * E)) = P * E
              /\ u * (2 * Q) = 2 * (Q * u)
        <5> HIDE DEF E, Q
        <5>1. QED
          BY <1>1, <1>10
      <4>2. u * a = u * (2 * Q) + u * (2 * (B * (v - u))) - 3 * (u * SCALE) - u * (2 * (B * E))
        <5> HIDE DEF E, Q
        <5>1. QED
          BY <1>1, <1>10, ScaleAssumption
      <4>3. QED
        BY <4>1, <4>2
    <3>3. u * b = 2 * (u * (SCALE * net))
      BY <1>10
    <3> HIDE DEF a, b
    <3>4. u * a <= u * b
      BY <3>1
    <3>5. QED
      BY <3>2, <3>3, <3>4
  <2> HIDE DEF E, held
  <2>5. P * E <= Q * L + 2 * (u * L)
    <3> HIDE DEF P, Q
    <3>1. P * E <= P * L
      BY <1>7, <1>10
    <3>2. 2 * (P * L) <= 2 * (Q * L) + 3 * (u * L)
      BY <1>7, <1>11
    <3>3. QED
      BY <1>10, <3>1, <3>2
  <2>6. P * (v - u) >= Q * (v - u) - 2 * g
    <3> HIDE DEF P, Q
    <3>1. CASE v >= u
      <4> DEFINE a == v - u
      <4>1. a \in Nat
        BY <3>1
      <4>2. u * a <= g
        <5>1. g = u * a + 2 * (u * u) /\ u * u \in Nat
          OBVIOUS
        <5>2. u * a \in Int
          BY <4>1
        <5>3. QED
          BY <5>1, <5>2
      <4> HIDE DEF a, g
      <4>3. 2 * (Q * a) <= 2 * (P * a) + 3 * (u * a)
        BY <1>11, <4>1
      <4>4. Q * a \in Int /\ P * a \in Int /\ u * a \in Int
        BY <1>10, <4>1
      <4>5. P * a >= Q * a - 2 * g
        BY <1>10, <4>2, <4>3, <4>4
      <4>6. QED
        BY <4>5 DEF a
    <3>2. CASE v < u
      <4> DEFINE a == u - v
      <4>1. a \in Nat
        BY <3>2
      <4>2. u * a <= g
        <5>1. g = u * a + 2 * (u * v) /\ u * v \in Nat
          OBVIOUS
        <5>2. u * a \in Int
          BY <4>1
        <5>3. QED
          BY <5>1, <5>2
      <4>7. P * (v - u) = -(P * a) /\ Q * (v - u) = -(Q * a)
        BY <1>10
      <4> HIDE DEF a, g
      <4>3. 2 * (P * a) <= 2 * (Q * a) + 3 * (u * a)
        BY <1>11, <4>1
      <4>4. Q * a \in Int /\ P * a \in Int /\ u * a \in Nat
        BY <1>10, <4>1
      <4>5. P * a <= Q * a + 2 * g
        BY <1>10, <4>2, <4>3, <4>4
      <4>6. QED
        BY <1>10, <4>4, <4>5, <4>7
    <3>3. QED
      BY <3>1, <3>2
  <2>7. /\ 2 * (Q * u) + Q * (v - u) = Q * (u + v) /\ P * (v - u) \in Int
        /\ Q * (v - u) \in Int /\ Q * u \in Int /\ Q * (u + v) \in Int
        /\ u * (SCALE * net) \in Int
    <3> HIDE DEF P, Q
    <3>1. QED
      BY <1>10
  <2>8. Q * (u + v) - (2 * g + 4 * (u * SCALE) + Q * L + 2 * (u * L))
          <= 2 * (u * (SCALE * net))
    <3> HIDE DEF P, Q, g
    <3>1. QED
      BY <1>10, <2>4, <2>5, <2>6, <2>7
  <2>9. QED
    BY <2>8
<1>13. ASSUME n < held PROVE Worth
  <2>1. net = n - y
    BY <1>9, <1>10, <1>13
  <2>2. 2 * (u * (SCALE * net)) >= 2 * (u * SCALE * n) + P * T - u * SCALE
    <3>1. 2 * (SCALE * y) <= SCALE - 2 * (B * T)
      <4>1. B * (2 * R - u - c) = -(B * T)
        BY <1>1, <1>5
      <4> HIDE DEF T
      <4>2. QED
        BY <1>5, <1>10, <4>1, ScaleAssumption
    <3> HIDE DEF T
    <3> DEFINE a == 2 * (SCALE * y)
               b == SCALE - 2 * (B * T)
    <3>2. a \in Int /\ b \in Int /\ a <= b
      BY <1>10, <3>1, ScaleAssumption
    <3>3. u * a = 2 * (u * (SCALE * y)) /\ u * b = u * SCALE - P * T
      BY <1>1, <1>10, ScaleAssumption
    <3> HIDE DEF a, b
    <3>4. u * a <= u * b
      BY <3>2
    <3>5. 2 * (u * (SCALE * net)) = 2 * (u * SCALE * n) - 2 * (u * (SCALE * y))
      BY <1>6, <2>1, ScaleAssumption
    <3>6. u * SCALE * n \in Int /\ u * (SCALE * y) \in Int /\ u * (SCALE * net) \in Int
      BY <1>10
    <3> HIDE DEF P
    <3>7. QED
      BY <1>10, <3>3, <3>4, <3>5, <3>6
  <2>3. P * T >= Q * T - 2 * g - 2 * (u * L) - 3 * (u * SCALE)
    <3> HIDE DEF P, Q
    <3>1. CASE T >= 0
      <4>1. u * T <= g + u * L
        <5>1. T <= u + v + L
          BY <1>5, <1>7
        <5> HIDE DEF T
        <5>2. u * T <= u * (u + v + L)
          BY <1>7, <1>10, <5>1
        <5>3. u * (u + v + L) = g + u * L
          BY <1>7
        <5>4. QED
          BY <5>2, <5>3
      <4> HIDE DEF T, g
      <4>2. 2 * (Q * T) <= 2 * (P * T) + 3 * (u * T)
        BY <1>10, <1>11, <3>1
      <4>3. QED
        BY <1>10, <4>1, <4>2
    <3>2. CASE T < 0
      <4> DEFINE a == -T
      <4> HIDE DEF T
      <4>1. a \in Nat
        BY <1>10, <3>2
      <4>2. P * T = -(P * a) /\ Q * T = -(Q * a) /\ T * u = -(u * a)
        BY <1>10
      <4> HIDE DEF a, g
      <4>3. 2 * (P * a) <= 2 * (Q * a) + 3 * (u * a)
        BY <1>11, <4>1
      <4>4. Q * a \in Int /\ P * a \in Int /\ u * a \in Nat
        BY <1>10, <4>1
      <4>5. u * a <= 2 * SCALE + 3 * u
        BY <1>8, <4>2, <4>4
      <4>6. SCALE <= u * SCALE /\ 4 * u <= u * L
        BY <1>7, ScaleAssumption
      <4>7. P * a <= Q * a + 2 * (u * L) + 3 * (u * SCALE)
        BY <1>10, <4>3, <4>4, <4>5, <4>6, ScaleAssumption
      <4>8. QED
        BY <1>10, <4>2, <4>4, <4>7
    <3>3. QED
      BY <1>10, <3>1, <3>2
  <2>4. 2 * (u * SCALE * n) + Q * T >= Q * (u + v) - Q * L
    <3> DEFINE a == 2 * (l * R - n * u) + l * (v - c)
               b == l * L
    <3>1. a \in Int /\ b \in Int /\ a <= b
      BY <1>5, <1>7
    <3>2. /\ 2 * (u * SCALE * n) + Q * T = Q * (u + v) - SCALE * a
          /\ Q * L = SCALE * b
      BY <1>5, <1>7, ScaleAssumption
    <3> HIDE DEF a, b
    <3>3. SCALE * a <= SCALE * b /\ SCALE * a \in Int /\ SCALE * b \in Int
      BY <3>1, ScaleAssumption
    <3> HIDE DEF Q, T
    <3>4. Q * (u + v) \in Int /\ u * SCALE * n \in Int
      BY <1>10
    <3>5. QED
      BY <1>10, <3>2, <3>3, <3>4
  <2>5. Q * (u + v) \in Int /\ u * SCALE * n \in Int /\ u * (SCALE * net) \in Int
    <3> HIDE DEF Q
    <3>1. QED
      BY <1>10
  <2>6. Q * (u + v) - (2 * g + 4 * (u * SCALE) + Q * L + 2 * (u * L))
          <= 2 * (u * (SCALE * net))
    <3> HIDE DEF P, Q, g, T
    <3>1. QED
      BY <1>10, <2>2, <2>3, <2>4, <2>5
  <2>7. QED
    BY <2>6
<1>14. Worth
  <2> HIDE DEF Worth, held
  <2>1. n >= held \/ n < held
    BY <1>10
  <2>2. QED
    BY <1>12, <1>13, <2>1
<1>15. 2 * u * (u + v) + 4 * u * SCALE + (l * SCALE + 2 * u) * L
         = 2 * g + 4 * (u * SCALE) + Q * L + 2 * (u * L)
  BY <1>7, ScaleAssumption
<1>16. QED
  BY <1>9, <1>14, <1>15 DEF One, L, net

\* What HedgedWithinCaps says of one refresh.
KeepsHedge(q, paid, l, u, n, v) ==
  LET kept == l * One * (u + v)
      rounding == 2 * u * (u + v) + 4 * u * One
                    + (l * One + 2 * u) * LossRounding(u, Lesser(u, v))
  IN  \/ 2 * u * One * (n * (paid + 1)) >= q[0] * (kept - rounding)
      \/ paid = Total(q)

LEMMA Hedged ==
  ASSUME NEW q \in Quantities, q[1] # 0, NEW h \in Nat, SCALE = 2 * h,
         NEW l \in Nat \ {0}, NEW u \in Nat \ {0}, NEW n \in Nat \ {0}, NEW v \in Nat \ {0},
         NEW split \in Nat, split <= One, NEW cl \in Int, NEW ch \in Int,
         cl * u <= v * One, v * One <= ch * u, n * n * u >= l * l * v,
         NEW result \in Farming!execute_plugin(q, l, u, n, v, split, cl, ch)
  PROVE  KeepsHedge(q, result.new_quantity[0], l, u, n, v)
<1> DEFINE c == Farming!CappedUl(u, v, cl, ch)
           paid == result.new_quantity[0]
           L == LossRounding(u, Lesser(u, v))
           worth == l * One * (u + v) - (2 * u * (u + v) + 4 * u * One + (l * One + 2 * u) * L)
<1>1. q[0] \in Nat /\ Total(q) \in Nat
  BY QuantityIsNat
<1>2. CASE q[0] = 0
  <2>1. paid = 0
    <3>1. result.new_quantity = q
      BY <1>2 DEF Farming!execute_plugin, Farming!Returns
    <3>2. QED
      BY <1>2, <3>1
  <2>2. 2 * u * One * (n * (paid + 1)) \in Nat
    BY <2>1, ScaleAssumption DEF One
  <2>3. L \in Int
    <3>1. Lesser(u, v) \in Nat \ {0}
      BY DEF Lesser
    <3>2. ASSUME NEW a \in Nat, NEW b \in Nat \ {0} PROVE a \div b \in Nat
      BY <3>2, DivIsNat
    <3>3. (u * u) \div SCALE \in Nat
      <4>1. u * u \in Nat
        OBVIOUS
      <4>2. QED
        BY <3>2, <4>1, ScaleAssumption
    <3> DEFINE a == 3 * SCALE + u
               b == 2 * SCALE
               k == 2 * SCALE + u + (u * u) \div SCALE
               w == Lesser(u, v)
    <3>4. a \in Nat /\ b \in Nat \ {0} /\ k \in Nat /\ w \in Nat \ {0}
      BY <3>1, <3>3, ScaleAssumption
    <3>5. L = 4 + a \div b + k \div w
      BY DEF LossRounding, One
    <3> HIDE DEF a, b, k, w
    <3>6. a \div b \in Nat /\ k \div w \in Nat
      BY <3>2, <3>4
    <3> HIDE DEF L
    <3>7. QED
      BY <3>5, <3>6
  <2>4. worth \in Int
    <3> HIDE DEF L
    <3>1. QED
      BY <2>3, ScaleAssumption DEF One
  <2> HIDE DEF worth, paid
  <2>5. q[0] * worth = 0
    BY <1>2, <2>4
  <2>6. 2 * u * One * (n * (paid + 1)) >= q[0] * worth
    BY <2>2, <2>5
  <2>7. QED
    BY <2>6 DEF worth, paid, L, KeepsHedge
<1>3. CASE q[0] # 0
  <2>1. PICK x \in Farming!LpIl(l, u, v), y \in Farming!LpIl(l, u, c) :
          paid = DecFloor(Lesser(Dec(Total(q)),
                                 DecDiv(q[0] * Farming!NetValue(l, u, n, v, split, x, y), n)))
    BY <1>3, FarmingSenior
  <2>2. /\ c \in Nat
        /\ 2 * (SCALE * (c - v)) <= SCALE + u /\ 2 * (SCALE * (v - c)) <= SCALE + u
    BY CapUntouched
  <2> HIDE DEF c
  <2> DEFINE net == Farming!NetValue(l, u, n, v, split, x, y)
             share == RoundHalfEven((q[0] * net) * SCALE, n)
             q0 == q[0]
  <2>3. net \in Int /\ worth <= 2 * (u * (SCALE * net))
    BY <2>2, HedgedNet
  <2>4. paid = DecFloor(Lesser(Dec(Total(q)), share))
    BY <2>1, Zenon DEF DecDiv
  <2> HIDE DEF net, worth
  <2>5. share \in Int /\ 2 * ((q[0] * net) * SCALE - n * share) <= n
    <3> DEFINE k == (q[0] * net) * SCALE
    <3>1. k \in Int
      BY <1>1, <2>3, ScaleAssumption
    <3> HIDE DEF k
    <3>2. RoundHalfEven(k, n) \in Int /\ 2 * (k - n * RoundHalfEven(k, n)) <= n
      BY <3>1, RoundingError
    <3>3. QED
      BY <3>2 DEF k
  <2> HIDE DEF share, paid
  <2>6. CASE share >= Dec(Total(q))
    <3>1. paid = DecFloor(Dec(Total(q)))
      BY <1>1, <2>4, <2>5, <2>6, ScaleAssumption DEF Lesser, Dec
    <3>2. /\ DecFloor(Dec(Total(q))) \in Int
          /\ SCALE * DecFloor(Dec(Total(q))) <= Dec(Total(q))
          /\ Dec(Total(q)) < SCALE * DecFloor(Dec(Total(q))) + SCALE
      <4>1. Dec(Total(q)) \in Int
        BY <1>1, ScaleAssumption DEF Dec
      <4>2. QED
        BY <4>1, FloorFact
    <3> DEFINE d == Total(q) - paid
    <3>3. d \in Int /\ SCALE * d >= 0 /\ SCALE * d < SCALE
      <4>1. SCALE * d = Dec(Total(q)) - SCALE * paid
        BY <1>1, <3>1, <3>2, ScaleAssumption DEF Dec
      <4>2. SCALE * paid \in Int /\ Dec(Total(q)) \in Int
        BY <1>1, <3>1, <3>2, ScaleAssumption DEF Dec
      <4>3. QED
        BY <1>1, <3>1, <3>2, <4>1, <4>2
    <3>4. d = 0
      <4> HIDE DEF d
      <4>1. CASE d >= 1
        BY <3>3, <4>1, ScaleAssumption
      <4>2. CASE d <= -1
        BY <3>3, <4>2, ScaleAssumption
      <4>3. QED
        BY <3>3, <4>1, <4>2
    <3>5. paid = Total(q)
      <4>1. paid \in Int
        BY <3>1, <3>2
      <4>2. QED
        BY <1>1, <3>4, <4>1
    <3>6. QED
      BY <3>5 DEF paid, KeepsHedge
  <2>7. CASE share < Dec(Total(q))
    <3>1. paid = DecFloor(share)
      BY <1>1, <2>4, <2>5, <2>7, ScaleAssumption DEF Lesser, Dec
    <3>2. paid \in Int /\ share < SCALE * paid + SCALE
      BY <2>5, <3>1, FloorFact
    <3>3. q0 \in Nat
      BY <1>1
    <3>4. 2 * (SCALE * (q0 * net)) <= 2 * (SCALE * (n * (paid + 1)))
      <4> DEFINE top == SCALE * (paid + 1)
      <4>1. top \in Int /\ share + 1 <= top
        BY <2>5, <3>2, ScaleAssumption
      <4>2. SCALE * (n * (paid + 1)) = n * top
        BY <3>2, ScaleAssumption
      <4> HIDE DEF top
      <4>3. n * (share + 1) <= n * top /\ n * (share + 1) = n * share + n
        BY <2>5, <4>1
      <4>4. SCALE * (q0 * net) = (q[0] * net) * SCALE
        BY <2>3, <3>3, ScaleAssumption
      <4>5. n * share \in Int /\ n * top \in Int /\ (q[0] * net) * SCALE \in Int
        BY <1>1, <2>3, <2>5, <4>1, ScaleAssumption
      <4> HIDE DEF q0
      <4>6. QED
        BY <2>5, <4>2, <4>3, <4>4, <4>5, ScaleAssumption
    <3> HIDE DEF q0
    <3>5. u * (2 * (SCALE * (q0 * net))) <= u * (2 * (SCALE * (n * (paid + 1))))
      <4> DEFINE a == 2 * (SCALE * (q0 * net))
                 b == 2 * (SCALE * (n * (paid + 1)))
      <4>1. a \in Int /\ b \in Int /\ a <= b
        BY <2>3, <3>2, <3>3, <3>4, ScaleAssumption
      <4> HIDE DEF a, b
      <4>2. u * a <= u * b
        BY <4>1
      <4>3. QED
        BY <4>2 DEF a, b
    <3>6. u * (2 * (SCALE * (q0 * net))) = q0 * (2 * (u * (SCALE * net)))
            /\ u * (2 * (SCALE * (n * (paid + 1)))) = 2 * u * SCALE * (n * (paid + 1))
      BY <2>3, <3>2, <3>3, ScaleAssumption
    <3>7. worth \in Int
      <4>1. L \in Int
        <5>1. \E R \in DecSqrt(DecMul(u, c)) : TRUE
          BY <2>1, FarmingArithmetic DEF Farming!LpIl
        <5>2. \E r \in DecSqrt(DecMul(u, v)) : TRUE
          BY <2>1, FarmingArithmetic DEF Farming!LpIl
        <5>3. QED
          BY <2>2, <5>1, <5>2, HedgeRoots
      <4> HIDE DEF L
      <4>2. QED
        BY <4>1, ScaleAssumption DEF One, worth
    <3>8. q0 * worth <= q0 * (2 * (u * (SCALE * net)))
      <4> DEFINE a == 2 * (u * (SCALE * net))
      <4>1. a \in Int /\ worth <= a
        BY <2>3, ScaleAssumption
      <4> HIDE DEF a
      <4>2. q0 * worth <= q0 * a
        BY <3>3, <3>7, <4>1
      <4>3. QED
        BY <4>2 DEF a
    <3>9. /\ q0 * worth \in Int /\ q0 * (2 * (u * (SCALE * net))) \in Int
          /\ 2 * u * SCALE * (n * (paid + 1)) \in Int
      BY <2>3, <3>2, <3>3, <3>7, ScaleAssumption
    <3>10. 2 * u * SCALE * (n * (paid + 1)) >= q0 * worth
      BY <3>5, <3>6, <3>8, <3>9
    <3>11. QED
      BY <3>10 DEF q0, worth, paid, L, One, KeepsHedge
  <2>8. QED
    <3>1. Dec(Total(q)) \in Int
      BY <1>1, ScaleAssumption DEF Dec
    <3>2. QED
      BY <2>5, <2>6, <2>7, <3>1
<1>4. QED
  BY <1>2, <1>3

\* While the underlying moves within the caps and the pool earns something, the senior
\* tranche of a farming config holds what its LP tokens would be worth had they been split
\* and kept.
THEOREM FarmingIsHedged ==
  ASSUME SCALE % 2 = 0
  PROVE  Spec => []HedgedWithinCaps
<1>1. PICK h \in Nat : SCALE = 2 * h
  BY ScaleIsTwice
<1>2. Termed => HedgedWithinCaps
  <2>1. SUFFICES ASSUME Termed, plugin = "farming", NEW new \in FairValues,
                        NEW result \in Results("farming", new), quantity[1] > 0,
                        0 \notin {rate[0], rate[1], new[0], new[1]},
                        new[0] * new[0] * rate[1] >= rate[0] * rate[0] * new[1],
                        terms.cap_low * rate[1] <= new[1] * One,
                        new[1] * One <= terms.cap_high * rate[1]
                 PROVE  KeepsHedge(quantity, result.new_quantity[0], rate[0], rate[1],
                                   new[0], new[1])
    BY DEF HedgedWithinCaps, KeepsHedge
  <2> DEFINE l == rate[0]
             u == rate[1]
             n == new[0]
             v == new[1]
             cl == terms.cap_low
             ch == terms.cap_high
             split == terms.interest_split
  <2>2. /\ IsValid(rate, new)
        /\ result \in Farming!execute_plugin(quantity, l, u, n, v, split, cl, ch)
    BY <2>1 DEF Results, Execute, Farming!execute, Farming!IsValid, IsValid
  <2>3. /\ terms \in Terms /\ quantity \in Quantities /\ rate \in FairValues
        /\ Accepts("farming", terms)
    BY <2>1 DEF Termed, Typed
  <2>4. l \in Nat \ {0} /\ u \in Nat \ {0} /\ n \in Nat \ {0} /\ v \in Nat \ {0}
    BY <2>1, <2>2, <2>3, ValidIsNat
  <2>5. split \in Nat /\ split <= One /\ cl \in Int /\ ch \in Int
    BY <2>3, TermsAssumption DEF Accepts, Farming!initialize, Farming!One, One
  <2>6. /\ quantity[1] # 0 /\ cl * u <= v * One /\ v * One <= ch * u
        /\ n * n * u >= l * l * v
    BY <2>1
  <2> HIDE DEF l, u, n, v, cl, ch, split
  <2>7. KeepsHedge(quantity, result.new_quantity[0], l, u, n, v)
    BY <1>1, <2>2, <2>3, <2>4, <2>5, <2>6, Hedged
  <2>8. QED
    BY <2>7 DEF l, u, n, v
<1>3. QED
  BY <1>2, TermedHolds, PTL

=============================================================================
