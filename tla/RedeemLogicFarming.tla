-------------------------- MODULE RedeemLogicFarming ------------------------
(***************************************************************************)
(* The redeem-logic-farming plugin: both tranches hold LP tokens of a pool.   *)
(* The junior tranche takes over the senior one's impermanent loss, within    *)
(* caps on the move of the underlying, for a share of what the pool accrues.  *)
(***************************************************************************)
EXTENDS RedeemLogicCommon, DecimalSqrt

Half == RoundHalfEven(One, 2)

\* Mutant: takes all of the LP token's value for base tokens.
AllBaseInLp(old_lp, old_ul) == DecDiv(old_lp, old_ul)

\* The base tokens in one LP token: half of its value is the quote currency.
BaseInLp(old_lp, old_ul) == DecMul(DecDiv(old_lp, old_ul), Half)

\* The value of those base tokens that a move of the underlying adds or takes.
LpDelta(old_lp, old_ul, new_ul) == DecMul(BaseInLp(old_lp, old_ul), new_ul - old_ul)

\* The impermanent loss of one LP token, never positive but for rounding; none if the root
\* fails, of a negative product.
LpIl(old_lp, old_ul, new_ul) ==
  {DecMul(BaseInLp(old_lp, old_ul), 2 * root - old_ul - new_ul) :
     root \in DecSqrt(DecMul(old_ul, new_ul))}

\* Mutant: the caps the wrong way round.
CappedOutside(old_ul, new_ul, cap_low, cap_high) ==
  DecMul(old_ul, Greater(cap_high, Lesser(cap_low, DecDiv(new_ul, old_ul))))

\* The underlying's price with its move kept within the caps.
CappedUl(old_ul, new_ul, cap_low, cap_high) ==
  DecMul(old_ul, Greater(cap_low, Lesser(cap_high, DecDiv(new_ul, old_ul))))

\* What the pool earned: the LP token's value beyond what the move alone explains.
Accrued(old_lp, old_ul, new_lp, new_ul, il) ==
  new_lp - (old_lp + LpDelta(old_lp, old_ul, new_ul) + il)

\* The senior tranche bears what the pool lost and keeps its share of what accrued.
SeniorShare(accrued, interest_split) ==
  IF accrued < 0 THEN accrued ELSE DecMul(accrued, One - interest_split)

\* What one of the senior tranche's LP tokens is to be worth.
NetValue(old_lp, old_ul, new_lp, new_ul, interest_split, il, cap_il) ==
  old_lp + LpDelta(old_lp, old_ul, new_ul) + il - cap_il
    + SeniorShare(Accrued(old_lp, old_ul, new_lp, new_ul, il), interest_split)

execute_plugin(q, old_lp, old_ul, new_lp, new_ul, interest_split, cap_low, cap_high) ==
  IF q[0] = 0 \/ q[1] = 0
  THEN Returns(q, 0)
  ELSE IF 0 \in {old_lp, old_ul, new_lp, new_ul}
  THEN {r \in Returns(Split(Total(q), 0), 0) : Total(q) \in U64}
  ELSE UNION {LET net    == NetValue(old_lp, old_ul, new_lp, new_ul, interest_split,
                                     il, cap_il)
                  senior == Lesser(Dec(Total(q)), DecDiv(q[0] * net, new_lp))
                  junior == Greater(0, Dec(Total(q)) - senior)
              IN  ReturnsFloors(q, senior, junior) :
              il     \in LpIl(old_lp, old_ul, new_ul),
              cap_il \in LpIl(old_lp, old_ul, CappedUl(old_ul, new_ul, cap_low, cap_high))}

\* The caps are not checked.
initialize(config) == config.interest_split >= 0 /\ config.interest_split <= One

execute(q, old_fair_value, new_fair_value, config) ==
  IF IsValid(old_fair_value, new_fair_value)
  THEN execute_plugin(q, old_fair_value[0], old_fair_value[1],
                      new_fair_value[0], new_fair_value[1],
                      config.interest_split, config.cap_low, config.cap_high)
  ELSE {}

=============================================================================
