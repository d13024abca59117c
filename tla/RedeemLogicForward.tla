-------------------------- MODULE RedeemLogicForward ------------------------
(***************************************************************************)
(* The redeem-logic-forward plugin: the senior tranche is long `notional`    *)
(* forwards struck at `strike`.  A linear forward pays notional times the   *)
(* move of the rate, an inverse one pays that move divided by the rate.      *)
(***************************************************************************)
EXTENDS RedeemLogicCommon

\* Mutant: the short side's payoff.
ShortPayoff(spot, strike, notional, is_linear) ==
  IF is_linear THEN notional * (strike - spot)
  ELSE IF spot = 0 THEN Dec(notional)
  ELSE DecDiv(notional * (strike - spot), spot)

\* What the senior tranche gains, a decimal that may be negative.  An inverse forward is
\* worth its notional at a rate of zero when the strike is zero too.
Payoff(spot, strike, notional, is_linear) ==
  IF is_linear THEN notional * (spot - strike)
  ELSE IF spot = 0 THEN Dec(notional)
  ELSE DecDiv(notional * (spot - strike), spot)

\* The rate and the strike are checked once more.
execute_plugin(q, new_spot, strike, notional, is_linear) ==
  IF new_spot < 0 \/ strike < 0
  THEN {}
  ELSE IF new_spot = 0 /\ ~is_linear /\ strike > 0
  THEN Returns(Split(0, Total(q)), 0)
  ELSE LET payoff == Payoff(new_spot, strike, notional, is_linear)
           senior == Lesser(Dec(Total(q)), Greater(0, Dec(q[0]) + payoff))
           junior == Greater(0, Dec(Total(q)) - senior)
       IN  ReturnsFloors(q, senior, junior)

initialize(config) == config.strike >= 0

execute(q, old_fair_value, new_fair_value, config) ==
  IF IsValid(old_fair_value, new_fair_value)
  THEN execute_plugin(q, new_fair_value[0], config.strike, config.notional, config.is_linear)
  ELSE {}

=============================================================================
