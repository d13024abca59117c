----------------------- MODULE RedeemLogicSettledForward --------------------
(***************************************************************************)
(* The redeem-logic-settled-forward plugin: a forward whose payoff is        *)
(* converted to reserve tokens at the second rate, or at its inverse.        *)
(***************************************************************************)
EXTENDS RedeemLogicCommon

Forward == INSTANCE RedeemLogicForward

\* Mutant: never inverted.
RateAsQuoted(new_settle_spot, is_standard) == new_settle_spot

\* Reserve tokens per unit of payoff; a rate of zero is not inverted.
SettleRate(new_settle_spot, is_standard) ==
  IF is_standard \/ new_settle_spot = 0
  THEN new_settle_spot
  ELSE DecDiv(One, new_settle_spot)

execute_plugin(q, new_ul_spot, new_settle_spot, strike, notional, is_linear, is_standard) ==
  IF new_ul_spot < 0 \/ strike < 0
  THEN {}
  ELSE IF new_ul_spot = 0 /\ ~is_linear /\ strike > 0
  THEN Returns(Split(0, Total(q)), 0)
  ELSE LET payoff == DecMul(SettleRate(new_settle_spot, is_standard),
                            Forward!Payoff(new_ul_spot, strike, notional, is_linear))
           senior == Lesser(Dec(Total(q)), Greater(0, Dec(q[0]) + payoff))
           junior == Greater(0, Dec(Total(q)) - senior)
       IN  ReturnsFloors(q, senior, junior)

initialize(config) == config.strike >= 0

execute(q, old_fair_value, new_fair_value, config) ==
  IF IsValid(old_fair_value, new_fair_value)
  THEN execute_plugin(q, new_fair_value[0], new_fair_value[1], config.strike,
                      config.notional, config.is_linear, config.is_standard)
  ELSE {}

=============================================================================
