----------------------- MODULE RedeemLogicVanillaOption ---------------------
(***************************************************************************)
(* The redeem-logic-vanilla-option plugin: the senior tranche holds          *)
(* `notional` calls or puts that the junior tranche wrote, fully             *)
(* collateralised by the junior quantity; its own quantity is the premium.   *)
(***************************************************************************)
EXTENDS RedeemLogicCommon

\* Mutant: takes every option for a call.
IntrinsicOfCall(spot, strike, is_call) == Greater(0, spot - strike)

\* What exercising one option brings, never less than zero.
Intrinsic(spot, strike, is_call) ==
  Greater(0, IF is_call THEN spot - strike ELSE strike - spot)

\* The payoff of one option.  At a rate of zero an inverse option pays nothing, except a
\* call struck at zero, which pays one.
PayoffOfOne(spot, strike, is_call, is_linear) ==
  IF spot = 0 /\ ~is_linear
  THEN IF ~is_call \/ strike > 0 THEN 0 ELSE One
  ELSE IF is_linear
       THEN Intrinsic(spot, strike, is_call)
       ELSE DecDiv(Intrinsic(spot, strike, is_call), spot)

execute_plugin(q, new_spot, strike, notional, is_call, is_linear) ==
  IF strike < 0
  THEN {}
  ELSE ReturnsRest(q, Lesser(Dec(q[1]),
                        notional * PayoffOfOne(new_spot, strike, is_call, is_linear)))

initialize(config) == config.strike >= 0

execute(q, old_fair_value, new_fair_value, config) ==
  IF IsValid(old_fair_value, new_fair_value)
  THEN execute_plugin(q, new_fair_value[0], config.strike, config.notional,
                      config.is_call, config.is_linear)
  ELSE {}

=============================================================================
