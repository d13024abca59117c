-------------------------- MODULE RedeemLogicDigital ------------------------
(***************************************************************************)
(* The redeem-logic-digital plugin: the senior tranche wins the junior     *)
(* tranche's quantity when the rate is on its side of the strike, nothing   *)
(* otherwise.  The instruction checks none of its inputs.                   *)
(***************************************************************************)
EXTENDS RedeemLogicCommon

InTheMoney(new_spot, strike, is_call) ==
  IF is_call THEN new_spot >= strike ELSE new_spot < strike

execute_plugin(q, new_spot, strike, is_call) ==
  ReturnsRest(q, IF InTheMoney(new_spot, strike, is_call) THEN Dec(q[1]) ELSE 0)

\* Neither the strike nor the rates are checked: both may be negative.
initialize(config) == TRUE

execute(q, old_fair_value, new_fair_value, config) ==
  execute_plugin(q, new_fair_value[0], config.strike, config.is_call)

=============================================================================
