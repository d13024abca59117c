--------------------------- MODULE RedeemLogicFila --------------------------
(***************************************************************************)
(* The redeem-logic-fila plugin, a forward impermanent loss agreement: the   *)
(* senior tranche buys protection, the junior one sells it against its own   *)
(* quantity and receives the senior quantity as premium.                     *)
(***************************************************************************)
EXTENDS RedeemLogicCommon, DecimalSqrt

\* Mutant: the loss with its sign, as the farming plugin writes it.
PayoffAsLoss(spot, strike, root) == 2 * root - strike - spot

\* Mutant: subtracts the root once.
PayoffOfOneRoot(spot, strike, root) == strike + spot - root

\* The impermanent loss of one unit: the square of the difference of the roots, expanded.
Payoff(spot, strike, root) == strike + spot - 2 * root

\* A root rounded up can make the payoff, and the senior quantity with it, negative: the
\* conversion then fails.
execute_plugin(q, new_spot, strike, notional) ==
  IF new_spot < 0 \/ strike < 0
  THEN {}
  ELSE UNION {LET senior == Lesser(Dec(q[1]), notional * Payoff(new_spot, strike, root))
                  junior == Greater(0, Dec(Total(q)) - senior)
              IN  ReturnsFloors(q, senior, junior) :
              root \in DecSqrt(DecMul(new_spot, strike))}

initialize(config) == config.strike >= 0

execute(q, old_fair_value, new_fair_value, config) ==
  IF IsValid(old_fair_value, new_fair_value)
  THEN execute_plugin(q, new_fair_value[0], config.strike, config.notional)
  ELSE {}

=============================================================================
