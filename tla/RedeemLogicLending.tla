-------------------------- MODULE RedeemLogicLending ------------------------
(***************************************************************************)
(* The redeem-logic-lending plugin: the senior tranche lends to the junior  *)
(* one.  When the rate rises it keeps 1 - interest_split of the return of   *)
(* its own quantity, when the rate falls it is made whole from the junior    *)
(* tranche.  Each tranche then pays a fixed fee if it holds more than that. *)
(***************************************************************************)
EXTENDS RedeemLogicCommon

\* Mutant: a fall of the rate is not made up for.
SeniorUncompensated(q, old, new, interest_split) ==
  LET preserved == DecDiv(DecMul(Dec(q[0]), old), new)
      growth    == DecDiv(new, old) - One
  IN  IF new > old
      THEN DecMul(preserved, One + DecMul(growth, One - interest_split))
      ELSE Dec(q[0])

\* The senior share before rounding, for an old rate that is not zero.
SeniorQuantity(q, old, new, interest_split) ==
  LET preserved == DecDiv(DecMul(Dec(q[0]), old), new)
      growth    == DecDiv(new, old) - One
  IN  IF new > old
      THEN DecMul(preserved, One + DecMul(growth, One - interest_split))
      ELSE IF new = 0 THEN Dec(Total(q)) ELSE Lesser(Dec(Total(q)), preserved)

\* Mutant: charges the fee to a tranche that cannot pay it in full, and pays it in full.
FeeOfAnyone(quantity, fixed_fee_per_tranche) ==
  IF quantity > 0 THEN fixed_fee_per_tranche ELSE 0

\* A tranche pays the fee only if something is left to it.
TrancheFee(quantity, fixed_fee_per_tranche) ==
  IF quantity > fixed_fee_per_tranche THEN fixed_fee_per_tranche ELSE 0

execute_plugin(q, old, new, interest_split, fixed_fee_per_tranche) ==
  IF old = 0
  THEN Returns(q, 0)
  ELSE LET senior == DecRound(SeniorQuantity(q, old, new, interest_split))
           junior == Total(q) - senior
           senior_fee == TrancheFee(senior, fixed_fee_per_tranche)
           junior_fee == TrancheFee(junior, fixed_fee_per_tranche)
       IN  IF Total(q) \in U64 /\ senior \in U64 /\ junior \in U64
           THEN Returns(Split(senior - senior_fee, junior - junior_fee),
                        senior_fee + junior_fee)
           ELSE {}

\* The instructions: the parameters initialize stores if it accepts them, and what execute
\* reads of its input and of that config.
initialize(config) == config.interest_split >= 0 /\ config.interest_split <= One

execute(q, old_fair_value, new_fair_value, config) ==
  IF IsValid(old_fair_value, new_fair_value)
  THEN execute_plugin(q, old_fair_value[0], new_fair_value[0],
                      config.interest_split, config.fixed_fee_per_tranche)
  ELSE {}

=============================================================================
