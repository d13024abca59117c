------------------------ MODULE RedeemLogicLendingFee -----------------------
(***************************************************************************)
(* The redeem-logic-lending-fee plugin: the lending payoff, computed on the  *)
(* value of the quantities, after a management fee on the whole value and a  *)
(* performance fee on the gain.  What flooring leaves is a fee as well.      *)
(***************************************************************************)
EXTENDS RedeemLogicCommon

\* Mutant: the performance fee is taken from the whole value.
FeeOnWhole(old, new, perf_fee) ==
  IF new > old THEN DecMul(new, One - perf_fee) ELSE new

\* A value after the performance fee on its gain; a loss pays none.
AfterPerfFee(old, new, perf_fee) ==
  IF new > old THEN old + DecMul(new - old, One - perf_fee) ELSE new

\* Mutant: the senior tranche keeps the junior tranche's share of the interest.
InterestKept(interest_split) == interest_split

\* The part of its own return that the senior tranche keeps.
InterestShare(interest_split) == One - interest_split

IsShare(d) == d >= 0 /\ d <= One

\* The config is checked by initialize, and again here.
execute_plugin(q, old, new, interest_split, mgmt_fee, perf_fee) ==
  IF ~(IsShare(interest_split) /\ IsShare(mgmt_fee) /\ IsShare(perf_fee))
  THEN {}
  ELSE IF old = 0 \/ new = 0
  THEN LET senior == DecFloor(DecMul(Dec(Total(q)), One - mgmt_fee))
       IN  {r \in Returns(Split(senior, 0), Total(q) - senior) : Total(q) \in U64}
  ELSE LET OldValue(i) == DecMul(DecMul(Dec(q[i]), old), One - mgmt_fee)
           NewValue(i) ==
             AfterPerfFee(OldValue(i), DecMul(DecDiv(OldValue(i), old), new), perf_fee)
           total  == NewValue(0) + NewValue(1)
           senior == IF NewValue(0) > OldValue(0)
                     THEN OldValue(0) + DecMul(NewValue(0) - OldValue(0),
                                               InterestShare(interest_split))
                     ELSE Lesser(OldValue(0), total)
       IN  ReturnsFloors(q, DecDiv(senior, new), DecDiv(total - senior, new))

\* Shares of the whole: initialize accepts nothing else.
initialize(config) ==
  IsShare(config.interest_split) /\ IsShare(config.mgmt_fee) /\ IsShare(config.perf_fee)

execute(q, old_fair_value, new_fair_value, config) ==
  IF IsValid(old_fair_value, new_fair_value)
  THEN execute_plugin(q, old_fair_value[0], new_fair_value[0],
                      config.interest_split, config.mgmt_fee, config.perf_fee)
  ELSE {}

=============================================================================
