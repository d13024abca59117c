----------------------------- MODULE MCHolderExit ---------------------------
(* Two holders of a lending config; an owner who closes redemptions, opens them again and  *)
(* changes the thresholds, to values that make prices stale on arrival among others.       *)
EXTENDS HolderExit

CONSTANTS alice, bob

Lending == INSTANCE RedeemLogicLending

MCFairValues == {One, 2 * One}
MCInitFairValue == One
MCExecutePlugin(q, old, new) == Lending!execute_plugin(q, old, new, One \div 2, 0)
MCInitialTokens == [u \in Users |-> IF u = alice THEN 2 ELSE 1]
MCInitializeInputs == {[halt_flags |-> {}, owner_restricted_ixs |-> {}]}

Update(halts, reserve, tranche) ==
  [bitmask |-> {"HALT_FLAGS", "RESERVE_FAIR_VALUE_STALE_SLOT_THRESHOLD",
                "TRANCHE_FAIR_VALUE_STALE_SLOT_THRESHOLD"},
   halt_flags |-> halts, owner_restricted_ixs |-> {},
   reserve_fair_value_stale_slot_threshold |-> reserve,
   tranche_fair_value_stale_slot_threshold |-> tranche, deposit_cap |-> Split(None, None)]

MCUpdateInputs == {Update({"HALT_REDEEMS"}, 2, 2), Update({}, 1, 1), Update({}, 2, 1)}
=============================================================================
