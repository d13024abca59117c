---------------------------- MODULE MCVyperLending --------------------------
(* vyper-core with the lending plugin, 50% interest split, no fixed fee; the owner may cap *)
(* the senior tranche.                                                                     *)
EXTENDS VyperCore

CONSTANT alice

Lending == INSTANCE RedeemLogicLending

MCFairValues == {0, One, 2 * One}
MCInitFairValue == One
MCExecutePlugin(q, old, new) == Lending!execute_plugin(q, old, new, One \div 2, 0)
MCInitialTokens == [u \in Users |-> 4]
MCInitializeInputs == {[halt_flags |-> {}, owner_restricted_ixs |-> {}]}
MCUpdateInputs ==
  {[bitmask |-> {"DEPOSIT_CAP"}, halt_flags |-> {}, owner_restricted_ixs |-> {},
    reserve_fair_value_stale_slot_threshold |-> 0,
    tranche_fair_value_stale_slot_threshold |-> 0, deposit_cap |-> Split(1, None)]}
=============================================================================
