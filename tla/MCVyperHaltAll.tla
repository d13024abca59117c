---------------------------- MODULE MCVyperHaltAll --------------------------
(* vyper-core with the lending plugin and a fixed fee; the owner halts everything. *)
EXTENDS VyperCore

CONSTANT alice

Lending == INSTANCE RedeemLogicLending

MCFairValues == {One}
MCInitFairValue == One
MCExecutePlugin(q, old, new) == Lending!execute_plugin(q, old, new, One \div 2, 1)
MCInitialTokens == [u \in Users |-> 4]
MCInitializeInputs == {[halt_flags |-> {}, owner_restricted_ixs |-> {}]}
MCUpdateInputs ==
  {[bitmask |-> {"HALT_FLAGS"}, halt_flags |-> TrancheHaltFlags, owner_restricted_ixs |-> {},
    reserve_fair_value_stale_slot_threshold |-> 0,
    tranche_fair_value_stale_slot_threshold |-> 0, deposit_cap |-> Split(None, None)]}
=============================================================================
