---------------------------- MODULE MCVyperForward --------------------------
(* vyper-core with the forward plugin: one linear forward struck at one. *)
EXTENDS VyperCore

CONSTANT alice

Forward == INSTANCE RedeemLogicForward

MCFairValues == {One, 2 * One}
MCInitFairValue == One
MCExecutePlugin(q, old, new) == Forward!execute_plugin(q, new, One, 1, TRUE)
MCInitialTokens == [u \in Users |-> 4]
MCInitializeInputs == {[halt_flags |-> {}, owner_restricted_ixs |-> {}]}
MCUpdateInputs == {}
=============================================================================
