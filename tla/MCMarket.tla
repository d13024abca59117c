------------------------------- MODULE MCMarket -----------------------------
(* vyper-core with the lending plugin, 50% interest split and a fixed fee of 1; its owner *)
(* halts and restricts it, changes both thresholds and collects the fees; one other user   *)
(* trades.                                                                               *)
EXTENDS Market

CONSTANTS alice, owner

Lending == INSTANCE RedeemLogicLending

MCFairValues == {One, 2 * One}
MCInitFairValue == One
MCExecutePlugin(q, old, new) == Lending!execute_plugin(q, old, new, One \div 2, 1)
MCInitialTokens == [u \in Users |-> IF u = alice THEN 2 ELSE 0]
MCInitializeInputs ==
  {[halt_flags |-> {}, owner_restricted_ixs |-> {}],
   [halt_flags |-> {"unknown"}, owner_restricted_ixs |-> {}]}

\* The third and the fourth update hold bits no flag has.
NoUpdate ==
  [bitmask |-> {}, halt_flags |-> {}, owner_restricted_ixs |-> {},
   reserve_fair_value_stale_slot_threshold |-> 0,
   tranche_fair_value_stale_slot_threshold |-> 0, deposit_cap |-> Split(None, None)]
Update == [NoUpdate EXCEPT !.bitmask = {"HALT_FLAGS", "OWNER_RESTRICTED_IXS",
                                        "RESERVE_FAIR_VALUE_STALE_SLOT_THRESHOLD",
                                        "TRANCHE_FAIR_VALUE_STALE_SLOT_THRESHOLD"}]
MCUpdateInputs ==
  {[Update EXCEPT !.reserve_fair_value_stale_slot_threshold = 3,
                  !.tranche_fair_value_stale_slot_threshold = 2],
   [Update EXCEPT !.halt_flags = {"HALT_REDEEMS"}, !.owner_restricted_ixs = {"DEPOSITS"},
                  !.reserve_fair_value_stale_slot_threshold = 1,
                  !.tranche_fair_value_stale_slot_threshold = 1],
   [NoUpdate EXCEPT !.bitmask = {"HALT_FLAGS"}, !.halt_flags = {"unknown"}],
   [NoUpdate EXCEPT !.bitmask = {"unknown"}]}
=============================================================================
