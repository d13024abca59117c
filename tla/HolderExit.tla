------------------------------ MODULE HolderExit ----------------------------
(***************************************************************************)
(* Whether the holders of tranche tokens can leave: a redemption needs a      *)
(* tranche price that is not stale, that one a rate which is not stale, and     *)
(* each of the three transactions is sent by somebody else.                   *)
(*                                                                         *)
(* Time runs on for ever here.  The code only looks at the age of a stamp, so   *)
(* the slot stands still and the stamps grow older instead; one that has        *)
(* reached zero is as old as any threshold, and need not grow older.           *)
(***************************************************************************)
EXTENDS VyperCore

ASSUME ThresholdsAssumption ==
  /\ 2 <= InitSlot
  /\ \A input \in UpdateInputs :
       /\ input.reserve_fair_value_stale_slot_threshold <= InitSlot
       /\ input.tranche_fair_value_stale_slot_threshold <= InitSlot

Older(stamp) == Greater(0, stamp - 1)

\* A slot passes.
Pass ==
  /\ rate_state' = [rate_state EXCEPT !.refreshed_slot = Older(@)]
  /\ reserve_fair_value' = [reserve_fair_value EXCEPT !.last_update = Older(@)]
  /\ tranche_fair_value' = [tranche_fair_value EXCEPT !.last_update = Older(@)]
  /\ UNCHANGED <<slot, shares, flags, tokens>>

\* A rate program's refresh, in the current slot.
Publish == \E value \in FairValues : PublishRate(value, 0)

Refresh == \E signer \in Users : RefreshTrancheFairValue(signer)

\* A holder redeems everything at once.
Leave(holder) ==
  Total(tranche_tokens[holder]) > 0 /\ Redeem(holder, holder, tranche_tokens[holder])

ExitNext ==
  \/ \E signer, dest \in Users, quantity \in [Tranches -> Amounts] :
       Deposit(signer, dest, quantity)
  \/ \E signer \in Users, quantity \in [Tranches -> Amounts] : Redeem(signer, signer, quantity)
  \/ \E holder \in Users : Leave(holder)
  \/ Refresh
  \/ \E signer \in Users : CollectFee(signer, signer)
  \/ \E signer \in Users, input \in UpdateInputs : UpdateTrancheData(signer, input)
  \/ Publish
  \/ Pass

\* Somebody keeps the rate going, somebody (anybody may) refreshes the config, and a holder
\* who wants to leave tries again and again: of those chances that come and go with the
\* slots, each takes one in the end.
Fairness ==
  /\ WF_vars(Pass)
  /\ WF_vars(Publish)
  /\ SF_vars(Refresh)
  /\ \A holder \in Users : SF_vars(Leave(holder))

ExitSpec == Init /\ [][ExitNext]_vars /\ Fairness

----------------------------------------------------------------------------

\* Nothing halted or reserved to the owner, and a price as old as a rate may be at a
\* refresh is not stale on arrival.
Open ==
  /\ {"HALT_REFRESHES", "HALT_REDEEMS"} \intersect halt_flags = {}
  /\ "REDEEMS" \notin owner_restricted_ix
  /\ 1 <= reserve_fair_value.stale_slot_threshold
  /\ reserve_fair_value.stale_slot_threshold <= tranche_fair_value.stale_slot_threshold

\* Every holder gets out: once the owner leaves the config open, whatever the rates do, who
\* deposits and redeems meanwhile and how often prices go stale, no holder of tokens keeps
\* them for ever, nor is left behind by rounding with tokens the tranche cannot pay for.
HoldersCanLeave ==
  <>[]Open => \A holder \in Users : []<>(Total(tranche_tokens[holder]) = 0)

=============================================================================
