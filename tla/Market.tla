-------------------------------- MODULE Market ------------------------------
(***************************************************************************)
(* A tranche config and the rate account it follows, written by a program      *)
(* that reads oracles (OracleReader): whose refresh, and the config's, anybody  *)
(* sends when they like.  Two stamps stand between what the oracles show and a  *)
(* trade: the slot the rate program wrote, and the copy of it in the config,   *)
(* each with a threshold of its own.                                         *)
(***************************************************************************)
EXTENDS VyperCore

ASSUME SlotsAssumption == InitSlot <= MaxSlot

VARIABLES
  showing,   \* what the oracles show
  shown      \* history: what they have shown in each slot

market_vars == <<vars, showing, shown>>

Showing(value, s) == shown' = [shown EXCEPT ![s] = @ \union {value}]

\* A config starts as if the oracles had shown the initial vector.
MarketInit ==
  /\ Init
  /\ rate_state.refreshed_slot = slot
  /\ showing = rate_state.fair_value
  /\ shown = [s \in InitSlot .. MaxSlot |->
                IF s = InitSlot THEN {InitFairValue, showing} ELSE {}]

\* The rate program's refresh.
RefreshRate == PublishRate(showing, 0) /\ UNCHANGED <<showing, shown>>

\* The oracles move.
Show(value) ==
  /\ showing' = value
  /\ Showing(value, slot)
  /\ UNCHANGED vars

NextSlot == Tick /\ Showing(showing, slot') /\ UNCHANGED showing

\* The instructions of the core program.
CoreNext ==
  /\ \/ \E signer, dest \in Users, quantity \in [Tranches -> Amounts] :
          Deposit(signer, dest, quantity)
     \/ \E signer \in Users, dest \in Accounts, quantity \in [Tranches -> Amounts] :
          Redeem(signer, dest, quantity)
     \/ \E signer \in Users : RefreshTrancheFairValue(signer)
     \/ \E signer \in Users, dest \in Accounts : CollectFee(signer, dest)
     \/ \E signer \in Users, input \in UpdateInputs : UpdateTrancheData(signer, input)
  /\ UNCHANGED <<showing, shown>>

MarketNext ==
  \/ CoreNext
  \/ RefreshRate
  \/ \E value \in FairValues : Show(value)
  \/ NextSlot

MarketSpec == MarketInit /\ [][MarketNext]_market_vars

----------------------------------------------------------------------------

\* The slots not longer ago than a tranche's price may be.
RecentSlots ==
  {s \in InitSlot .. slot : slot - s < tranche_fair_value.stale_slot_threshold}

\* Tranche tokens are minted and burned only at a rate that the oracles showed fewer slots
\* ago than the config's own threshold: however late the rate program and then the config
\* are refreshed, and however often, neither makes an old rate look young.
TradesAtRecentRates ==
  [][supply' # supply => \E s \in RecentSlots : reserve_fair_value.value \in shown[s]]_market_vars

=============================================================================
