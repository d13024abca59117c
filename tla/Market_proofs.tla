---------------------------- MODULE Market_proofs ---------------------------
(***************************************************************************)
(* The chain of stamps from the oracles to a trade, for every plugin, every   *)
(* pair of thresholds and every order of refreshes.                          *)
(***************************************************************************)
EXTENDS Market, VyperCore_proofs

Slots == InitSlot .. MaxSlot

\* Each stamp names a slot in which the oracles showed the rate that it goes with: the stamp
\* of the rate program, and the copy that the config keeps with its prices.
Traced ==
  /\ TypeOK
  /\ slot \in Slots
  /\ shown \in [Slots -> SUBSET FairValues]
  /\ showing \in shown[slot]
  /\ rate_state.refreshed_slot \in InitSlot .. slot
  /\ rate_state.fair_value \in shown[rate_state.refreshed_slot]
  /\ tranche_fair_value.last_update \in InitSlot .. slot
  /\ reserve_fair_value.value \in shown[tranche_fair_value.last_update]

----------------------------------------------------------------------------

LEMMA SlotsAreNats == Slots \subseteq Nat /\ InitSlot \in Slots
BY BoundsAssumption, SlotsAssumption DEF Slots

LEMMA InitTraced == MarketInit => Traced
<1> SUFFICES ASSUME MarketInit PROVE Traced
  OBVIOUS
<1>1. Init
  BY DEF MarketInit
<1>2. TypeOK
  BY <1>1, InitTypeOK
<1>3. slot = InitSlot /\ slot \in Slots /\ slot \in InitSlot .. slot
  BY <1>1, SlotsAreNats, BoundsAssumption DEF Init
<1>4. showing \in FairValues /\ InitFairValue \in FairValues
  BY <1>2, RateAssumption DEF MarketInit, TypeOK
<1>5. /\ shown \in [Slots -> SUBSET FairValues]
      /\ shown[slot] = {InitFairValue, showing}
  BY <1>3, <1>4 DEF MarketInit, Slots
<1>6. /\ reserve_fair_value.value = InitFairValue
      /\ tranche_fair_value.last_update = slot
  BY <1>1 DEF Init
<1>7. rate_state.refreshed_slot = slot /\ rate_state.fair_value = showing
  BY DEF MarketInit
<1>8. QED
  BY <1>2, <1>3, <1>5, <1>6, <1>7 DEF Traced

\* The instructions that move tokens leave every stamp and every rate alone.
LEMMA TradesKeepTraced ==
  ASSUME Traced, TypeOK', UNCHANGED <<slot, rate_state, tracked, showing, shown>>
  PROVE  Traced'
BY DEF Traced, tracked

LEMMA RefreshKeepsTraced ==
  ASSUME Traced, NEW signer \in Users, RefreshTrancheFairValue(signer),
         UNCHANGED <<showing, shown>>
  PROVE  Traced'
<1>1. TypeOK'
  BY RefreshKeepsTypes DEF Traced
<1>2. UNCHANGED <<slot, rate_state>>
  BY DEF RefreshTrancheFairValue
<1>3. tranche_fair_value'.last_update = rate_state.refreshed_slot
  BY DEF RefreshTrancheFairValue, RateSlot, Traced, TypeOK, Tracked
<1>4. reserve_fair_value'.value = rate_state.fair_value
  BY DEF RefreshTrancheFairValue, RateSlot, Traced, TypeOK, Tracked
<1>5. QED
  BY <1>1, <1>2, <1>3, <1>4 DEF Traced

LEMMA UpdateKeepsTraced ==
  ASSUME Traced, NEW signer \in Users, NEW input \in UpdateInputs,
         UpdateTrancheData(signer, input), UNCHANGED <<showing, shown>>
  PROVE  Traced'
<1>1. TypeOK'
  BY UpdateKeepsTypes DEF Traced
<1>2. /\ reserve_fair_value'.value = reserve_fair_value.value
      /\ tranche_fair_value'.last_update = tranche_fair_value.last_update
      /\ UNCHANGED <<slot, rate_state>>
  BY DEF UpdateTrancheData, Traced, TypeOK, Tracked
<1>3. QED
  BY <1>1, <1>2 DEF Traced

LEMMA RefreshRateKeepsTraced ==
  ASSUME Traced, RefreshRate
  PROVE  Traced'
<1>1. /\ rate_state' = [fair_value |-> showing, refreshed_slot |-> slot]
      /\ UNCHANGED <<slot, shares, tracked, flags, tokens, showing, shown>>
  BY DEF RefreshRate, PublishRate, Traced, TypeOK
<1>2. showing \in FairValues
  BY DEF Traced
<1>3. TypeOK'
  BY <1>1, <1>2 DEF Traced, TypeOK, shares, tracked, flags, tokens
<1>4. slot \in InitSlot .. slot
  BY BoundsAssumption DEF Traced, Slots
<1>5. QED
  BY <1>1, <1>3, <1>4 DEF Traced, tracked

LEMMA ShowKeepsTraced ==
  ASSUME Traced, NEW value \in FairValues, Show(value)
  PROVE  Traced'
<1>1. UNCHANGED <<slot, rate_state, reserve_fair_value, tranche_fair_value>>
  BY DEF Show, vars, tracked
<1>2. TypeOK'
  BY EnvironmentKeepsTypes DEF Show, Traced
<1>3. shown' = [shown EXCEPT ![slot] = @ \union {value}] /\ showing' = value
  BY DEF Show, Showing
<1>4. /\ shown' \in [Slots -> SUBSET FairValues]
      /\ \A s \in Slots : shown[s] \subseteq shown'[s]
      /\ value \in shown'[slot]
  BY <1>3 DEF Traced
<1>5. rate_state.refreshed_slot \in Slots /\ tranche_fair_value.last_update \in Slots
  BY BoundsAssumption DEF Traced, Slots
<1>6. QED
  BY <1>1, <1>2, <1>3, <1>4, <1>5 DEF Traced

LEMMA NextSlotKeepsTraced ==
  ASSUME Traced, NextSlot
  PROVE  Traced'
<1>1. /\ slot' = slot + 1
      /\ slot' \in Slots
      /\ UNCHANGED <<rate_state, reserve_fair_value, tranche_fair_value, showing>>
  BY BoundsAssumption DEF NextSlot, Tick, Traced, Slots, tracked
<1>2. TypeOK'
  BY EnvironmentKeepsTypes DEF NextSlot, Traced
<1>3. shown' = [shown EXCEPT ![slot'] = @ \union {showing}]
  BY DEF NextSlot, Showing
<1>4. showing \in FairValues
  BY DEF Traced
<1>5. /\ shown' \in [Slots -> SUBSET FairValues]
      /\ \A s \in Slots : shown[s] \subseteq shown'[s]
      /\ showing \in shown'[slot']
  BY <1>1, <1>3, <1>4 DEF Traced
<1>6. rate_state.refreshed_slot \in Slots /\ tranche_fair_value.last_update \in Slots
  BY BoundsAssumption DEF Traced, Slots
<1>7. InitSlot .. slot \subseteq InitSlot .. slot'
  BY <1>1, BoundsAssumption DEF Traced, Slots
<1>8. QED
  BY <1>1, <1>2, <1>5, <1>6, <1>7 DEF Traced

LEMMA NextKeepsTraced == Traced /\ [MarketNext]_market_vars => Traced'
<1> SUFFICES ASSUME Traced, [MarketNext]_market_vars PROVE Traced'
  OBVIOUS
<1>1. ASSUME NEW signer \in Users, NEW dest \in Users,
             NEW quantity \in [Tranches -> Amounts], Deposit(signer, dest, quantity),
             UNCHANGED <<showing, shown>>
      PROVE  Traced'
  BY <1>1, DepositKeepsTypes, TradesKeepTraced DEF Deposit, Traced
<1>2. ASSUME NEW signer \in Users, NEW dest \in Accounts,
             NEW quantity \in [Tranches -> Amounts], Redeem(signer, dest, quantity),
             UNCHANGED <<showing, shown>>
      PROVE  Traced'
  BY <1>2, RedeemKeepsTypes, TradesKeepTraced DEF Redeem, Traced
<1>3. ASSUME NEW signer \in Users, NEW dest \in Accounts, CollectFee(signer, dest),
             UNCHANGED <<showing, shown>>
      PROVE  Traced'
  BY <1>3, CollectFeeKeepsTypes, TradesKeepTraced DEF CollectFee, Traced
<1>4. CASE CoreNext
  BY <1>1, <1>2, <1>3, <1>4, RefreshKeepsTraced, UpdateKeepsTraced DEF CoreNext
<1>5. CASE UNCHANGED market_vars
  <2>1. UNCHANGED vars /\ UNCHANGED <<showing, shown>>
    BY <1>5 DEF market_vars
  <2>2. TypeOK'
    BY <2>1, EnvironmentKeepsTypes DEF Traced
  <2>3. QED
    BY <2>1, <2>2, TradesKeepTraced DEF vars
<1>6. QED
  BY <1>4, <1>5, RefreshRateKeepsTraced, ShowKeepsTraced, NextSlotKeepsTraced DEF MarketNext

----------------------------------------------------------------------------

\* A trade finds its config's copy of the stamp recent, and the copy names a slot in which
\* the oracles did show the config's rate.
LEMMA FreshIsRecent ==
  ASSUME Traced, IsFresh(tranche_fair_value)
  PROVE  \E s \in RecentSlots : reserve_fair_value.value \in shown[s]
<1>1. tranche_fair_value.last_update \in RecentSlots
  BY DEF IsFresh, IsWithin, RecentSlots, Traced
<1>2. QED
  BY <1>1 DEF Traced

\* No other step mints or burns.
LEMMA OnlyTradesMint ==
  ASSUME [MarketNext]_market_vars, supply' # supply
  PROVE  IsFresh(tranche_fair_value)
<1>1. CASE CoreNext
  BY <1>1 DEF CoreNext, Deposit, Redeem, RefreshTrancheFairValue, CollectFee,
                UpdateTrancheData, tokens
<1>2. CASE RefreshRate \/ \E value \in FairValues : Show(value)
  BY <1>2 DEF RefreshRate, PublishRate, Show, vars, tokens
<1>3. CASE NextSlot \/ UNCHANGED market_vars
  BY <1>3 DEF NextSlot, Tick, market_vars, vars, tokens
<1>4. QED
  BY <1>1, <1>2, <1>3 DEF MarketNext

\* Whoever sends the refreshes, and whatever thresholds the owner sets, tranche tokens are
\* minted and burned only at a rate the oracles showed as recently as the config's threshold
\* demands, for every plugin and any number of slots.
THEOREM RatesAreRecent == MarketSpec => TradesAtRecentRates
<1>1. MarketInit => Traced
  BY InitTraced
<1>2. Traced /\ [MarketNext]_market_vars => Traced'
  BY NextKeepsTraced
<1>3. Traced /\ [MarketNext]_market_vars =>
        [supply' # supply =>
           \E s \in RecentSlots : reserve_fair_value.value \in shown[s]]_market_vars
  BY FreshIsRecent, OnlyTradesMint
<1>4. QED
  BY <1>1, <1>2, <1>3, PTL DEF MarketSpec, TradesAtRecentRates

=============================================================================
