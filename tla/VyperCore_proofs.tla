--------------------------- MODULE VyperCore_proofs -------------------------
(***************************************************************************)
(* Proofs about vyper-core for every rate program, every plugin that meets  *)
(* PluginAssumption, and every value of the bounds.                         *)
(***************************************************************************)
EXTENDS VyperCore, DecimalTheorems, TLAPS

----------------------------------------------------------------------------
(* Token transfers *)

LEMMA AmountsAreNats ==
  ASSUME NEW quantity \in [Tranches -> Amounts]
  PROVE  quantity \in [Tranches -> Nat]
<1>1. Amounts \subseteq Nat
  BY BoundsAssumption, MaxU64Assumption DEF U64
<1>2. QED
  BY <1>1

LEMMA TransferKeepsTypes ==
  ASSUME TypeOK, NEW from \in Accounts, NEW to \in Accounts, NEW amount \in Nat,
         Transfer(from, to, amount)
  PROVE  reserve_tokens' \in [Accounts -> Nat]
BY DEF TypeOK, Transfer

----------------------------------------------------------------------------
(* Type correctness *)

LEMMA NewPricesAreNats ==
  ASSUME TypeOK, NEW q \in Quantities
  PROVE  NewPrices(q) \in [Tranches -> Nat]
<1> SUFFICES ASSUME NEW i \in Tranches, supply[i] > 0
             PROVE  DecDiv(q[i], supply[i]) \in Nat
  BY DEF TypeOK, Tracked, NewPrices, Prices
<1>1. q[i] * SCALE \in Nat /\ supply[i] \in Nat \ {0}
  BY ScaleAssumption, MaxU64Assumption DEF TypeOK, Quantities, U64
<1>2. QED
  BY <1>1, RoundingIsNat DEF DecDiv

LEMMA InitTypeOK == Init => TypeOK
<1> SUFFICES ASSUME Init PROVE TypeOK
  OBVIOUS
<1>1. Split(0, 0) \in Quantities /\ Split(One, One) \in [Tranches -> Nat]
  BY ScaleAssumption, MaxU64Assumption DEF Split, Quantities, U64, One
<1>2. Split(None, None) \in Caps
  BY DEF Split, Caps
<1>3. reserve_tokens \in [Accounts -> Nat]
  BY UsersAssumption DEF Init, Accounts
<1>4. tranche_tokens \in [Users -> [Tranches -> Nat]]
  BY DEF Init, Split
<1>5. fee_to_collect_quantity \in U64
  BY MaxU64Assumption DEF Init, U64
<1>6. /\ reserve_fair_value \in Tracked(FairValues)
      /\ tranche_fair_value \in Tracked([Tranches -> Nat])
  BY <1>1, RateAssumption, BoundsAssumption DEF Init, Tracked
<1>7. rate_state \in [fair_value : FairValues, refreshed_slot : 0 .. slot]
  BY RateAssumption DEF Init
<1>8. QED
  BY <1>1, <1>2, <1>3, <1>4, <1>5, <1>6, <1>7, BoundsAssumption DEF Init, TypeOK

LEMMA DepositKeepsTypes ==
  ASSUME TypeOK, NEW signer \in Users, NEW dest \in Users,
         NEW quantity \in [Tranches -> Amounts], Deposit(signer, dest, quantity)
  PROVE  TypeOK'
<1>1. quantity \in Quantities
  BY BoundsAssumption DEF Quantities
<1>2. Total(quantity) \in Nat
  BY <1>1, MaxU64Assumption DEF Deposit, U64
<1>3. reserve_tokens' \in [Accounts -> Nat]
  BY <1>2, TransferKeepsTypes DEF Deposit, Accounts
<1>4. ASSUME NEW i \in Tranches
      PROVE  MintCount(quantity[i], Prices[i]) \in Nat
  <2>1. Prices[i] \in Nat \ {0}
    BY DEF Deposit, CanMint, TypeOK, Tracked, Prices
  <2>2. quantity[i] * SCALE * SCALE \in Nat
    BY <1>1, ScaleAssumption, MaxU64Assumption DEF Quantities, U64
  <2>3. QED
    BY <2>1, <2>2, RoundingIsNat, DivIsNat, ScaleAssumption
    DEF MintCount, DecFloor, DecDiv, Dec
<1>5. tranche_tokens' \in [Users -> [Tranches -> Nat]]
  BY <1>4 DEF Deposit, TypeOK
<1>6. QED
  BY <1>3, <1>5 DEF Deposit, TypeOK, tracked, flags

LEMMA RedeemKeepsTypes ==
  ASSUME TypeOK, NEW signer \in Users, NEW dest \in Accounts,
         NEW quantity \in [Tranches -> Amounts], Redeem(signer, dest, quantity)
  PROVE  TypeOK'
<1> DEFINE paid == [i \in Tranches |-> RedeemValue(quantity[i], Prices[i])]
<1>1. quantity \in [Tranches -> Nat]
  BY AmountsAreNats
<1>2. reserve_tokens' \in [Accounts -> Nat]
  <2>1. Total(paid) \in Nat
    BY MaxU64Assumption DEF Redeem, U64
  <2>2. Transfer(Vault, dest, Total(paid))
    BY DEF Redeem
  <2>3. QED
    BY <2>1, <2>2, TransferKeepsTypes DEF Accounts
<1>3. tranche_tokens' \in [Users -> [Tranches -> Nat]]
  BY <1>1 DEF Redeem, TypeOK
<1>4. QED
  BY <1>2, <1>3 DEF Redeem, TypeOK, tracked, flags

LEMMA RefreshKeepsTypes ==
  ASSUME TypeOK, NEW signer \in Users, RefreshTrancheFairValue(signer)
  PROVE  TypeOK'
<1>1. PICK result \in ExecutePlugin(deposited_quantity, OldRate, rate_state.fair_value) :
        /\ fee_to_collect_quantity' \in U64
        /\ deposited_quantity' = result.new_quantity
        /\ tranche_fair_value' = [tranche_fair_value EXCEPT
             !.value = NewPrices(result.new_quantity),
             !.last_update = rate_state.refreshed_slot]
  BY DEF RefreshTrancheFairValue, RateSlot
<1>2. result \in RedeemLogicExecuteResult
  BY PluginAssumption DEF TypeOK, Tracked, OldRate
<1>3. result.new_quantity \in Quantities
  BY <1>2 DEF RedeemLogicExecuteResult
<1>4. NewPrices(result.new_quantity) \in [Tranches -> Nat]
  BY <1>3, NewPricesAreNats
<1>5. rate_state.refreshed_slot \in Nat /\ rate_state.fair_value \in FairValues
  BY DEF TypeOK
<1>6. tranche_fair_value' \in Tracked([Tranches -> Nat])
  BY <1>1, <1>4, <1>5 DEF TypeOK, Tracked
<1>7. reserve_fair_value' \in Tracked(FairValues)
  BY <1>5 DEF RefreshTrancheFairValue, RateSlot, TypeOK, Tracked
<1>8. QED
  BY <1>1, <1>3, <1>6, <1>7 DEF RefreshTrancheFairValue, RateSlot, TypeOK, flags, tokens

LEMMA CollectFeeKeepsTypes ==
  ASSUME TypeOK, NEW signer \in Users, NEW dest \in Accounts, CollectFee(signer, dest)
  PROVE  TypeOK'
<1>1. fee_to_collect_quantity \in Nat /\ 0 \in U64
  BY MaxU64Assumption DEF TypeOK, U64
<1>2. reserve_tokens' \in [Accounts -> Nat]
  BY <1>1, TransferKeepsTypes DEF CollectFee, Accounts
<1>3. QED
  BY <1>1, <1>2 DEF CollectFee, TypeOK, tracked, flags

LEMMA UpdateKeepsTypes ==
  ASSUME TypeOK, NEW signer \in Users, NEW input \in UpdateInputs,
         UpdateTrancheData(signer, input)
  PROVE  TypeOK'
<1>1. deposit_cap' \in Caps
  BY InputsAssumption DEF UpdateTrancheData, TypeOK
<1>2. reserve_fair_value' \in Tracked(FairValues)
  BY InputsAssumption DEF UpdateTrancheData, TypeOK, Tracked
<1>3. tranche_fair_value' \in Tracked([Tranches -> Nat])
  BY InputsAssumption DEF UpdateTrancheData, TypeOK, Tracked
<1>4. QED
  BY <1>1, <1>2, <1>3 DEF UpdateTrancheData, TypeOK, ValidHaltFlags, shares, tokens

LEMMA EnvironmentKeepsTypes ==
  ASSUME TypeOK,
         \/ \E value \in FairValues, delay \in RateDelays : PublishRate(value, delay)
         \/ Tick
         \/ UNCHANGED vars
  PROVE  TypeOK'
<1>1. ASSUME NEW value \in FairValues, NEW delay \in RateDelays, PublishRate(value, delay)
      PROVE  TypeOK'
  <2>1. slot - delay \in 0 .. slot
    BY <1>1, RateAssumption DEF PublishRate, TypeOK
  <2>2. QED
    BY <1>1, <2>1 DEF PublishRate, TypeOK, shares, tracked, flags, tokens
<1>2. CASE Tick
  BY <1>2 DEF Tick, TypeOK, shares, tracked, flags, tokens
<1>3. CASE UNCHANGED vars
  BY <1>3 DEF vars, TypeOK, shares, tracked, flags, tokens
<1>4. QED
  BY <1>1, <1>2, <1>3

\* Every reachable state of the config and of the token accounts is well typed: every
\* stored quantity fits 64 bits, the stored flags are ones from_bits accepts (so that no
\* later instruction fails on reading them), and no rate is from the future.
THEOREM TypeCorrect == Spec => []TypeOK
<1>1. Init => TypeOK
  BY InitTypeOK
<1>2. TypeOK /\ [Next]_vars => TypeOK'
  BY DepositKeepsTypes, RedeemKeepsTypes, RefreshKeepsTypes, CollectFeeKeepsTypes,
     UpdateKeepsTypes, EnvironmentKeepsTypes DEF Next
<1>3. QED
  BY <1>1, <1>2, PTL DEF Spec

----------------------------------------------------------------------------
(* Solvency *)

\* A transfer out of the vault, or into it, takes from it at most the amount.
LEMMA TransferFromVault ==
  ASSUME TypeOK, NEW to \in Accounts, NEW amount \in Nat, Transfer(Vault, to, amount)
  PROVE  reserve_tokens'[Vault] >= reserve_tokens[Vault] - amount
BY DEF TypeOK, Transfer, Accounts

LEMMA TransferToVault ==
  ASSUME TypeOK, NEW from \in Users, NEW amount \in Nat, Transfer(from, Vault, amount)
  PROVE  reserve_tokens'[Vault] = reserve_tokens[Vault] + amount
BY UsersAssumption DEF TypeOK, Transfer, Accounts

LEMMA InitSolvency == Init => Solvency
BY DEF Init, Solvency, Total, Split, Tranches, Accounts

LEMMA DepositKeepsSolvency ==
  ASSUME TypeOK, Solvency, NEW signer \in Users, NEW dest \in Users,
         NEW quantity \in [Tranches -> Amounts], Deposit(signer, dest, quantity)
  PROVE  Solvency'
<1>1. quantity[0] \in Nat /\ quantity[1] \in Nat
  BY AmountsAreNats DEF Tranches
<1>2. deposited_quantity[0] \in Nat /\ deposited_quantity[1] \in Nat
  BY MaxU64Assumption DEF TypeOK, Quantities, U64, Tranches
<1>3. reserve_tokens'[Vault] = reserve_tokens[Vault] + Total(quantity)
  BY <1>1, TransferToVault DEF Deposit, Total
<1>4. Total(deposited_quantity') = Total(deposited_quantity) + Total(quantity)
  BY <1>1, <1>2 DEF Deposit, Total, Tranches
<1>5. QED
  BY <1>1, <1>2, <1>3, <1>4, MaxU64Assumption
  DEF Deposit, Solvency, TypeOK, U64, Accounts, Total

LEMMA RedeemKeepsSolvency ==
  ASSUME TypeOK, Solvency, NEW signer \in Users, NEW dest \in Accounts,
         NEW quantity \in [Tranches -> Amounts], Redeem(signer, dest, quantity)
  PROVE  Solvency'
<1> DEFINE paid == [i \in Tranches |-> RedeemValue(quantity[i], Prices[i])]
<1>1. Total(paid) \in Nat /\ Transfer(Vault, dest, Total(paid))
  BY MaxU64Assumption DEF Redeem, U64
<1>2. paid[0] \in Int /\ paid[1] \in Int
  <2>1. ASSUME NEW i \in Tranches PROVE paid[i] \in Int
    <3>1. quantity[i] * Prices[i] \in Int
      BY AmountsAreNats DEF TypeOK, Tracked, Prices
    <3>2. QED
      BY <3>1, ScaleAssumption DEF RedeemValue, DecFloor
  <2>2. QED
    BY <2>1 DEF Tranches
<1>3. deposited_quantity[0] \in Nat /\ deposited_quantity[1] \in Nat
  BY MaxU64Assumption DEF TypeOK, Quantities, U64, Tranches
<1>4. Total(deposited_quantity') = Total(deposited_quantity) - Total(paid)
  BY <1>2, <1>3 DEF Redeem, Total, Tranches
<1>5. reserve_tokens'[Vault] >= reserve_tokens[Vault] - Total(paid)
  BY <1>1, TransferFromVault
<1>6. reserve_tokens'[Vault] \in Nat
  BY RedeemKeepsTypes DEF TypeOK, Accounts
<1>7. QED
  <2> HIDE DEF paid
  <2> QED
    BY <1>1, <1>3, <1>4, <1>5, <1>6, MaxU64Assumption
    DEF Redeem, Solvency, TypeOK, U64, Accounts, Total

LEMMA RefreshKeepsSolvency ==
  ASSUME TypeOK, Solvency, NEW signer \in Users, RefreshTrancheFairValue(signer)
  PROVE  Solvency'
<1>1. PICK result \in ExecutePlugin(deposited_quantity, OldRate, rate_state.fair_value) :
        /\ fee_to_collect_quantity' = fee_to_collect_quantity + result.fee_quantity
        /\ deposited_quantity' = result.new_quantity
  BY DEF RefreshTrancheFairValue, RateSlot
<1>2. result \in RedeemLogicExecuteResult /\ Conserves(deposited_quantity, result)
  BY PluginAssumption DEF TypeOK, Tracked, OldRate
<1>3. result.new_quantity \in Quantities /\ result.fee_quantity \in U64
  BY <1>2 DEF RedeemLogicExecuteResult
<1>4. /\ Total(result.new_quantity) \in Nat
      /\ Total(deposited_quantity) \in Nat
      /\ result.fee_quantity \in Nat
      /\ fee_to_collect_quantity \in Nat
  BY <1>3, MaxU64Assumption DEF Total, Quantities, U64, Tranches, TypeOK
<1>5. Total(deposited_quantity) = Total(result.new_quantity) + result.fee_quantity
  BY <1>2 DEF Conserves
<1>6. reserve_tokens' = reserve_tokens
  BY DEF RefreshTrancheFairValue, RateSlot, tokens
<1>7. QED
  BY <1>1, <1>4, <1>5, <1>6 DEF Solvency

LEMMA CollectFeeKeepsSolvency ==
  ASSUME TypeOK, Solvency, NEW signer \in Users, NEW dest \in Accounts,
         CollectFee(signer, dest)
  PROVE  Solvency'
<1>1. fee_to_collect_quantity \in Nat /\ Total(deposited_quantity) \in Nat
  BY MaxU64Assumption DEF TypeOK, U64, Quantities, Total, Tranches
<1>2. reserve_tokens'[Vault] >= reserve_tokens[Vault] - fee_to_collect_quantity
  BY <1>1, TransferFromVault DEF CollectFee
<1>3. reserve_tokens[Vault] \in Nat /\ reserve_tokens'[Vault] \in Nat
  BY CollectFeeKeepsTypes DEF TypeOK, Accounts
<1>4. QED
  BY <1>1, <1>2, <1>3 DEF CollectFee, Solvency

LEMMA OthersKeepSolvency ==
  ASSUME Solvency,
         UNCHANGED <<deposited_quantity, fee_to_collect_quantity, reserve_tokens>>
  PROVE  Solvency'
BY DEF Solvency, Total

\* The vault covers the holdings of both tranches and the fees owed in every reachable
\* state: whatever rates are published, and whatever the plugin answers as long as its
\* answer shares out what the tranches held (PluginAssumption).
THEOREM VaultSolvent == Spec => []Solvency
<1>1. Init => Solvency
  BY InitSolvency
<1>2. ASSUME TypeOK, Solvency, [Next]_vars PROVE Solvency'
  <2>1. CASE \E signer, dest \in Users, quantity \in [Tranches -> Amounts] :
               Deposit(signer, dest, quantity)
    BY <1>2, <2>1, DepositKeepsSolvency
  <2>2. CASE \E signer \in Users, dest \in Accounts, quantity \in [Tranches -> Amounts] :
               Redeem(signer, dest, quantity)
    BY <1>2, <2>2, RedeemKeepsSolvency
  <2>3. CASE \E signer \in Users : RefreshTrancheFairValue(signer)
    BY <1>2, <2>3, RefreshKeepsSolvency
  <2>4. CASE \E signer \in Users, dest \in Accounts : CollectFee(signer, dest)
    BY <1>2, <2>4, CollectFeeKeepsSolvency
  <2>5. CASE \E signer \in Users, input \in UpdateInputs : UpdateTrancheData(signer, input)
    BY <1>2, <2>5, OthersKeepSolvency DEF UpdateTrancheData, shares, tokens
  <2>6. CASE \E value \in FairValues, delay \in RateDelays : PublishRate(value, delay)
    BY <1>2, <2>6, OthersKeepSolvency DEF PublishRate, shares, tokens
  <2>7. CASE Tick
    BY <1>2, <2>7, OthersKeepSolvency DEF Tick, shares, tokens
  <2>8. CASE UNCHANGED vars
    BY <1>2, <2>8, OthersKeepSolvency DEF vars, shares, tokens
  <2>9. QED
    BY <1>2, <2>1, <2>2, <2>3, <2>4, <2>5, <2>6, <2>7, <2>8 DEF Next
<1>3. QED
  BY <1>1, <1>2, TypeCorrect, PTL DEF Spec

----------------------------------------------------------------------------
(* Action properties *)

\* What each instruction leaves alone, or moves in one direction only.
LEMMA RefreshTouchesNoToken ==
  ASSUME NEW signer \in Users, RefreshTrancheFairValue(signer)
  PROVE  UNCHANGED tokens
BY DEF RefreshTrancheFairValue, RateSlot

LEMMA PaymentsDoNotFillVault ==
  ASSUME TypeOK, NEW to \in Accounts, NEW amount \in Nat, Transfer(Vault, to, amount)
  PROVE  reserve_tokens'[Vault] <= reserve_tokens[Vault]
BY DEF TypeOK, Transfer, Accounts

LEMMA RedeemDoesNotFillVault ==
  ASSUME TypeOK, NEW signer \in Users, NEW dest \in Accounts,
         NEW quantity \in [Tranches -> Amounts], Redeem(signer, dest, quantity)
  PROVE  reserve_tokens'[Vault] <= reserve_tokens[Vault]
<1> DEFINE paid == [i \in Tranches |-> RedeemValue(quantity[i], Prices[i])]
<1>1. Total(paid) \in Nat /\ Transfer(Vault, dest, Total(paid))
  BY MaxU64Assumption DEF Redeem, U64
<1>2. QED
  BY <1>1, PaymentsDoNotFillVault

LEMMA RedeemBurns ==
  ASSUME TypeOK, NEW signer \in Users, NEW dest \in Accounts,
         NEW quantity \in [Tranches -> Amounts], Redeem(signer, dest, quantity)
  PROVE  \A i \in Tranches : supply'[i] <= supply[i]
<1>1. \A i \in Tranches : quantity[i] \in Nat /\ supply[i] \in Nat
  BY AmountsAreNats, MaxU64Assumption DEF TypeOK, Quantities, U64
<1>2. QED
  BY <1>1 DEF Redeem

LEMMA DepositMints ==
  ASSUME TypeOK, NEW signer \in Users, NEW dest \in Users,
         NEW quantity \in [Tranches -> Amounts], Deposit(signer, dest, quantity)
  PROVE  \A i \in Tranches : supply'[i] >= supply[i]
<1> TAKE i \in Tranches
<1>1. quantity[i] * SCALE * SCALE \in Nat
  BY AmountsAreNats, ScaleAssumption
<1>2. Prices[i] \in Nat \ {0}
  BY DEF Deposit, CanMint, TypeOK, Tracked, Prices
<1>3. MintCount(quantity[i], Prices[i]) \in Nat
  BY <1>1, <1>2, RoundingIsNat, DivIsNat, ScaleAssumption
  DEF MintCount, DecFloor, DecDiv, Dec
<1>4. supply[i] \in Nat
  BY MaxU64Assumption DEF TypeOK, Quantities, U64
<1>5. QED
  BY <1>3, <1>4 DEF Deposit

\* A deposit is the only step that adds to the vault, and it respects the cap of both
\* tranches, of the one it does not touch as well.
THEOREM DepositsStop == Spec => DepositsStopAtEveryCap
<1> DEFINE Capped ==
      reserve_tokens'[Vault] > reserve_tokens[Vault] =>
        \A i \in Tranches :
          deposit_cap[i] # None => deposited_quantity'[i] <= deposit_cap[i]
<1>1. ASSUME TypeOK, [Next]_vars PROVE Capped
  <2>1. CASE \E signer, dest \in Users, quantity \in [Tranches -> Amounts] :
               Deposit(signer, dest, quantity)
    BY <2>1 DEF Deposit, CapAllows
  <2>2. CASE \E signer \in Users, dest \in Accounts, quantity \in [Tranches -> Amounts] :
               Redeem(signer, dest, quantity)
    <3>1. reserve_tokens'[Vault] <= reserve_tokens[Vault]
      BY <1>1, <2>2, RedeemDoesNotFillVault
    <3>2. reserve_tokens'[Vault] \in Nat /\ reserve_tokens[Vault] \in Nat
      BY <1>1, <2>2, RedeemKeepsTypes DEF TypeOK, Accounts
    <3>3. QED
      BY <3>1, <3>2
  <2>3. CASE \E signer \in Users : RefreshTrancheFairValue(signer)
    BY <1>1, <2>3 DEF RefreshTrancheFairValue, RateSlot, tokens, TypeOK, Accounts
  <2>4. CASE \E signer \in Users, dest \in Accounts : CollectFee(signer, dest)
    <3>1. fee_to_collect_quantity \in Nat
      BY <1>1, MaxU64Assumption DEF TypeOK, U64
    <3>2. reserve_tokens'[Vault] <= reserve_tokens[Vault]
      BY <1>1, <2>4, <3>1, PaymentsDoNotFillVault DEF CollectFee
    <3>3. reserve_tokens'[Vault] \in Nat /\ reserve_tokens[Vault] \in Nat
      BY <1>1, <2>4, CollectFeeKeepsTypes DEF TypeOK, Accounts
    <3>4. QED
      BY <3>2, <3>3
  <2>5. CASE \/ \E signer \in Users, input \in UpdateInputs : UpdateTrancheData(signer, input)
             \/ \E value \in FairValues, delay \in RateDelays : PublishRate(value, delay)
             \/ Tick
             \/ UNCHANGED vars
    BY <1>1, <2>5 DEF UpdateTrancheData, PublishRate, Tick, vars, tokens, TypeOK, Accounts
  <2>6. QED
    BY <1>1, <2>1, <2>2, <2>3, <2>4, <2>5 DEF Next
<1>2. QED
  BY <1>1, TypeCorrect, PTL DEF Spec, DepositsStopAtEveryCap

\* The steps that neither mint, nor burn, nor reprice: all but Deposit, Redeem and the refresh.
LEMMA OtherSteps ==
  ASSUME TypeOK, [Next]_vars
  PROVE  \/ \E signer, dest \in Users, quantity \in [Tranches -> Amounts] :
              Deposit(signer, dest, quantity)
         \/ \E signer \in Users, dest \in Accounts, quantity \in [Tranches -> Amounts] :
              Redeem(signer, dest, quantity)
         \/ \E signer \in Users : RefreshTrancheFairValue(signer)
         \/ \E signer \in Users, dest \in Accounts : CollectFee(signer, dest)
         \/ /\ UNCHANGED <<shares, reserve_tokens, supply>>
            /\ Prices' = Prices
            /\ reserve_fair_value'.value = reserve_fair_value.value
<1>1. ASSUME NEW signer \in Users, NEW input \in UpdateInputs, UpdateTrancheData(signer, input)
      PROVE  Prices' = Prices /\ reserve_fair_value'.value = reserve_fair_value.value
  BY <1>1 DEF UpdateTrancheData, Prices, TypeOK, Tracked
<1>2. QED
  BY <1>1 DEF Next, UpdateTrancheData, PublishRate, Tick, vars, tracked, shares, tokens, Prices

\* Each halt flag stops all of what it names: halted deposits neither mint nor fill the
\* vault, halted redemptions burn nothing, halted refreshes change no price and no fee.
THEOREM HaltsStop == Spec => HaltsHold
<1> DEFINE Held ==
      /\ "HALT_DEPOSITS" \in halt_flags =>
           /\ reserve_tokens'[Vault] <= reserve_tokens[Vault]
           /\ \A i \in Tranches : supply'[i] <= supply[i]
      /\ "HALT_REDEEMS" \in halt_flags => \A i \in Tranches : supply'[i] >= supply[i]
      /\ "HALT_REFRESHES" \in halt_flags =>
           /\ Prices' = Prices
           /\ reserve_fair_value'.value = reserve_fair_value.value
           /\ fee_to_collect_quantity' <= fee_to_collect_quantity
<1>1. ASSUME TypeOK, [Next]_vars PROVE Held
  <2>1. /\ reserve_tokens[Vault] \in Nat
        /\ \A i \in Tranches : supply[i] \in Nat
        /\ fee_to_collect_quantity \in Nat
    BY <1>1, MaxU64Assumption DEF TypeOK, Accounts, Quantities, U64
  <2>2. CASE \E signer, dest \in Users, quantity \in [Tranches -> Amounts] :
               Deposit(signer, dest, quantity)
    <3>1. \A i \in Tranches : supply'[i] >= supply[i]
      BY <1>1, <2>2, DepositMints
    <3>2. "HALT_DEPOSITS" \notin halt_flags /\ UNCHANGED <<tracked, fee_to_collect_quantity>>
      BY <2>2 DEF Deposit
    <3>3. QED
      BY <2>1, <3>1, <3>2 DEF tracked, Prices
  <2>3. CASE \E signer \in Users, dest \in Accounts, quantity \in [Tranches -> Amounts] :
               Redeem(signer, dest, quantity)
    <3>1. /\ \A i \in Tranches : supply'[i] <= supply[i]
          /\ reserve_tokens'[Vault] <= reserve_tokens[Vault]
      BY <1>1, <2>3, RedeemBurns, RedeemDoesNotFillVault
    <3>2. "HALT_REDEEMS" \notin halt_flags /\ UNCHANGED <<tracked, fee_to_collect_quantity>>
      BY <2>3 DEF Redeem, RedeemsOpen
    <3>3. QED
      BY <2>1, <3>1, <3>2 DEF tracked, Prices
  <2>4. CASE \E signer \in Users : RefreshTrancheFairValue(signer)
    BY <2>1, <2>4 DEF RefreshTrancheFairValue, RateSlot, tokens
  <2>5. CASE \E signer \in Users, dest \in Accounts : CollectFee(signer, dest)
    <3>1. reserve_tokens'[Vault] <= reserve_tokens[Vault]
      BY <1>1, <2>1, <2>5, PaymentsDoNotFillVault DEF CollectFee
    <3>2. UNCHANGED <<tracked, supply>> /\ fee_to_collect_quantity' = 0
      BY <2>5 DEF CollectFee
    <3>3. QED
      BY <2>1, <3>1, <3>2 DEF tracked, Prices
  <2>6. CASE /\ UNCHANGED <<shares, reserve_tokens, supply>>
             /\ Prices' = Prices
             /\ reserve_fair_value'.value = reserve_fair_value.value
    BY <2>1, <2>6 DEF shares
  <2>7. QED
    BY <1>1, <2>2, <2>3, <2>4, <2>5, <2>6, OtherSteps
<1>2. QED
  BY <1>1, TypeCorrect, PTL DEF Spec, HaltsHold

\* With a plugin that changes nothing at an unchanged rate, refreshing again at a rate that is
\* applied already moves nothing between the tranches, charges no fee and leaves the prices
\* of the books as they are: neither a deposit nor a redemption is mistaken for a refresh
\* (each moves a token), and no other step touches the books but to pay the fees out.
\* LendingIsNeutral shows the hypothesis of the lending plugin; the forward does not meet it.
THEOREM NeutralPluginNeutralRefresh ==
  ASSUME \A q \in Quantities, value \in FairValues :
           \A result \in ExecutePlugin(q, value, value) : result.new_quantity = q
  PROVE  Spec => RepeatedRefreshIsNeutral
<1> DEFINE Neutral ==
      reserve_tokens' = reserve_tokens /\ supply' = supply
        /\ reserve_fair_value.value = rate_state.fair_value
      => /\ deposited_quantity' = deposited_quantity
         /\ fee_to_collect_quantity' <= fee_to_collect_quantity
         /\ Prices = NewPrices(deposited_quantity) => Prices' = Prices
<1>1. ASSUME TypeOK, [Next]_vars PROVE Neutral
  <2>1. CASE \E signer, dest \in Users, quantity \in [Tranches -> Amounts] :
               Deposit(signer, dest, quantity)
    <3>1. PICK signer \in Users, dest \in Users, quantity \in [Tranches -> Amounts] :
            Deposit(signer, dest, quantity)
      BY <2>1
    <3>2. Total(quantity) \in Nat \ {0}
      BY <3>1, MaxU64Assumption DEF Deposit, U64
    <3>3. reserve_tokens'[Vault] = reserve_tokens[Vault] + Total(quantity)
      BY <1>1, <3>1, <3>2, TransferToVault DEF Deposit
    <3>4. reserve_tokens[Vault] \in Nat
      BY <1>1 DEF TypeOK, Accounts
    <3>5. reserve_tokens' # reserve_tokens
      BY <3>2, <3>3, <3>4
    <3>6. QED
      BY <3>5
  <2>2. CASE \E signer \in Users, dest \in Accounts, quantity \in [Tranches -> Amounts] :
               Redeem(signer, dest, quantity)
    <3>1. PICK signer \in Users, dest \in Accounts, quantity \in [Tranches -> Amounts] :
            Redeem(signer, dest, quantity)
      BY <2>2
    <3>2. quantity[0] \in Nat /\ quantity[1] \in Nat /\ quantity[0] + quantity[1] # 0
      BY <3>1, AmountsAreNats DEF Redeem, Total, Tranches
    <3>3. PICK i \in Tranches : quantity[i] \in Nat /\ quantity[i] # 0
      BY <3>2 DEF Tranches
    <3>4. supply'[i] = supply[i] - quantity[i] /\ supply[i] \in Nat
      BY <1>1, <3>1, MaxU64Assumption DEF Redeem, TypeOK, Quantities, U64
    <3>5. supply' # supply
      BY <3>3, <3>4
    <3>6. QED
      BY <3>5
  <2>3. CASE \E signer \in Users : RefreshTrancheFairValue(signer)
    <3>1. SUFFICES ASSUME reserve_fair_value.value = rate_state.fair_value
                   PROVE  /\ deposited_quantity' = deposited_quantity
                          /\ fee_to_collect_quantity' <= fee_to_collect_quantity
                          /\ Prices = NewPrices(deposited_quantity) => Prices' = Prices
      OBVIOUS
    <3>2. PICK result \in ExecutePlugin(deposited_quantity, OldRate, rate_state.fair_value) :
            /\ deposited_quantity' = result.new_quantity
            /\ fee_to_collect_quantity' = fee_to_collect_quantity + result.fee_quantity
            /\ tranche_fair_value' = [tranche_fair_value EXCEPT
                 !.value = NewPrices(result.new_quantity), !.last_update = RateSlot]
      BY <2>3 DEF RefreshTrancheFairValue
    <3>3. /\ OldRate = rate_state.fair_value
          /\ OldRate \in FairValues /\ deposited_quantity \in Quantities
      BY <1>1, <3>1 DEF OldRate, TypeOK
    <3>4. result.new_quantity = deposited_quantity
      BY <3>2, <3>3
    <3>5. result.fee_quantity = 0
      <4>1. /\ Total(deposited_quantity) = Total(result.new_quantity) + result.fee_quantity
            /\ result.fee_quantity \in Nat
        BY <3>2, <3>3, PluginAssumption, MaxU64Assumption
           DEF Conserves, RedeemLogicExecuteResult, U64
      <4>2. Total(deposited_quantity) \in Nat
        BY <3>3, MaxU64Assumption DEF Total, Quantities, Tranches, U64
      <4>3. QED
        BY <3>4, <4>1, <4>2
    <3>6. fee_to_collect_quantity \in Nat
      BY <1>1, MaxU64Assumption DEF TypeOK, U64
    <3>7. Prices' = NewPrices(result.new_quantity)
      BY <1>1, <3>2 DEF Prices, TypeOK, Tracked
    <3>8. QED
      BY <3>2, <3>4, <3>5, <3>6, <3>7
  <2>4. CASE \E signer \in Users, dest \in Accounts : CollectFee(signer, dest)
    <3>1. /\ UNCHANGED <<deposited_quantity, tracked>> /\ fee_to_collect_quantity' = 0
      BY <2>4 DEF CollectFee
    <3>2. fee_to_collect_quantity \in Nat
      BY <1>1, MaxU64Assumption DEF TypeOK, U64
    <3>3. QED
      BY <3>1, <3>2 DEF tracked, Prices
  <2>5. CASE /\ UNCHANGED <<shares, reserve_tokens, supply>>
             /\ Prices' = Prices
             /\ reserve_fair_value'.value = reserve_fair_value.value
    <3>1. UNCHANGED <<deposited_quantity, fee_to_collect_quantity>> /\ Prices' = Prices
      BY <2>5 DEF shares
    <3>2. fee_to_collect_quantity \in Nat
      BY <1>1, MaxU64Assumption DEF TypeOK, U64
    <3>3. QED
      BY <3>1, <3>2
  <2>6. QED
    BY <1>1, <2>1, <2>2, <2>3, <2>4, <2>5, OtherSteps
<1>2. QED
  BY <1>1, TypeCorrect, PTL DEF Spec, RepeatedRefreshIsNeutral

\* A wiped out tranche that nobody holds is never repriced, and closes deposits to the
\* other tranche too, for good.
THEOREM WipeOutIsFinal == Spec => WipedOutForever
<1> DEFINE Final ==
      \A i \in Tranches : supply[i] = 0 /\ Prices[i] = 0 =>
        /\ Prices'[i] = 0
        /\ \A j \in Tranches : supply'[j] <= supply[j]
<1>1. ASSUME TypeOK, [Next]_vars PROVE Final
  <2>1. \A i \in Tranches : supply[i] \in Nat
    BY <1>1, MaxU64Assumption DEF TypeOK, Quantities, U64
  <2>2. CASE \E signer, dest \in Users, quantity \in [Tranches -> Amounts] :
               Deposit(signer, dest, quantity)
    BY <2>2 DEF Deposit, CanMint
  <2>3. CASE \E signer \in Users, dest \in Accounts, quantity \in [Tranches -> Amounts] :
               Redeem(signer, dest, quantity)
    <3>1. \A i \in Tranches : supply'[i] <= supply[i]
      BY <1>1, <2>3, RedeemBurns
    <3>2. Prices' = Prices
      BY <2>3 DEF Redeem, tracked, Prices
    <3>3. QED
      BY <3>1, <3>2
  <2>4. CASE \E signer \in Users : RefreshTrancheFairValue(signer)
    <3>1. \E q : Prices' = NewPrices(q)
      BY <1>1, <2>4 DEF RefreshTrancheFairValue, RateSlot, Prices, TypeOK, Tracked
    <3>2. supply' = supply
      BY <2>4 DEF RefreshTrancheFairValue, RateSlot, tokens
    <3>3. QED
      BY <2>1, <3>1, <3>2 DEF NewPrices
  <2>5. CASE \/ \E signer \in Users, dest \in Accounts : CollectFee(signer, dest)
             \/ UNCHANGED supply /\ Prices' = Prices
    BY <2>1, <2>5 DEF CollectFee, tracked, Prices
  <2>6. QED
    BY <1>1, <2>2, <2>3, <2>4, <2>5, OtherSteps
<1>2. QED
  BY <1>1, TypeCorrect, PTL DEF Spec, WipedOutForever

----------------------------------------------------------------------------
(* Rounding against the holders *)

\* The tokens minted for a deposit, at any price: no more of them could be paid for, and
\* they are worth no more than was paid but for the rounding of one quotient.
LEMMA MintedWithinRounding ==
  ASSUME NEW quantity \in Nat, NEW price \in Nat \ {0}
  PROVE  /\ MintCount(quantity, price) \in Nat
         /\ SCALE * quantity < (MintCount(quantity, price) + 1) * price
         /\ 2 * SCALE * (MintCount(quantity, price) * price - SCALE * quantity) <= price
<1> DEFINE n == quantity * SCALE * SCALE
           r == RoundHalfEven(n, price)
           m == DecFloor(r)
           excess == m * price - SCALE * quantity
           short  == (m + 1) * price - SCALE * quantity
<1>1. n \in Nat
  BY ScaleAssumption
<1>2. r \in Nat /\ 2 * (price * r - n) <= price /\ 2 * (n - price * r) <= price
  BY <1>1, RoundingIsNat, RoundingError
<1>3. m \in Nat /\ SCALE * m <= r /\ r < SCALE * m + SCALE
  <2> HIDE DEF r
  <2>1. QED
    BY <1>2, FloorFact, DivIsNat, ScaleAssumption DEF DecFloor
<1>4. MintCount(quantity, price) = m
  BY DEF MintCount, DecDiv, Dec
<1>5. excess \in Int /\ short \in Int
  BY <1>3, ScaleAssumption
<1>6. /\ SCALE * excess = price * (SCALE * m) - n
      /\ SCALE * short = price * (SCALE * m + SCALE) - n
  BY <1>1, <1>3, ScaleAssumption
<1> HIDE DEF n, r, m
<1>7. /\ price * r = price * (SCALE * m) + price * (r - SCALE * m)
      /\ price * (SCALE * m + SCALE)
           = price * r + price + price * (SCALE * m + SCALE - r - 1)
  BY <1>2, <1>3, ScaleAssumption
<1>8. /\ price * (r - SCALE * m) \in Nat
      /\ price * (SCALE * m + SCALE - r - 1) \in Nat
  BY <1>2, <1>3, ScaleAssumption
<1>9. /\ price * r \in Int /\ price * (SCALE * m) \in Int
      /\ price * (SCALE * m + SCALE) \in Int
  BY <1>2, <1>3, ScaleAssumption
<1> HIDE DEF excess, short
<1>10. 2 * (SCALE * excess) <= price
  BY <1>1, <1>2, <1>6, <1>7, <1>8, <1>9
<1>11. SCALE * short > 0
  BY <1>1, <1>2, <1>6, <1>7, <1>8, <1>9
<1>12. short > 0
  <2>1. SUFFICES ASSUME short <= 0 PROVE FALSE
    BY <1>5
  <2>2. -short \in Nat /\ SCALE * (-short) \in Nat /\ SCALE * (-short) = -(SCALE * short)
    BY <1>5, <2>1, ScaleAssumption
  <2>3. QED
    BY <1>5, <1>11, <2>2, ScaleAssumption
<1>13. 2 * SCALE * excess = 2 * (SCALE * excess)
  BY <1>5, ScaleAssumption
<1>14. SCALE * quantity \in Int /\ (m + 1) * price \in Int
  BY <1>3, ScaleAssumption
<1>15. QED
  BY <1>3, <1>4, <1>5, <1>10, <1>12, <1>13, <1>14 DEF excess, short

\* The most that a deposit can take over what it pays, in units of 1 / SCALE: the rounding
\* of its quotient.  Nothing at a price below two.
Excess(price) == price \div (2 * SCALE)

\* What a tranche owes beyond what it holds is, in units of 1 / SCALE, the supply at its
\* price less a whole number of reserve tokens.  A supply is a 64-bit number, so few values
\* have that form; this says that none does between y and what one deposit can add to y.
Gap(price, y) ==
  \A s \in U64, held \in Nat : s * price - SCALE * held \notin y + 1 .. y + Excess(price)

\* The inductive invariant behind RedeemableInFull.  Each deposit may add its rounding to
\* what is owed, and no number of them is too large, but none of them can jump a gap.
\* The first gap that counts lies above the rounding of a price at a refresh, half a unit
\* for each token.
Backed ==
  \A i \in Tranches : \A y \in Nat :
    MaxU64 <= y /\ Gap(Prices[i], y)
      => supply[i] * Prices[i] - SCALE * deposited_quantity[i] <= y

\* There is a gap below one reserve token: more deposits of this size are needed to fill
\* one than there are numbers of 64 bits.
RoundingsFit(price) == MaxU64 + (MaxU64 + 2) * Excess(price) < SCALE

PricesWithinLimit == \A i \in Tranches : RoundingsFit(Prices[i])

LEMMA ExcessIsNat ==
  ASSUME NEW price \in Nat
  PROVE  /\ Excess(price) \in Nat
         /\ \A x \in Int : 2 * SCALE * x <= price => x <= Excess(price)
<1> DEFINE d == 2 * SCALE
           e == price \div d
<1>1. d \in Nat \ {0}
  BY ScaleAssumption
<1> HIDE DEF d
<1>2. e \in Nat /\ price % d \in 0 .. d - 1 /\ price = d * e + (price % d)
  <2>1. price \in Int
    OBVIOUS
  <2>2. price % d \in 0 .. d - 1 /\ price = d * (price \div d) + (price % d)
    BY <1>1, <2>1, DivModFact
  <2>3. price \div d \in Nat
    BY <1>1, DivIsNat
  <2>4. QED
    BY <2>2, <2>3
<1> HIDE DEF e
<1>3. ASSUME NEW x \in Int, d * x <= price PROVE x <= e
  <2>1. SUFFICES ASSUME x >= e + 1 PROVE FALSE
    BY <1>2, <1>3
  <2>2. d * x = d * e + d + d * (x - e - 1) /\ d * (x - e - 1) \in Nat
    <3>1. x - e - 1 \in Nat
      BY <1>2, <1>3, <2>1
    <3>2. QED
      BY <1>1, <1>2, <1>3, <3>1
  <2>3. d * e \in Int
    BY <1>1, <1>2
  <2>4. QED
    BY <1>1, <1>2, <1>3, <2>2, <2>3
<1>4. Excess(price) = e
  BY DEF Excess, d, e
<1>5. QED
  BY <1>2, <1>3, <1>4 DEF d

\* Two numbers that differ by multiples of SCALE and are less than SCALE apart are equal.
LEMMA SameResidue ==
  ASSUME NEW a \in Int, NEW h \in Int, NEW k \in Int, NEW x \in Int, NEW y \in Int,
         x = a - SCALE * h, y = a - SCALE * k, x - y < SCALE, y - x < SCALE
  PROVE  x = y
<1>1. x - y = SCALE * (k - h) /\ y - x = SCALE * (h - k)
  BY ScaleAssumption
<1>2. ~(k - h >= 1)
  <2>1. SUFFICES ASSUME k - h >= 1 PROVE FALSE
    OBVIOUS
  <2>2. SCALE * (k - h) >= SCALE
    BY <2>1, ScaleAssumption
  <2>3. QED
    BY <1>1, <2>2, ScaleAssumption
<1>3. ~(h - k >= 1)
  <2>1. SUFFICES ASSUME h - k >= 1 PROVE FALSE
    OBVIOUS
  <2>2. SCALE * (h - k) >= SCALE
    BY <2>1, ScaleAssumption
  <2>3. QED
    BY <1>1, <2>2, ScaleAssumption
<1>4. k = h
  BY <1>2, <1>3
<1>5. QED
  BY <1>4

\* One interval after the other, as many as there are supplies and one more: were there an
\* amount owed in each of them, two would belong to the same supply.
LEMMA GapExists ==
  ASSUME NEW price \in Nat, RoundingsFit(price)
  PROVE  \E y \in Nat : MaxU64 <= y /\ y < SCALE /\ Gap(price, y)
<1> DEFINE e == Excess(price)
           M == MaxU64
           low(k) == M + k * e
<1>1. e \in Nat /\ M \in Nat /\ M + (M + 2) * e < SCALE
  BY ExcessIsNat, MaxU64Assumption DEF RoundingsFit
<1> HIDE DEF e
<1>2. ASSUME NEW k \in 0 .. M + 1
      PROVE  low(k) \in Nat /\ M <= low(k) /\ low(k) + e <= M + (M + 2) * e
  <2>1. k \in Nat /\ M + 1 - k \in Nat
    BY <1>1
  <2>2. k * e \in Nat /\ (M + 1 - k) * e \in Nat
    BY <1>1, <2>1
  <2>3. (M + 2) * e = k * e + e + (M + 1 - k) * e
    BY <1>1, <2>1
  <2>4. QED
    BY <1>1, <2>2, <2>3
<1>3. SUFFICES ASSUME \A k \in 0 .. M + 1 : ~Gap(price, low(k)) PROVE FALSE
  <2>1. PICK k \in 0 .. M + 1 : Gap(price, low(k))
    BY <1>3
  <2>2. low(k) \in Nat /\ M <= low(k) /\ low(k) < SCALE
    BY <1>1, <1>2, ScaleAssumption
  <2> HIDE DEF low
  <2>3. QED
    BY <2>1, <2>2
<1> DEFINE owed(k, s, held) == s * price - SCALE * held \in low(k) + 1 .. low(k) + e
           f == [k \in 0 .. M + 1 |-> CHOOSE s \in 0 .. M : \E held \in Nat : owed(k, s, held)]
<1>4. \A k \in 0 .. M + 1 : f[k] \in 0 .. M /\ \E held \in Nat : owed(k, f[k], held)
  <2> TAKE k \in 0 .. M + 1
  <2>1. \E s \in 0 .. M : \E held \in Nat : owed(k, s, held)
    BY <1>3 DEF Gap, U64, e
  <2> HIDE DEF owed
  <2>2. QED
    BY <2>1
<1>5. f \in [0 .. M + 1 -> 0 .. M]
  <2> HIDE DEF owed
  <2>1. \A k \in 0 .. M + 1 :
          (CHOOSE s \in 0 .. M : \E held \in Nat : owed(k, s, held)) \in 0 .. M
    BY <1>4, Zenon
  <2>2. QED
    BY <2>1, Zenon
<1>6. /\ IsFiniteSet(0 .. M + 1) /\ IsFiniteSet(0 .. M)
      /\ Cardinality(0 .. M) < Cardinality(0 .. M + 1)
  <2>1. /\ IsFiniteSet(0 .. M + 1) /\ Cardinality(0 .. M + 1) = M + 2
        /\ IsFiniteSet(0 .. M) /\ Cardinality(0 .. M) = M + 1
    BY <1>1, FS_Interval
  <2>2. QED
    BY <1>1, <2>1
<1>7. \E j, k \in 0 .. M + 1 : j # k /\ f[j] = f[k]
  <2> HIDE DEF f
  <2>1. QED
    BY <1>5, <1>6, FS_PigeonHole
<1>8. PICK j \in 0 .. M + 1, k \in 0 .. M + 1 : j < k /\ f[j] = f[k]
  <2> HIDE DEF f
  <2>1. PICK x \in 0 .. M + 1, y \in 0 .. M + 1 : x # y /\ f[x] = f[y]
    BY <1>7
  <2>2. CASE x < y
    BY <2>1, <2>2
  <2>3. CASE y < x
    BY <2>1, <2>3
  <2>4. QED
    BY <1>1, <2>1, <2>2, <2>3
<1> DEFINE s == f[j]
<1>9. /\ s \in Nat
      /\ \E held \in Nat : owed(j, s, held)
      /\ \E held \in Nat : owed(k, s, held)
  <2> HIDE DEF f, owed
  <2>1. f[j] \in 0 .. M /\ f[k] = f[j]
    BY <1>4, <1>8
  <2>2. (\E held \in Nat : owed(j, f[j], held)) /\ \E held \in Nat : owed(k, f[k], held)
    BY <1>4
  <2>3. QED
    BY <1>1, <2>1, <2>2
<1> HIDE DEF s, f
<1>10. PICK h \in Nat : owed(j, s, h)
  BY <1>9
<1>11. PICK i \in Nat : owed(k, s, i)
  BY <1>9
<1> DEFINE x == s * price - SCALE * h
           y == s * price - SCALE * i
<1>12. s * price \in Int /\ x \in Int /\ y \in Int
  BY <1>9, ScaleAssumption
<1>13. /\ low(j) \in Nat /\ low(k) \in Nat /\ low(j) + e <= low(k)
       /\ M <= low(j) /\ low(k) + e < SCALE
  <2>1. low(j) \in Nat /\ low(k) \in Nat /\ M <= low(j)
    BY <1>2
  <2>2. low(k) + e < SCALE
    BY <1>1, <1>2, ScaleAssumption
  <2>3. low(k) = low(j) + e + (k - j - 1) * e /\ (k - j - 1) * e \in Nat
    <3>1. k - j - 1 \in Nat
      BY <1>1, <1>8
    <3>2. QED
      BY <1>1, <3>1
  <2> HIDE DEF low
  <2>4. QED
    BY <1>1, <2>1, <2>2, <2>3
<1>14. x <= low(j) + e /\ low(k) + 1 <= y /\ x >= 0 /\ y < SCALE
  <2>1. x \in low(j) + 1 .. low(j) + e /\ y \in low(k) + 1 .. low(k) + e
    BY <1>10, <1>11
  <2> HIDE DEF x, y, low
  <2>2. QED
    BY <1>1, <1>12, <1>13, <2>1, ScaleAssumption
<1> HIDE DEF low
<1>15. x < y /\ y - x < SCALE /\ x - y < SCALE
  <2> HIDE DEF x, y
  <2>1. QED
    BY <1>1, <1>12, <1>13, <1>14, ScaleAssumption
<1>16. x = y
  BY <1>12, <1>15, SameResidue
<1>17. QED
  BY <1>12, <1>15, <1>16

LEMMA ComponentsAreNats ==
  ASSUME TypeOK, NEW i \in Tranches
  PROVE  /\ supply[i] \in Nat /\ supply[i] <= MaxU64
         /\ deposited_quantity[i] \in Nat
         /\ Prices[i] \in Nat
BY MaxU64Assumption DEF TypeOK, Quantities, U64, Tracked, Prices

LEMMA InitBacked == Init => Backed
<1> SUFFICES ASSUME Init, NEW i \in Tranches, NEW y \in Nat
             PROVE  supply[i] * Prices[i] - SCALE * deposited_quantity[i] <= y
  BY DEF Backed
<1>1. supply[i] = 0 /\ deposited_quantity[i] = 0 /\ Prices[i] = SCALE
  BY DEF Init, Split, Prices, One
<1>2. QED
  BY <1>1, ScaleAssumption

\* The rounding of one deposit does not carry what is owed across a gap.
LEMMA DepositKeepsBacked ==
  ASSUME TypeOK, Backed, NEW signer \in Users, NEW dest \in Users,
         NEW quantity \in [Tranches -> Amounts], Deposit(signer, dest, quantity)
  PROVE  Backed'
<1> SUFFICES ASSUME NEW i \in Tranches, NEW y \in Nat, MaxU64 <= y, Gap(Prices'[i], y)
             PROVE  supply'[i] * Prices'[i] - SCALE * deposited_quantity'[i] <= y
  BY DEF Backed
<1> DEFINE m == MintCount(quantity[i], Prices[i])
           s == supply[i]
           p == Prices[i]
           d == deposited_quantity[i]
           q == quantity[i]
<1>1. s \in Nat /\ d \in Nat /\ p \in Nat \ {0} /\ q \in Nat
  BY ComponentsAreNats, AmountsAreNats DEF Deposit, CanMint
<1>2. m \in Nat /\ 2 * SCALE * (m * p - SCALE * q) <= p
  BY <1>1, MintedWithinRounding
<1>3. supply'[i] = s + m /\ deposited_quantity'[i] = d + q /\ Prices'[i] = p
  BY DEF Deposit, tracked, Prices
<1>4. s * p - SCALE * d <= y
  BY <1>3 DEF Backed
<1>5. s + m \in U64 /\ d + q \in Nat
  <2>1. TypeOK'
    BY DepositKeepsTypes
  <2>2. supply'[i] \in U64
    BY <2>1 DEF TypeOK, Quantities
  <2> HIDE DEF m, s, d, q
  <2>3. QED
    BY <1>1, <1>3, <2>2
<1> HIDE DEF m, s, p, d, q
<1>6. (s + m) * p = s * p + m * p /\ SCALE * (d + q) = SCALE * d + SCALE * q
  BY <1>1, <1>2, ScaleAssumption
<1>7. s * p \in Nat /\ m * p \in Nat /\ SCALE * d \in Nat /\ SCALE * q \in Nat
  BY <1>1, <1>2, ScaleAssumption
<1>8. Excess(p) \in Nat /\ m * p - SCALE * q <= Excess(p)
  BY <1>1, <1>2, <1>7, ExcessIsNat
<1> DEFINE owed == (s + m) * p - SCALE * (d + q)
<1>9. owed \in Int /\ owed <= y + Excess(p)
  BY <1>4, <1>6, <1>7, <1>8
<1>10. owed \notin y + 1 .. y + Excess(p)
  BY <1>3, <1>5 DEF Gap
<1> HIDE DEF owed
<1>11. owed <= y
  BY <1>8, <1>9, <1>10
<1>12. QED
  BY <1>3, <1>11 DEF owed

LEMMA RedeemKeepsBacked ==
  ASSUME TypeOK, Backed, NEW signer \in Users, NEW dest \in Accounts,
         NEW quantity \in [Tranches -> Amounts], Redeem(signer, dest, quantity)
  PROVE  Backed'
<1> SUFFICES ASSUME NEW i \in Tranches, NEW y \in Nat, MaxU64 <= y, Gap(Prices'[i], y)
             PROVE  supply'[i] * Prices'[i] - SCALE * deposited_quantity'[i] <= y
  BY DEF Backed
<1> DEFINE v == RedeemValue(quantity[i], Prices[i])
           s == supply[i]
           p == Prices[i]
           d == deposited_quantity[i]
           q == quantity[i]
<1>1. s \in Nat /\ d \in Nat /\ p \in Nat /\ q \in Nat
  BY ComponentsAreNats, AmountsAreNats
<1>2. v \in Int /\ SCALE * v <= q * p
  BY <1>1, FloorFact DEF RedeemValue
<1>3. supply'[i] = s - q /\ deposited_quantity'[i] = d - v /\ Prices'[i] = p
  BY DEF Redeem, tracked, Prices
<1>4. s * p - SCALE * d <= y
  BY <1>3 DEF Backed
<1> HIDE DEF v, s, p, d, q
<1>5. (s - q) * p = s * p - q * p /\ SCALE * (d - v) = SCALE * d - SCALE * v
  BY <1>1, <1>2, ScaleAssumption
<1>6. s * p \in Int /\ q * p \in Int /\ SCALE * d \in Int /\ SCALE * v \in Int
  BY <1>1, <1>2, ScaleAssumption
<1>7. s * p - q * p - (SCALE * d - SCALE * v) <= y
  BY <1>2, <1>4, <1>6
<1>8. QED
  BY <1>3, <1>5, <1>7

LEMMA RefreshKeepsBacked ==
  ASSUME TypeOK, NEW signer \in Users, RefreshTrancheFairValue(signer)
  PROVE  Backed'
<1>1. PICK result \in ExecutePlugin(deposited_quantity, OldRate, rate_state.fair_value) :
        /\ deposited_quantity' = result.new_quantity
        /\ Prices' = NewPrices(result.new_quantity)
  BY DEF RefreshTrancheFairValue, RateSlot, TypeOK, Tracked, Prices
<1>2. result.new_quantity \in Quantities
  BY PluginAssumption DEF TypeOK, Tracked, OldRate, RedeemLogicExecuteResult
<1> SUFFICES ASSUME NEW i \in Tranches, NEW y \in Nat, MaxU64 <= y
             PROVE  supply'[i] * Prices'[i] - SCALE * deposited_quantity'[i] <= y
  BY DEF Backed
<1> DEFINE s == supply[i]
           d == result.new_quantity[i]
<1>3. s \in Nat /\ s <= MaxU64 /\ d \in Nat
  BY <1>2, ComponentsAreNats, MaxU64Assumption DEF Quantities, U64
<1>4. supply'[i] = s /\ deposited_quantity'[i] = d
  BY <1>1 DEF RefreshTrancheFairValue, RateSlot, tokens
<1>5. SCALE * d \in Nat
  BY <1>3, ScaleAssumption
<1>6. CASE s = 0
  <2>1. Prices'[i] \in Nat
    BY RefreshKeepsTypes DEF TypeOK, Tracked, Prices
  <2>2. QED
    BY <1>4, <1>5, <1>6, <2>1, MaxU64Assumption
<1>7. CASE s > 0
  <2>1. Prices'[i] = RoundHalfEven(d * SCALE, s)
    BY <1>1, <1>7 DEF NewPrices, DecDiv
  <2>2. /\ Prices'[i] \in Int
        /\ 2 * (s * Prices'[i] - d * SCALE) <= s
    <3>1. d * SCALE \in Int /\ s \in Nat \ {0}
      BY <1>3, <1>7, ScaleAssumption
    <3>2. QED
      BY <2>1, <3>1, RoundingError
  <2>3. s * Prices'[i] \in Int /\ d * SCALE = SCALE * d
    BY <1>3, <2>2, ScaleAssumption
  <2>4. QED
    BY <1>3, <1>4, <1>5, <2>2, <2>3, MaxU64Assumption
<1>8. QED
  BY <1>3, <1>6, <1>7

LEMMA BackedIsRedeemable ==
  ASSUME TypeOK, Backed, PricesWithinLimit
  PROVE  RedeemableInFull
<1> SUFFICES ASSUME NEW i \in Tranches
             PROVE  RedeemValue(supply[i], Prices[i]) <= deposited_quantity[i]
  BY DEF RedeemableInFull
<1> DEFINE a == supply[i] * Prices[i]
           v == DecFloor(a)
           d == deposited_quantity[i]
<1>1. d \in Nat /\ a \in Nat /\ Prices[i] \in Nat
  BY ComponentsAreNats
<1>2. v \in Int /\ SCALE * v <= a
  BY <1>1, FloorFact
<1>3. PICK y \in Nat : MaxU64 <= y /\ y < SCALE /\ Gap(Prices[i], y)
  BY <1>1, GapExists DEF PricesWithinLimit
<1>4. a - SCALE * d < SCALE
  <2>1. a - SCALE * d <= y
    BY <1>3 DEF Backed
  <2>2. SCALE * d \in Int
    BY <1>1, ScaleAssumption
  <2> HIDE DEF a, d
  <2>3. QED
    BY <1>1, <1>3, <2>1, <2>2, ScaleAssumption
<1>5. v <= d
  <2> HIDE DEF a, v, d
  <2>1. SUFFICES ASSUME v >= d + 1 PROVE FALSE
    BY <1>1, <1>2
  <2>2. SCALE * v = SCALE * d + SCALE + SCALE * (v - d - 1) /\ SCALE * (v - d - 1) \in Nat
    BY <1>1, <1>2, <2>1, ScaleAssumption
  <2>3. SCALE * v \in Int /\ SCALE * d \in Int
    BY <1>1, <1>2, ScaleAssumption
  <2>4. QED
    BY <1>1, <1>2, <1>4, <2>2, <2>3, ScaleAssumption
<1>6. QED
  BY <1>5 DEF RedeemValue

\* While no tranche token is worth more than a billion reserve tokens, every tranche covers
\* the redemption of all its tokens, for any plugin, any rates and any number of deposits,
\* redemptions and refreshes, although above a price of two each deposit may be minted a
\* little more than it pays for.  (With 2^64 and 10^28 the limit is 1.08 * 10^9.)
THEOREM RedeemableWithinLimit == Spec => [](PricesWithinLimit => RedeemableInFull)
<1>1. Init => Backed
  BY InitBacked
<1>2. ASSUME TypeOK, Backed, [Next]_vars PROVE Backed'
  <2>1. CASE \E signer, dest \in Users, quantity \in [Tranches -> Amounts] :
               Deposit(signer, dest, quantity)
    BY <1>2, <2>1, DepositKeepsBacked
  <2>2. CASE \E signer \in Users, dest \in Accounts, quantity \in [Tranches -> Amounts] :
               Redeem(signer, dest, quantity)
    BY <1>2, <2>2, RedeemKeepsBacked
  <2>3. CASE \E signer \in Users : RefreshTrancheFairValue(signer)
    BY <1>2, <2>3, RefreshKeepsBacked
  <2>4. CASE \/ \E signer \in Users, dest \in Accounts : CollectFee(signer, dest)
             \/ UNCHANGED <<shares, supply>> /\ Prices' = Prices
    BY <1>2, <2>4 DEF CollectFee, tracked, Prices, shares, Backed
  <2>5. QED
    BY <1>2, <2>1, <2>2, <2>3, <2>4, OtherSteps
<1>3. TypeOK /\ Backed /\ PricesWithinLimit => RedeemableInFull
  BY BackedIsRedeemable
<1>4. QED
  BY <1>1, <1>2, <1>3, TypeCorrect, PTL DEF Spec

----------------------------------------------------------------------------
(* Trading against the program *)

\* The floor of a smaller decimal, and of one that is whole tokens apart.
LEMMA FloorIsMonotone ==
  ASSUME NEW a \in Int, NEW b \in Int, NEW k \in Int, a <= b + SCALE * k
  PROVE  DecFloor(a) <= DecFloor(b) + k
<1> DEFINE x == DecFloor(a)
           y == DecFloor(b)
           gap == x - y - k
<1>1. x \in Int /\ SCALE * x <= a /\ y \in Int /\ b < SCALE * y + SCALE
  BY FloorFact
<1>2. gap <= 0
  <2> HIDE DEF x, y
  <2>1. SUFFICES ASSUME gap >= 1 PROVE FALSE
    BY <1>1
  <2>2. SCALE * x = SCALE * y + SCALE * k + SCALE + SCALE * (gap - 1)
    BY <1>1, ScaleAssumption
  <2>3. /\ SCALE * (gap - 1) \in Nat /\ SCALE * x \in Int
        /\ SCALE * y \in Int /\ SCALE * k \in Int
    BY <1>1, <2>1, ScaleAssumption
  <2>4. QED
    BY <1>1, <2>2, <2>3, ScaleAssumption
<1>3. QED
  BY <1>1, <1>2

\* Redeeming in several parts pays no more than redeeming all at once.
LEMMA SplitRedemption ==
  ASSUME NEW part \in Nat, NEW rest \in Int, NEW price \in Nat
  PROVE  RedeemValue(rest, price) + RedeemValue(part, price)
           <= RedeemValue(rest + part, price)
<1> DEFINE v == RedeemValue(part, price)
<1>1. part * price \in Int /\ rest * price \in Int /\ (rest + part) * price \in Int
        /\ (rest + part) * price = rest * price + part * price
  OBVIOUS
<1>2. v \in Int /\ SCALE * v <= part * price
  BY <1>1, FloorFact DEF RedeemValue
<1>3. rest * price <= (rest + part) * price + SCALE * (-v)
  <2> HIDE DEF v
  <2>1. SCALE * (-v) = -(SCALE * v) /\ SCALE * v \in Int
    BY <1>2, ScaleAssumption
  <2>2. QED
    BY <1>1, <1>2, <2>1
<1>4. DecFloor(rest * price) <= DecFloor((rest + part) * price) + (-v)
  BY <1>1, <1>2, <1>3, FloorIsMonotone
<1>5. DecFloor(rest * price) \in Int /\ DecFloor((rest + part) * price) \in Int
  BY <1>1, FloorFact
<1>6. QED
  BY <1>2, <1>4, <1>5 DEF RedeemValue

\* As many roundings as there are tokens of 64 bits come to less than a reserve token.
ExcessFits(price) == MaxU64 * Excess(price) < SCALE

ExcessesFit == \A i \in Tranches : ExcessFits(Prices[i])

\* Minting raises the claims by no more than the deposit, although the tokens minted may be
\* worth a little more than it.
LEMMA MintedClaim ==
  ASSUME NEW held \in Nat, NEW quantity \in Nat, NEW price \in Nat \ {0}, ExcessFits(price),
         held + MintCount(quantity, price) <= MaxU64
  PROVE  RedeemValue(held + MintCount(quantity, price), price)
           <= RedeemValue(held, price) + quantity
<1> DEFINE m == MintCount(quantity, price)
           j == m * price - SCALE * quantity
<1>1. m \in Nat /\ 2 * SCALE * j <= price
  BY MintedWithinRounding
<1>2. held + m <= MaxU64
  OBVIOUS
<1> HIDE DEF m
<1>3. (held + m) * price = held * price + m * price
        /\ held * price \in Int /\ m * price \in Int /\ (held + m) * price \in Int
        /\ SCALE * quantity \in Int /\ j \in Int
  BY <1>1, ScaleAssumption
<1>4. DecFloor((held + m) * price) <= DecFloor(held * price) + quantity
  <2>1. CASE j <= 0
    <3>1. (held + m) * price <= held * price + SCALE * quantity
      BY <1>3, <2>1
    <3>2. QED
      BY <1>3, <3>1, FloorIsMonotone
  <2>2. CASE j > 0
    <3> DEFINE F == DecFloor((held + m) * price)
               G == DecFloor(held * price)
               i == (held + m) * price - SCALE * F
    <3>1. F \in Int /\ SCALE * F <= (held + m) * price
      BY <1>3, FloorFact
    <3>2. G \in Int /\ held * price < SCALE * G + SCALE
      BY <1>3, FloorFact
    <3> HIDE DEF F, G
    <3>3. i \in Nat
      BY <1>3, <3>1, ScaleAssumption
    <3>4. j <= Excess(price) /\ Excess(price) \in Nat
      BY <1>1, <1>3, ExcessIsNat
    <3>5. m \in Nat \ {0}
      <4>1. m # 0
        BY <2>2, ScaleAssumption
      <4>2. QED
        BY <1>1, <4>1
    <3>6. (held + m) * j < SCALE
      <4> DEFINE s == held + m
                 e == Excess(price)
      <4>1. s \in Nat /\ s <= MaxU64 /\ e \in Nat /\ j \in Nat /\ j <= e /\ MaxU64 \in Nat
        BY <1>1, <1>2, <1>3, <2>2, <3>4, MaxU64Assumption
      <4>2. MaxU64 * e < SCALE
        BY DEF ExcessFits
      <4> HIDE DEF s, e, j
      <4>3. s * j <= MaxU64 * e /\ s * j \in Int /\ MaxU64 * e \in Int
        BY <4>1, TimesMonotone
      <4>4. s * j < SCALE
        BY <4>2, <4>3, ScaleAssumption
      <4>5. QED
        BY <4>4 DEF s
    <3>7. i >= j
      <4> DEFINE s == held + m
      <4>1. s \in Nat /\ m <= s
        BY <1>1
      <4>2. s * price = SCALE * F + i /\ m * price = SCALE * quantity + j
        BY <1>3, <3>1, ScaleAssumption
      <4>3. s * j < SCALE /\ j \in Nat
        BY <1>3, <2>2, <3>6
      <4> HIDE DEF s, i, j
      <4>4. QED
        BY <3>1, <3>3, <3>5, <4>1, <4>2, <4>3, RemaindersOrdered
    <3>8. SCALE * (F - quantity) < SCALE * G + SCALE
      <4>1. SCALE * (F - quantity) = SCALE * F - SCALE * quantity /\ SCALE * F \in Int
            /\ SCALE * G \in Int
        BY <3>1, <3>2, ScaleAssumption
      <4>2. held * price - (SCALE * F - SCALE * quantity) = i - j
        BY <1>3, <4>1
      <4>3. i - j >= 0
        BY <1>3, <3>3, <3>7
      <4> HIDE DEF i, j
      <4>4. QED
        BY <1>3, <3>2, <4>1, <4>2, <4>3, ScaleAssumption
    <3>9. F - quantity <= G
      <4> DEFINE x == F - quantity
                 gap == x - G
      <4>1. gap \in Int /\ SCALE * x = SCALE * G + SCALE * gap
        BY <3>1, <3>2, ScaleAssumption
      <4>2. SUFFICES ASSUME gap >= 1 PROVE FALSE
        BY <3>1, <3>2, <4>1
      <4>3. SCALE * gap = SCALE + SCALE * (gap - 1) /\ SCALE * (gap - 1) \in Nat
        <5> HIDE DEF gap
        <5>1. QED
          BY <4>1, <4>2, ScaleAssumption
      <4>4. SCALE * G \in Int
        BY <3>2, ScaleAssumption
      <4> HIDE DEF gap
      <4>5. QED
        BY <3>8, <4>1, <4>3, <4>4, ScaleAssumption
    <3>10. QED
      BY <3>1, <3>2, <3>9 DEF F, G
  <2>3. QED
    BY <1>3, <2>1, <2>2
<1>5. QED
  BY <1>4 DEF RedeemValue, m

LEMMA ClaimsAreInts ==
  ASSUME TypeOK, NEW i \in Tranches
  PROVE  RedeemValue(supply[i], Prices[i]) \in Int
<1>1. supply[i] * Prices[i] \in Int
  BY ComponentsAreNats
<1>2. QED
  BY <1>1, FloorFact DEF RedeemValue

LEMMA DepositDoesNotPay ==
  ASSUME TypeOK, ExcessesFit, NEW signer \in Users, NEW dest \in Users,
         NEW quantity \in [Tranches -> Amounts], Deposit(signer, dest, quantity)
  PROVE  reserve_tokens'[Vault] - Claims' >= reserve_tokens[Vault] - Claims
<1> DEFINE claim(i)  == RedeemValue(supply[i], Prices[i])
           claim2(i) == RedeemValue(supply'[i], Prices'[i])
<1>1. quantity[0] \in Nat /\ quantity[1] \in Nat
  BY AmountsAreNats DEF Tranches
<1>2. reserve_tokens'[Vault] = reserve_tokens[Vault] + quantity[0] + quantity[1]
        /\ reserve_tokens[Vault] \in Nat
  BY <1>1, TransferToVault DEF Deposit, Total, TypeOK, Accounts
<1>3. \A i \in Tranches : claim2(i) <= claim(i) + quantity[i]
  <2> TAKE i \in Tranches
  <2>1. supply[i] \in Nat /\ Prices[i] \in Nat \ {0} /\ quantity[i] \in Nat
    BY ComponentsAreNats, AmountsAreNats DEF Deposit, CanMint
  <2>2. supply'[i] = supply[i] + MintCount(quantity[i], Prices[i]) /\ Prices'[i] = Prices[i]
    BY DEF Deposit, tracked, Prices
  <2>3. supply'[i] <= MaxU64
    BY DepositKeepsTypes, MaxU64Assumption DEF TypeOK, Quantities, U64
  <2>4. RedeemValue(supply[i] + MintCount(quantity[i], Prices[i]), Prices[i])
          <= RedeemValue(supply[i], Prices[i]) + quantity[i]
    BY <2>1, <2>2, <2>3, MintedClaim DEF ExcessesFit
  <2>5. QED
    BY <2>2, <2>4
<1>4. \A i \in Tranches : claim(i) \in Int /\ claim2(i) \in Int
  <2>1. TypeOK'
    BY DepositKeepsTypes
  <2>2. \A i \in Tranches : (RedeemValue(supply[i], Prices[i]))' \in Int
    <3>1. \A i \in Tranches : supply'[i] \in Nat /\ Prices'[i] \in Nat
      BY <2>1, MaxU64Assumption DEF TypeOK, Quantities, U64, Tracked, Prices
    <3>2. \A i \in Tranches : supply'[i] * Prices'[i] \in Int
      BY <3>1
    <3>3. QED
      BY <3>2, FloorFact DEF RedeemValue
  <2>3. QED
    BY <2>2, ClaimsAreInts
<1>5. Claims = claim(0) + claim(1) /\ Claims' = claim2(0) + claim2(1)
  BY DEF Claims
<1> HIDE DEF claim, claim2
<1>6. QED
  BY <1>1, <1>2, <1>3, <1>4, <1>5 DEF Tranches

LEMMA RedeemDoesNotPay ==
  ASSUME TypeOK, NEW signer \in Users, NEW dest \in Accounts,
         NEW quantity \in [Tranches -> Amounts], Redeem(signer, dest, quantity)
  PROVE  reserve_tokens'[Vault] - Claims' >= reserve_tokens[Vault] - Claims
<1> DEFINE claim(i)  == RedeemValue(supply[i], Prices[i])
           claim2(i) == RedeemValue(supply'[i], Prices'[i])
           v(i)      == RedeemValue(quantity[i], Prices[i])
           paid      == [i \in Tranches |-> RedeemValue(quantity[i], Prices[i])]
<1>1. \A i \in Tranches : /\ supply[i] \in Nat /\ Prices[i] \in Nat /\ quantity[i] \in Nat
                          /\ supply'[i] = supply[i] - quantity[i] /\ Prices'[i] = Prices[i]
  BY ComponentsAreNats, AmountsAreNats DEF Redeem, tracked, Prices
<1>2. \A i \in Tranches : v(i) \in Int /\ claim(i) \in Int /\ claim2(i) \in Int
  <2> TAKE i \in Tranches
  <2>1. /\ quantity[i] * Prices[i] \in Int /\ supply[i] * Prices[i] \in Int
        /\ supply'[i] * Prices'[i] \in Int
    BY <1>1
  <2>2. QED
    BY <2>1, FloorFact DEF RedeemValue
<1>3. \A i \in Tranches : claim2(i) + v(i) <= claim(i)
  <2> TAKE i \in Tranches
  <2>1. /\ supply[i] - quantity[i] \in Int
        /\ (supply[i] - quantity[i]) + quantity[i] = supply[i]
    BY <1>1
  <2>2. RedeemValue(supply[i] - quantity[i], Prices[i]) + RedeemValue(quantity[i], Prices[i])
          <= RedeemValue((supply[i] - quantity[i]) + quantity[i], Prices[i])
    BY <1>1, <2>1, SplitRedemption
  <2>3. QED
    BY <1>1, <2>1, <2>2
<1>4. Total(paid) = v(0) + v(1)
  BY DEF Total, Tranches
<1>5. /\ Total(paid) \in Nat
      /\ reserve_tokens'[Vault] >= reserve_tokens[Vault] - Total(paid)
  <2>1. Total(paid) \in Nat /\ Transfer(Vault, dest, Total(paid))
    BY MaxU64Assumption DEF Redeem, U64
  <2>2. QED
    BY <2>1, TransferFromVault
<1>6. reserve_tokens'[Vault] \in Nat /\ reserve_tokens[Vault] \in Nat
  BY RedeemKeepsTypes DEF TypeOK, Accounts
<1>7. Claims = claim(0) + claim(1) /\ Claims' = claim2(0) + claim2(1)
  BY DEF Claims
<1> HIDE DEF claim, claim2, v, paid
<1>8. QED
  BY <1>2, <1>3, <1>4, <1>5, <1>6, <1>7 DEF Tranches

\* No deposit and no redemption pays for itself, however the amounts are chosen, as long as
\* no tranche token is worth more than a billion reserve tokens.
THEOREM NoGainFromTrading == Spec /\ []ExcessesFit => TradingNeverPays
<1> DEFINE NoGain ==
      UNCHANGED <<fee_to_collect_quantity, tracked>>
        => reserve_tokens'[Vault] - Claims' >= reserve_tokens[Vault] - Claims
<1>1. ASSUME TypeOK, ExcessesFit, [Next]_vars PROVE NoGain
  <2>1. CASE \E signer, dest \in Users, quantity \in [Tranches -> Amounts] :
               Deposit(signer, dest, quantity)
    BY <1>1, <2>1, DepositDoesNotPay
  <2>2. CASE \E signer \in Users, dest \in Accounts, quantity \in [Tranches -> Amounts] :
               Redeem(signer, dest, quantity)
    BY <1>1, <2>2, RedeemDoesNotPay
  <2>3. SUFFICES ASSUME \/ \E signer \in Users : RefreshTrancheFairValue(signer)
                        \/ \E signer \in Users, dest \in Accounts : CollectFee(signer, dest)
                        \/ UNCHANGED <<reserve_tokens, supply>>,
                        UNCHANGED <<fee_to_collect_quantity, tracked>>
                 PROVE  reserve_tokens'[Vault] - Claims' >= reserve_tokens[Vault] - Claims
    BY <1>1, <2>1, <2>2, OtherSteps
  <2>4. UNCHANGED supply /\ Claims' = Claims
    BY <2>3 DEF RefreshTrancheFairValue, RateSlot, tokens, CollectFee, tracked, Claims, Prices
  <2>5. Claims \in Int /\ reserve_tokens[Vault] \in Nat
    BY <1>1, ClaimsAreInts DEF Claims, Tranches, TypeOK, Accounts
  <2>6. CASE \E signer \in Users, dest \in Accounts : CollectFee(signer, dest)
    <3>1. PICK dest \in Accounts : Transfer(Vault, dest, fee_to_collect_quantity)
      BY <2>6 DEF CollectFee
    <3>2. fee_to_collect_quantity = 0
      BY <2>3, <2>6 DEF CollectFee
    <3>3. reserve_tokens'[Vault] = reserve_tokens[Vault]
      BY <1>1, <3>1, <3>2 DEF Transfer, TypeOK, Accounts
    <3>4. QED
      BY <2>4, <2>5, <3>3
  <2>7. CASE \/ \E signer \in Users : RefreshTrancheFairValue(signer)
             \/ UNCHANGED <<reserve_tokens, supply>>
    <3>1. reserve_tokens' = reserve_tokens
      BY <2>7 DEF RefreshTrancheFairValue, RateSlot, tokens
    <3>2. QED
      BY <2>4, <2>5, <3>1
  <2>8. QED
    BY <2>3, <2>6, <2>7
<1>2. QED
  BY <1>1, TypeCorrect, PTL DEF Spec, TradingNeverPays

----------------------------------------------------------------------------
(* The program as shares of a vault *)

LEMMA DepositEnters ==
  ASSUME TypeOK, NEW signer \in Users, NEW dest \in Users,
         NEW quantity \in [Tranches -> Amounts], Deposit(signer, dest, quantity)
  PROVE  Shares!Enter
<1> DEFINE minted(i) == MintCount(quantity[i], Prices[i])
<1>1. ASSUME NEW i \in Tranches
      PROVE  /\ supply[i] \in Nat /\ deposited_quantity[i] \in Nat
             /\ Prices[i] \in Nat \ {0} /\ quantity[i] \in Nat
  BY ComponentsAreNats, AmountsAreNats DEF Deposit, CanMint
<1>2. ASSUME NEW i \in Tranches
      PROVE  /\ deposited_quantity'[i] - deposited_quantity[i] = quantity[i]
             /\ supply'[i] - supply[i] = minted(i)
             /\ minted(i) \in Nat
             /\ SCALE * quantity[i] < (minted(i) + 1) * Prices[i]
             /\ 2 * SCALE * (minted(i) * Prices[i] - SCALE * quantity[i]) <= Prices[i]
  <2>1. /\ minted(i) \in Nat
        /\ SCALE * quantity[i] < (minted(i) + 1) * Prices[i]
        /\ 2 * SCALE * (minted(i) * Prices[i] - SCALE * quantity[i]) <= Prices[i]
    BY <1>1, MintedWithinRounding
  <2> HIDE DEF minted
  <2>2. /\ deposited_quantity'[i] = deposited_quantity[i] + quantity[i]
        /\ supply'[i] = supply[i] + minted(i)
    BY DEF Deposit, minted
  <2>3. QED
    BY <1>1, <2>1, <2>2
<1>3. reserve_tokens'[Vault] = reserve_tokens[Vault] + Total(quantity)
  <2>1. Total(quantity) \in Nat /\ Transfer(signer, Vault, Total(quantity))
    BY MaxU64Assumption DEF Deposit, U64
  <2>2. QED
    BY <2>1, TransferToVault
<1>4. reserve_tokens'[Vault]
        = reserve_tokens[Vault] + Total(deposited_quantity') - Total(deposited_quantity)
  <2>1. reserve_tokens[Vault] \in Int
    BY DEF TypeOK, Accounts
  <2>2. 0 \in Tranches /\ 1 \in Tranches
    BY DEF Tranches
  <2>3. /\ deposited_quantity'[0] = deposited_quantity[0] + quantity[0]
        /\ deposited_quantity'[1] = deposited_quantity[1] + quantity[1]
    BY <2>2 DEF Deposit
  <2>4. /\ deposited_quantity[0] \in Int /\ deposited_quantity[1] \in Int
        /\ quantity[0] \in Int /\ quantity[1] \in Int
    BY <1>1, <2>2
  <2>5. QED
    BY <1>3, <2>1, <2>3, <2>4 DEF Total
<1>5. UNCHANGED <<Prices, fee_to_collect_quantity>>
  BY DEF Deposit, tracked, Prices
<1> HIDE DEF minted
<1>6. \A i \in Tranches :
        LET paid == deposited_quantity'[i] - deposited_quantity[i]
            new  == supply'[i] - supply[i]
        IN  /\ Prices[i] > 0 /\ paid >= 0 /\ new >= 0
            /\ SCALE * paid < (new + 1) * Prices[i]
            /\ 2 * SCALE * (new * Prices[i] - SCALE * paid) <= Prices[i]
  BY <1>1, <1>2
<1>7. QED
  BY <1>4, <1>5, <1>6 DEF Shares!Enter, Shares!Tranches, Tranches, Shares!Total, Total

LEMMA PaidFromVault ==
  ASSUME TypeOK, NEW to \in Accounts, NEW amount \in Nat, Transfer(Vault, to, amount)
  PROVE  reserve_tokens'[Vault] \in {reserve_tokens[Vault], reserve_tokens[Vault] - amount}
BY DEF TypeOK, Transfer, Accounts

LEMMA RedeemLeaves ==
  ASSUME TypeOK, NEW signer \in Users, NEW dest \in Accounts,
         NEW quantity \in [Tranches -> Amounts], Redeem(signer, dest, quantity)
  PROVE  Shares!Leave
<1> DEFINE value(i) == RedeemValue(quantity[i], Prices[i])
           paid     == [i \in Tranches |-> RedeemValue(quantity[i], Prices[i])]
<1>1. ASSUME NEW i \in Tranches
      PROVE  /\ supply[i] \in Nat /\ deposited_quantity[i] \in Nat
             /\ Prices[i] \in Nat /\ quantity[i] \in Nat
  BY ComponentsAreNats, AmountsAreNats
<1>2. ASSUME NEW i \in Tranches
      PROVE  /\ value(i) \in Int
             /\ deposited_quantity[i] - deposited_quantity'[i] = value(i)
             /\ supply[i] - supply'[i] = quantity[i]
             /\ SCALE * value(i) <= quantity[i] * Prices[i]
             /\ quantity[i] * Prices[i] < SCALE * (value(i) + 1)
  <2>1. quantity[i] * Prices[i] \in Int
    BY <1>1
  <2>2. /\ value(i) \in Int
        /\ SCALE * value(i) <= quantity[i] * Prices[i]
        /\ quantity[i] * Prices[i] < SCALE * value(i) + SCALE
    BY <2>1, FloorFact DEF RedeemValue
  <2>3. /\ deposited_quantity'[i] = deposited_quantity[i] - value(i)
        /\ supply'[i] = supply[i] - quantity[i]
    BY DEF Redeem
  <2> HIDE DEF value
  <2>4. SCALE * (value(i) + 1) = SCALE * value(i) + SCALE
    BY <2>2, ScaleAssumption
  <2>5. QED
    BY <1>1, <2>2, <2>3, <2>4
<1>3. Total(paid) = value(0) + value(1)
  BY DEF Total, Tranches
<1>4. reserve_tokens'[Vault]
        \in {reserve_tokens[Vault], reserve_tokens[Vault] - Total(paid)}
  <2>1. Total(paid) \in Nat /\ Transfer(Vault, dest, Total(paid))
    BY MaxU64Assumption DEF Redeem, U64
  <2>2. QED
    BY <2>1, PaidFromVault
<1> HIDE DEF paid, value
<1>5. Total(deposited_quantity) - Total(deposited_quantity') = Total(paid)
  <2>1. 0 \in Tranches /\ 1 \in Tranches
    BY DEF Tranches
  <2>2. /\ deposited_quantity[0] - deposited_quantity'[0] = value(0)
        /\ deposited_quantity[1] - deposited_quantity'[1] = value(1)
    BY <1>2, <2>1
  <2>3. deposited_quantity'[0] \in Int /\ deposited_quantity'[1] \in Int
    BY <2>1, MaxU64Assumption DEF Redeem, Quantities, U64
  <2>4. deposited_quantity[0] \in Int /\ deposited_quantity[1] \in Int
    BY <1>1, <2>1
  <2>5. QED
    BY <1>3, <2>2, <2>3, <2>4 DEF Total
<1>6. UNCHANGED <<Prices, fee_to_collect_quantity>>
  BY DEF Redeem, tracked, Prices
<1>7. \A i \in Tranches :
        LET out    == deposited_quantity[i] - deposited_quantity'[i]
            burned == supply[i] - supply'[i]
        IN  /\ burned >= 0
            /\ SCALE * out <= burned * Prices[i] /\ burned * Prices[i] < SCALE * (out + 1)
  BY <1>1, <1>2
<1>8. QED
  BY <1>4, <1>5, <1>6, <1>7 DEF Shares!Leave, Shares!Tranches, Tranches, Shares!Total, Total

LEMMA RefreshSharesOut ==
  ASSUME TypeOK, NEW signer \in Users, RefreshTrancheFairValue(signer)
  PROVE  Shares!ShareOut
<1>1. PICK result \in ExecutePlugin(deposited_quantity, OldRate, rate_state.fair_value) :
        /\ fee_to_collect_quantity' = fee_to_collect_quantity + result.fee_quantity
        /\ deposited_quantity' = result.new_quantity
        /\ Prices' = NewPrices(result.new_quantity)
  BY DEF RefreshTrancheFairValue, RateSlot, TypeOK, Tracked, Prices
<1>2. result \in RedeemLogicExecuteResult /\ Conserves(deposited_quantity, result)
  BY PluginAssumption DEF TypeOK, Tracked, OldRate
<1>3. result.new_quantity \in Quantities /\ result.fee_quantity \in Nat
  BY <1>2, MaxU64Assumption DEF RedeemLogicExecuteResult, U64
<1>4. fee_to_collect_quantity \in Nat
  BY MaxU64Assumption DEF TypeOK, U64
<1>5. Total(result.new_quantity) + result.fee_quantity = Total(deposited_quantity)
  BY <1>2 DEF Conserves
<1>6. Total(result.new_quantity) \in Int /\ Total(deposited_quantity) \in Int
  BY <1>3, MaxU64Assumption DEF TypeOK, Quantities, U64, Total, Tranches
<1>7. /\ Total(deposited_quantity') + fee_to_collect_quantity'
           = Total(deposited_quantity) + fee_to_collect_quantity
      /\ fee_to_collect_quantity' >= fee_to_collect_quantity
  BY <1>1, <1>3, <1>4, <1>5, <1>6
<1>8. ASSUME NEW i \in Tranches
      PROVE  IF supply[i] = 0
             THEN Prices'[i] = Prices[i]
             ELSE 2 * (supply[i] * Prices'[i] - SCALE * deposited_quantity'[i])
                    \in -supply[i] .. supply[i]
  <2>1. supply[i] \in Nat
    BY ComponentsAreNats
  <2>2. CASE supply[i] = 0
    BY <1>1, <2>2 DEF NewPrices
  <2>3. CASE supply[i] # 0
    <3> DEFINE d == deposited_quantity'[i]
               s == supply[i]
               p == Prices'[i]
    <3>1. d \in Nat /\ s \in Nat \ {0} /\ d * SCALE \in Int
      BY <1>1, <1>3, <2>1, <2>3, MaxU64Assumption, ScaleAssumption DEF Quantities, U64
    <3>2. p = RoundHalfEven(d * SCALE, s)
      BY <1>1, <2>1, <2>3 DEF NewPrices, DecDiv
    <3>3. p \in Int /\ 2 * (s * p - d * SCALE) <= s /\ 2 * (d * SCALE - s * p) <= s
      BY <3>1, <3>2, RoundingError
    <3>4. d * SCALE = SCALE * d /\ s * p \in Int
      BY <3>1, <3>3, ScaleAssumption
    <3> HIDE DEF d, s, p
    <3>5. 2 * (s * p - SCALE * d) \in -s .. s
      BY <3>1, <3>3, <3>4
    <3>6. QED
      BY <2>3, <3>5 DEF d, s, p
  <2>4. QED
    BY <2>2, <2>3
<1>9. UNCHANGED <<supply, reserve_tokens>>
  BY RefreshTouchesNoToken DEF tokens
<1>10. QED
  BY <1>7, <1>8, <1>9 DEF Shares!ShareOut, Shares!Tranches, Tranches, Shares!Total, Total

LEMMA CollectFeeCollects ==
  ASSUME TypeOK, NEW signer \in Users, NEW dest \in Accounts, CollectFee(signer, dest)
  PROVE  Shares!CollectFees
<1>1. fee_to_collect_quantity \in Nat
  BY MaxU64Assumption DEF TypeOK, U64
<1>2. reserve_tokens'[Vault]
        \in {reserve_tokens[Vault], reserve_tokens[Vault] - fee_to_collect_quantity}
  BY <1>1, PaidFromVault DEF CollectFee
<1>3. QED
  BY <1>2 DEF CollectFee, Shares!CollectFees, tracked, Prices

\* vyper-core implements shares of a vault, whatever the plugin and at prices of any size:
\* its clock, flags, caps, thresholds, rates and accounts only restrict when a step is taken.
THEOREM CoreIsTrancheShares == Spec => ImplementsTrancheShares
<1>1. Init => Shares!Init
  BY DEF Init, Shares!Init, Split, Prices, Tranches, Shares!Tranches, One, Accounts
<1>2. ASSUME TypeOK, [Next]_vars PROVE [Shares!Next]_(Shares!vars)
  <2>1. CASE \E signer, dest \in Users, quantity \in [Tranches -> Amounts] :
               Deposit(signer, dest, quantity)
    BY <1>2, <2>1, DepositEnters DEF Shares!Next
  <2>2. CASE \E signer \in Users, dest \in Accounts, quantity \in [Tranches -> Amounts] :
               Redeem(signer, dest, quantity)
    BY <1>2, <2>2, RedeemLeaves DEF Shares!Next
  <2>3. CASE \E signer \in Users : RefreshTrancheFairValue(signer)
    BY <1>2, <2>3, RefreshSharesOut DEF Shares!Next
  <2>4. CASE \E signer \in Users, dest \in Accounts : CollectFee(signer, dest)
    BY <1>2, <2>4, CollectFeeCollects DEF Shares!Next
  <2>5. CASE /\ UNCHANGED <<shares, reserve_tokens, supply>>
             /\ Prices' = Prices
    BY <2>5 DEF Shares!vars, shares
  <2>6. QED
    BY <1>2, <2>1, <2>2, <2>3, <2>4, <2>5, OtherSteps
<1>3. QED
  BY <1>1, <1>2, TypeCorrect, PTL DEF Spec, ImplementsTrancheShares, Shares!Spec

=============================================================================
