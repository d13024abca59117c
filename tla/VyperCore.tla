------------------------------ MODULE VyperCore -----------------------------
(***************************************************************************)
(* The vyper-core program: one tranche config, the SPL accounts it moves    *)
(* tokens between (its reserve vault, its two tranche mints and the         *)
(* holders' accounts), the rate program's state account that it reads and   *)
(* the redeem logic plugin that it calls.                                   *)
(*                                                                         *)
(* A Solana instruction is atomic: a handler that returns an error or       *)
(* panics (the release profile checks overflows) leaves no trace.  So one   *)
(* action is one successful instruction, and every check of the handler,    *)
(* wherever it stands in the code, is a guard.                              *)
(***************************************************************************)
EXTENDS RedeemLogicCommon

CONSTANTS
  Users,              \* signers, each with reserve and tranche token accounts
  Owner,              \* TrancheConfig::owner
  Vault,              \* the reserve token account owned by the program
  None,               \* Option::None, a disabled deposit cap
  FairValues,         \* what a rate program can publish (a vector of decimals)
  InitFairValue,      \* the vector [1; 10]
  ExecutePlugin(_, _, _),  \* the plugin's results: old quantity, old and new rate
  InitialTokens,      \* reserve tokens each user starts with
  InitializeInputs,   \* bound: the InitializeInputs considered
  UpdateInputs,       \* bound: the UpdateTrancheDataInputs considered
  Amounts,            \* bound: the quantities users pass in
  RateDelays,         \* bound: slots between a rate's refreshed_slot and its publication
  InitSlot, MaxSlot   \* bound: the slots considered

ASSUME UsersAssumption ==
  /\ Owner \in Users
  /\ Vault \notin Users
  /\ InitialTokens \in [Users -> Nat]

ASSUME RateAssumption == InitFairValue \in FairValues /\ RateDelays \subseteq Nat

ASSUME BoundsAssumption ==
  InitSlot \in Nat /\ MaxSlot \in Nat /\ Amounts \subseteq U64

\* What the core program takes on trust: it checks neither of these of a result.
ASSUME PluginAssumption ==
  \A q \in Quantities, old, new \in FairValues :
    \A result \in ExecutePlugin(q, old, new) :
      result \in RedeemLogicExecuteResult /\ Conserves(q, result)

VARIABLES
  slot,                     \* Clock::get()?.slot
  rate_state,               \* the rate program's account
  deposited_quantity,       \* TrancheData, field by field
  fee_to_collect_quantity,
  reserve_fair_value,
  tranche_fair_value,
  halt_flags,
  owner_restricted_ix,
  deposit_cap,
  reserve_tokens,           \* reserve token balance of each account
  tranche_tokens,           \* tranche token balances of each user
  supply                    \* Mint::supply of the two tranche mints

tracked == <<reserve_fair_value, tranche_fair_value>>
flags   == <<halt_flags, owner_restricted_ix, deposit_cap>>
shares  == <<deposited_quantity, fee_to_collect_quantity>>
tokens  == <<reserve_tokens, tranche_tokens, supply>>
vars    == <<slot, rate_state, shares, tracked, flags, tokens>>

----------------------------------------------------------------------------
(* Types of the accounts' fields *)

Accounts == Users \union {Vault}

TrancheHaltFlags       == {"HALT_DEPOSITS", "HALT_REFRESHES", "HALT_REDEEMS"}
OwnerRestrictedIxFlags == {"DEPOSITS", "REFRESHES", "REDEEMS"}
UpdateTrancheConfigFlags ==
  {"HALT_FLAGS", "OWNER_RESTRICTED_IXS", "RESERVE_FAIR_VALUE_STALE_SLOT_THRESHOLD",
   "TRANCHE_FAIR_VALUE_STALE_SLOT_THRESHOLD", "DEPOSIT_CAP"}

\* A value with its SlotTracking.
Tracked(Values) ==
  [value : Values, last_update : Nat, stale_slot_threshold : Nat]

Caps == [Tranches -> U64 \union {None}]

ASSUME InputsAssumption ==
  \A input \in UpdateInputs :
    /\ input.reserve_fair_value_stale_slot_threshold \in Nat
    /\ input.tranche_fair_value_stale_slot_threshold \in Nat
    /\ input.deposit_cap \in Caps

TypeOK ==
  /\ slot \in Nat
  /\ rate_state \in [fair_value : FairValues, refreshed_slot : 0 .. slot]
  /\ deposited_quantity \in Quantities
  /\ fee_to_collect_quantity \in U64
  /\ reserve_fair_value \in Tracked(FairValues)
  /\ tranche_fair_value \in Tracked([Tranches -> Nat])
  /\ halt_flags \subseteq TrancheHaltFlags
  /\ owner_restricted_ix \subseteq OwnerRestrictedIxFlags
  /\ deposit_cap \in Caps
  /\ reserve_tokens \in [Accounts -> Nat]
  /\ tranche_tokens \in [Users -> [Tranches -> Nat]]
  /\ supply \in Quantities

----------------------------------------------------------------------------
(* Helpers *)

\* Mutant: one slot of margin, so that a threshold of one is never met.
IsWithinLess(last_update, threshold) ==
  slot >= last_update /\ slot - last_update + 1 < threshold

\* Fewer than `threshold` slots elapsed since `last_update`, which is in the past.
IsWithin(last_update, threshold) ==
  slot >= last_update /\ slot - last_update < threshold

\* The negation of SlotTracking::is_stale.
IsFresh(tracking) == IsWithin(tracking.last_update, tracking.stale_slot_threshold)

\* The instruction is open to everybody, or the signer is the owner.
Permitted(signer, ix) == ix \in owner_restricted_ix => signer = Owner

\* token::transfer of reserve tokens; from and to may be the same account.
Transfer(from, to, amount) ==
  /\ reserve_tokens[from] >= amount
  /\ reserve_tokens' =
       [a \in Accounts |-> reserve_tokens[a] + (IF a = to   THEN amount ELSE 0)
                                             - (IF a = from THEN amount ELSE 0)]

Prices == tranche_fair_value.value

\* Mutant: rounds in favour of the depositor.
MintCountRoundedUp(quantity, price) == DecFloor(DecDiv(Dec(quantity), price) + One - 1)

\* Tranche tokens minted for a deposit.
MintCount(quantity, price) == DecFloor(DecDiv(Dec(quantity), price))

\* Mutant: pays the value to the nearest token.
RedeemValueRounded(quantity, price) == DecRound(quantity * price)

\* Reserve tokens paid for a redemption.
RedeemValue(quantity, price) == DecFloor(quantity * price)

\* Mutant: looks only at the tranches the deposit goes to.
CapAllowsDeposited(quantity) ==
  \A i \in Tranches : quantity[i] > 0 /\ deposit_cap[i] # None =>
    deposited_quantity[i] + quantity[i] <= deposit_cap[i]

\* No tranche, deposited to or not, is above its cap after the deposit.
CapAllows(quantity) ==
  \A i \in Tranches : deposit_cap[i] # None =>
    deposited_quantity[i] + quantity[i] <= deposit_cap[i]

\* The handler divides by both prices, even the one of a tranche it mints nothing of.
CanMint == \A i \in Tranches : Prices[i] # 0

----------------------------------------------------------------------------
(* The instructions *)

\* initialize::handler, and the accounts Anchor creates for it.
Init ==
  /\ slot = InitSlot
  /\ rate_state \in [fair_value : FairValues, refreshed_slot : 0 .. InitSlot]
  /\ deposited_quantity = Split(0, 0)
  /\ fee_to_collect_quantity = 0
  /\ reserve_fair_value =
       [value |-> InitFairValue, last_update |-> slot, stale_slot_threshold |-> 2]
  /\ tranche_fair_value =
       [value |-> Split(One, One), last_update |-> slot, stale_slot_threshold |-> 2]
  /\ \E input \in InitializeInputs :
       /\ input.halt_flags \subseteq TrancheHaltFlags
       /\ input.owner_restricted_ixs \subseteq OwnerRestrictedIxFlags
       /\ halt_flags = input.halt_flags
       /\ owner_restricted_ix = input.owner_restricted_ixs
  /\ deposit_cap = Split(None, None)
  /\ reserve_tokens = [a \in Accounts |-> IF a = Vault THEN 0 ELSE InitialTokens[a]]
  /\ tranche_tokens = [u \in Users |-> Split(0, 0)]
  /\ supply = Split(0, 0)

\* deposit::handler: `signer` pays, the tranche tokens go to `dest`.  (The accounts that
\* receive senior and junior tokens may belong to two users; here they belong to one.)
Deposit(signer, dest, quantity) ==
  LET minted == [i \in Tranches |-> MintCount(quantity[i], Prices[i])]
  IN
  /\ "HALT_DEPOSITS" \notin halt_flags
  /\ IsFresh(tranche_fair_value)
  /\ Permitted(signer, "DEPOSITS")
  /\ Total(quantity) \in U64 \ {0}
  /\ CapAllows(quantity)
  /\ deposited_quantity' = [i \in Tranches |-> deposited_quantity[i] + quantity[i]]
  /\ deposited_quantity' \in Quantities
  /\ Transfer(signer, Vault, Total(quantity))
  /\ CanMint
  /\ supply' = [i \in Tranches |-> supply[i] + minted[i]]
  /\ supply' \in Quantities
  /\ tranche_tokens' =
       [tranche_tokens EXCEPT ![dest] = [i \in Tranches |-> @[i] + minted[i]]]
  /\ UNCHANGED <<slot, rate_state, fee_to_collect_quantity, tracked, flags>>

\* Mutant: a redemption is held back only by the deposits' halt flag.
RedeemsOpenUnderWrongFlag == "HALT_DEPOSITS" \notin halt_flags

RedeemsOpen == "HALT_REDEEMS" \notin halt_flags

\* redeem::handler: burns `signer`'s tranche tokens, pays any reserve token account.
Redeem(signer, dest, quantity) ==
  LET paid == [i \in Tranches |-> RedeemValue(quantity[i], Prices[i])]
  IN
  /\ RedeemsOpen
  /\ IsFresh(tranche_fair_value)
  /\ Permitted(signer, "REDEEMS")
  /\ Total(quantity) \in U64 \ {0}
  /\ Total(paid) \in U64
  /\ deposited_quantity' = [i \in Tranches |-> deposited_quantity[i] - paid[i]]
  /\ deposited_quantity' \in Quantities
  /\ Transfer(Vault, dest, Total(paid))
  /\ \A i \in Tranches : tranche_tokens[signer][i] >= quantity[i]
  /\ supply' = [i \in Tranches |-> supply[i] - quantity[i]]
  /\ supply' \in Quantities
  /\ tranche_tokens' =
       [tranche_tokens EXCEPT ![signer] = [i \in Tranches |-> @[i] - quantity[i]]]
  /\ UNCHANGED <<slot, rate_state, fee_to_collect_quantity, tracked, flags>>

\* Mutant: prices a tranche nobody holds at one again.
NewPricesReset(quantity) ==
  [i \in Tranches |-> IF supply[i] > 0 THEN DecDiv(quantity[i], supply[i]) ELSE One]

\* The price of each tranche once it holds `quantity`; a tranche nobody holds keeps its own.
NewPrices(quantity) ==
  [i \in Tranches |-> IF supply[i] > 0 THEN DecDiv(quantity[i], supply[i]) ELSE Prices[i]]

\* Mutant: every refresh compares the rate with the initial one.
OldRateInitial == InitFairValue

\* The rate the plugin compares the new one with.
OldRate == reserve_fair_value.value

\* Mutant: stamps the new prices with the slot they were computed in.
RateSlotOfClock == slot

\* The slot the new prices are stamped with, that of the rate they were computed from.
RateSlot == rate_state.refreshed_slot

\* refresh_tranche_fair_value::handler, with the call of the redeem logic plugin.
RefreshTrancheFairValue(signer) ==
  /\ "HALT_REFRESHES" \notin halt_flags
  /\ Permitted(signer, "REFRESHES")
  /\ IsWithin(RateSlot, reserve_fair_value.stale_slot_threshold)
  /\ \E result \in ExecutePlugin(deposited_quantity, OldRate, rate_state.fair_value) :
       /\ fee_to_collect_quantity' = fee_to_collect_quantity + result.fee_quantity
       /\ fee_to_collect_quantity' \in U64
       /\ deposited_quantity' = result.new_quantity
       /\ tranche_fair_value' = [tranche_fair_value EXCEPT
            !.value = NewPrices(result.new_quantity), !.last_update = RateSlot]
  /\ reserve_fair_value' = [reserve_fair_value EXCEPT
       !.value = rate_state.fair_value, !.last_update = RateSlot]
  /\ UNCHANGED <<slot, rate_state, flags, tokens>>

\* Mutant: pays the fee and forgets to reset the counter.
CollectFeeWithoutReset(signer, dest) ==
  /\ signer = Owner
  /\ Transfer(Vault, dest, fee_to_collect_quantity)
  /\ UNCHANGED <<slot, rate_state, shares, tracked, flags, tranche_tokens, supply>>

\* collect_fee::handler: the owner sends the fees to any reserve token account.
CollectFee(signer, dest) ==
  /\ signer = Owner
  /\ Transfer(Vault, dest, fee_to_collect_quantity)
  /\ fee_to_collect_quantity' = 0
  /\ UNCHANGED <<slot, rate_state, deposited_quantity, tracked, flags,
                 tranche_tokens, supply>>

\* Mutant: stores whatever bits it is given.
AnyHaltFlags(bits) == TRUE

\* TrancheHaltFlags::from_bits knows every bit.
ValidHaltFlags(bits) == bits \subseteq TrancheHaltFlags

\* update_tranche_data::handler: only the fields named in the bitmask are written.
UpdateTrancheData(signer, input) ==
  LET Updated(flag, new, old) == IF flag \in input.bitmask THEN new ELSE old
  IN
  /\ signer = Owner
  /\ input.bitmask \subseteq UpdateTrancheConfigFlags
  /\ halt_flags' = Updated("HALT_FLAGS", input.halt_flags, halt_flags)
  /\ ValidHaltFlags(halt_flags')
  /\ owner_restricted_ix' =
       Updated("OWNER_RESTRICTED_IXS", input.owner_restricted_ixs, owner_restricted_ix)
  /\ owner_restricted_ix' \subseteq OwnerRestrictedIxFlags
  /\ reserve_fair_value' = [reserve_fair_value EXCEPT !.stale_slot_threshold =
       Updated("RESERVE_FAIR_VALUE_STALE_SLOT_THRESHOLD",
               input.reserve_fair_value_stale_slot_threshold, @)]
  /\ tranche_fair_value' = [tranche_fair_value EXCEPT !.stale_slot_threshold =
       Updated("TRANCHE_FAIR_VALUE_STALE_SLOT_THRESHOLD",
               input.tranche_fair_value_stale_slot_threshold, @)]
  /\ deposit_cap' = Updated("DEPOSIT_CAP", input.deposit_cap, deposit_cap)
  /\ UNCHANGED <<slot, rate_state, shares, tokens>>

----------------------------------------------------------------------------
(* The environment: a rate program that publishes, and time *)

\* The rate program writes its account, with a slot that is never in the future.
PublishRate(value, delay) ==
  /\ slot - delay >= rate_state.refreshed_slot
  /\ rate_state' = [fair_value |-> value, refreshed_slot |-> slot - delay]
  /\ UNCHANGED <<slot, shares, tracked, flags, tokens>>

Tick ==
  /\ slot < MaxSlot
  /\ slot' = slot + 1
  /\ UNCHANGED <<rate_state, shares, tracked, flags, tokens>>

Next ==
  \/ \E signer, dest \in Users, quantity \in [Tranches -> Amounts] :
       Deposit(signer, dest, quantity)
  \/ \E signer \in Users, dest \in Accounts, quantity \in [Tranches -> Amounts] :
       Redeem(signer, dest, quantity)
  \/ \E signer \in Users : RefreshTrancheFairValue(signer)
  \/ \E signer \in Users, dest \in Accounts : CollectFee(signer, dest)
  \/ \E signer \in Users, input \in UpdateInputs : UpdateTrancheData(signer, input)
  \/ \E value \in FairValues, delay \in RateDelays : PublishRate(value, delay)
  \/ Tick

Spec == Init /\ [][Next]_vars

----------------------------------------------------------------------------
(* What the program promises *)

\* The vault covers everything the program owes: what both tranches hold and the fees
\* not yet collected.  Deposits, redemptions and fee collections move tokens and the
\* books together, a refresh rewrites the books alone.  A redemption or a collection
\* paid into the vault itself leaves the vault with more than it owes, never less.
Solvency ==
  reserve_tokens[Vault] >= Total(deposited_quantity) + fee_to_collect_quantity

\* All the tokens of a tranche can be redeemed at once at its price: rounding, of a price
\* at a refresh or of the tokens minted for a deposit, never lets holders be owed more
\* than their tranche holds, so that redeem's checked_sub never fails a holder.
RedeemableInFull ==
  \A i \in Tranches : RedeemValue(supply[i], Prices[i]) <= deposited_quantity[i]

\* What the holders could redeem, both tranches at once.
Claims == RedeemValue(supply[0], Prices[0]) + RedeemValue(supply[1], Prices[1])

\* Nobody gains by trading with the program between two refreshes: no sequence of deposits
\* and redemptions, split, merged or repeated to collect their roundings, takes from the
\* vault more than it takes off the holders' claims.
TradingNeverPays ==
  [][UNCHANGED <<fee_to_collect_quantity, tracked>>
       => reserve_tokens'[Vault] - Claims' >= reserve_tokens[Vault] - Claims]_vars

\* A wiped out tranche whose tokens have all been burned is never repriced, and because
\* deposit divides by both prices, no token of EITHER tranche is ever minted again.
WipedOutForever ==
  [][\A i \in Tranches : supply[i] = 0 /\ Prices[i] = 0 =>
       /\ Prices'[i] = 0
       /\ \A j \in Tranches : supply'[j] <= supply[j]]_vars

\* The vault grows by a deposit only while every capped tranche stays within its cap: a
\* tranche that a refresh has lifted above its cap closes the other one to deposits too.
DepositsStopAtEveryCap ==
  [][reserve_tokens'[Vault] > reserve_tokens[Vault] =>
       \A i \in Tranches :
         deposit_cap[i] # None => deposited_quantity'[i] <= deposit_cap[i]]_vars

\* Each halt flag stops what its name says, whoever signs: no token minted or reserve
\* taken in, no token burned, no price or fee changed.
HaltsHold ==
  [][/\ "HALT_DEPOSITS" \in halt_flags =>
          /\ reserve_tokens'[Vault] <= reserve_tokens[Vault]
          /\ \A i \in Tranches : supply'[i] <= supply[i]
     /\ "HALT_REDEEMS" \in halt_flags => \A i \in Tranches : supply'[i] >= supply[i]
     /\ "HALT_REFRESHES" \in halt_flags =>
          /\ Prices' = Prices
          /\ reserve_fair_value'.value = reserve_fair_value.value
          /\ fee_to_collect_quantity' <= fee_to_collect_quantity]_vars

\* Refreshing again at a rate already applied moves nothing between the tranches and
\* charges nothing: the payoff follows the rate, not the number of refreshes.  (Anyone
\* may refresh, as often as they like.)  Nor does it change a price, when the prices are
\* those of the books; deposits and redemptions since leave dust in the books, which the
\* next refresh puts into the prices.  The books move alone only in a refresh.
RepeatedRefreshIsNeutral ==
  [][reserve_tokens' = reserve_tokens /\ supply' = supply
       /\ reserve_fair_value.value = rate_state.fair_value
     => /\ deposited_quantity' = deposited_quantity
        /\ fee_to_collect_quantity' <= fee_to_collect_quantity
        /\ Prices = NewPrices(deposited_quantity) => Prices' = Prices]_vars

\* The accounts of the program seen as a vault and shares of it.
Shares == INSTANCE TrancheShares WITH
  held <- deposited_quantity, fees <- fee_to_collect_quantity, vault <- reserve_tokens[Vault],
  issued <- supply, price <- Prices

\* Every instruction is one step of those shares, or none: nobody but depositors adds to the
\* vault, nobody but holders and the fees' owner takes from it, at the price of the last
\* refresh, with no more rounding than TrancheShares allows.
ImplementsTrancheShares == Shares!Spec

----------------------------------------------------------------------------
(* What a comment promises, and the program does not keep *)

\* With all three flags set nothing moves: HALT_ALL is commented as "Disable all
\* operations" (state/tranche_halt_flags.rs).
HaltAllStopsEverything ==
  [][halt_flags = TrancheHaltFlags => UNCHANGED tokens]_vars

=============================================================================
