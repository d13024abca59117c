------------------------------- MODULE RatePyth -----------------------------
(***************************************************************************)
(* The rate-pyth program: copies the current prices of up to ten Pyth price   *)
(* accounts, given at initialization and handed in again, in the same order,  *)
(* at every refresh.                                                         *)
(***************************************************************************)
EXTENDS Decimals, FiniteSetsExt, SequencesExt

CONSTANTS
  Accounts,           \* the accounts that may be handed in; their owner is not checked
  NotAPrice,          \* what an account shows that does not hold a Pyth price
  MaxOracles,         \* the length of the fair value vector, 10 in the code
  Mantissas, Expos,   \* bound: the prices considered
  None,               \* Option::None
  InitSlot, MaxSlot   \* bound: the slots considered

ASSUME AccountsAssumption == None \notin Accounts
ASSUME PricesAssumption   == Mantissas \subseteq Int /\ Expos \subseteq Int
\* A negative exponent stands for digits that a decimal has (28 of them in the crate, of
\* which Pyth's prices use about eight).
ASSUME ExposAssumption ==
  \A expo \in Expos : IF expo >= 0 THEN 10 ^ expo \in Nat
                      ELSE 10 ^ (-expo) \in Nat \ {0} /\ SCALE % 10 ^ (-expo) = 0
ASSUME BoundsAssumption   ==
  MaxOracles \in Nat \ {0} /\ InitSlot \in Nat /\ MaxSlot \in Nat

VARIABLES
  slot,                   \* Clock::get()?.slot
  price_feed,             \* what each account shows
  fair_value, refreshed_slot, pyth_oracles   \* RateState

data_vars == <<fair_value, refreshed_slot, pyth_oracles>>
vars      == <<slot, price_feed, data_vars>>

Entries == 0 .. MaxOracles - 1

\* The remaining accounts of a transaction.
RemainingAccounts == SeqOf(Accounts, MaxOracles + 1)

\* A price and whether it is the current one: otherwise the product is not trading.
Prices     == [price : Mantissas, expo : Expos, trading : BOOLEAN]
PriceFeeds == Prices \union {NotAPrice}

----------------------------------------------------------------------------

\* dec!(10).powd(expo): of a negative exponent, the inverse of the power.
PowerOfTen(expo) == IF expo >= 0 THEN Dec(10 ^ expo) ELSE DecDiv(One, Dec(10 ^ (-expo)))

\* The price as a decimal; it may be negative.
Value(feed) == feed.price * PowerOfTen(feed.expo)

\* Mutant: takes the last price of a product that is not trading.
HasAnyPrice(feed) == feed # NotAPrice

\* Both unwraps succeed.
HasCurrentPrice(feed) == feed # NotAPrice /\ feed.trading

SameKeys(oracles, stored) ==
  \A i \in 1 .. Len(oracles) : stored[i - 1] # None /\ stored[i - 1] = oracles[i]

Readable(oracles) == \A i \in 1 .. Len(oracles) : HasCurrentPrice(price_feed[oracles[i]])

\* set_data_from_oracles.
NewFairValue(oracles, old) ==
  [i \in Entries |-> IF i < Len(oracles) THEN Value(price_feed[oracles[i + 1]]) ELSE old[i]]

----------------------------------------------------------------------------

Init ==
  /\ slot = InitSlot
  /\ price_feed \in [Accounts -> PriceFeeds]
  /\ \E oracles \in RemainingAccounts :
       /\ Len(oracles) \in 1 .. MaxOracles
       /\ pyth_oracles = [i \in Entries |-> IF i < Len(oracles) THEN oracles[i + 1] ELSE None]
       /\ SameKeys(oracles, pyth_oracles)
       /\ Readable(oracles)
       /\ fair_value = NewFairValue(oracles, [i \in Entries |-> 0])
       /\ refreshed_slot = slot

refresh(oracles) ==
  /\ Len(oracles) = Cardinality({i \in Entries : pyth_oracles[i] # None})
  /\ SameKeys(oracles, pyth_oracles)
  /\ Readable(oracles)
  /\ fair_value' = NewFairValue(oracles, fair_value)
  /\ refreshed_slot' = slot
  /\ UNCHANGED <<slot, price_feed, pyth_oracles>>

\* A price account is written by its publishers, a product starts or stops trading.
UpdatePrice(oracle, feed) ==
  /\ price_feed' = [price_feed EXCEPT ![oracle] = feed]
  /\ UNCHANGED <<slot, data_vars>>

Tick ==
  /\ slot < MaxSlot
  /\ slot' = slot + 1
  /\ UNCHANGED <<price_feed, data_vars>>

Next ==
  \/ \E oracles \in RemainingAccounts : refresh(oracles)
  \/ \E oracle \in Accounts, feed \in PriceFeeds : UpdatePrice(oracle, feed)
  \/ Tick

Spec == Init /\ [][Next]_vars

----------------------------------------------------------------------------

Used == {pyth_oracles[i] : i \in Entries} \ {None}

\* What the stored oracles show together, each in its place: a decimal that the mantissa and
\* the exponent of the price stand for, exactly while it has no digit beyond SCALE.
showing ==
  LET Shown(feed) == IF feed.expo >= 0
                     THEN feed.price * 10 ^ feed.expo * SCALE
                     ELSE (feed.price * SCALE) \div 10 ^ (-feed.expo)
  IN  IF \E oracle \in Used : price_feed[oracle] = NotAPrice \/ ~price_feed[oracle].trading
      THEN NotAPrice
      ELSE [i \in Entries |-> IF pyth_oracles[i] = None THEN 0
                              ELSE Shown(price_feed[pyth_oracles[i]])]

\* The account vyper-core reads.
rate_state == [fair_value |-> fair_value, refreshed_slot |-> refreshed_slot]

FairValues == [Entries -> {Value(feed) : feed \in Prices} \union {0}]

ASSUME NotAPriceAssumption == NotAPrice \notin FairValues

Oracle == INSTANCE OracleReader WITH Unavailable <- NotAPrice

\* The account shows the prices of all its oracles at one moment, in their order, with the
\* slot of it; while one of their products is not trading, it shows none of the new ones.
ImplementsOracleReader == Oracle!Spec

=============================================================================
