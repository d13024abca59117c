--------------------------- MODULE RatePyth_proofs --------------------------
(***************************************************************************)
(* Rate-pyth for any accounts, any prices whose digits a decimal has, and a   *)
(* vector of any length.                                                     *)
(***************************************************************************)
EXTENDS RatePyth, DecimalTheorems, SequenceTheorems

\* The price accounts stored are the first so many, and the values behind them stay zero.
FirstAreStored(n) ==
  /\ n \in 1 .. MaxOracles
  /\ pyth_oracles \in [Entries -> Accounts \union {None}]
  /\ fair_value \in FairValues
  /\ \A i \in Entries :
       /\ i < n => pyth_oracles[i] \in Accounts
       /\ i >= n => pyth_oracles[i] = None /\ fair_value[i] = 0

Stored ==
  /\ slot \in Nat
  /\ price_feed \in [Accounts -> PriceFeeds]
  /\ refreshed_slot \in 0 .. slot
  /\ \E n \in Nat : FirstAreStored(n)

----------------------------------------------------------------------------

LEMMA RemainingAreSequences ==
  ASSUME NEW oracles \in RemainingAccounts
  PROVE  /\ Len(oracles) \in Nat
         /\ \A i \in 1 .. Len(oracles) : oracles[i] \in Accounts
<1>1. oracles \in Seq(Accounts)
  BY BoundsAssumption DEF RemainingAccounts, SeqOf
<1>2. QED
  BY <1>1, LenProperties

LEMMA StoredAreCounted ==
  ASSUME NEW n \in Nat, FirstAreStored(n)
  PROVE  Cardinality({i \in Entries : pyth_oracles[i] # None}) = n
<1>1. {i \in Entries : pyth_oracles[i] # None} = 0 .. n - 1
  BY AccountsAssumption, BoundsAssumption DEF FirstAreStored, Entries
<1>2. Cardinality(0 .. n - 1) = IF 0 > n - 1 THEN 0 ELSE (n - 1) - 0 + 1
  BY FS_Interval
<1>3. Cardinality(0 .. n - 1) = n
  BY <1>2 DEF FirstAreStored
<1>4. QED
  BY <1>1, <1>3, Zenon

----------------------------------------------------------------------------
(* What the oracles show together *)

\* The decimal that a price's mantissa and exponent stand for, and the one that the program
\* computes by dividing one by a power of ten, rounded, and multiplying.
Shown(feed) == IF feed.expo >= 0
               THEN feed.price * 10 ^ feed.expo * SCALE
               ELSE (feed.price * SCALE) \div 10 ^ (-feed.expo)

LEMMA ExactQuotient ==
  ASSUME NEW k \in Int, NEW d \in Nat \ {0}
  PROVE  (k * d) \div d = k
<1>1. k * d \in Int /\ k * d = d * k
  OBVIOUS
<1>2. /\ (k * d) \div d \in Int /\ (k * d) % d \in 0 .. d - 1
      /\ k * d = d * ((k * d) \div d) + ((k * d) % d)
  BY <1>1, DivModFact
<1> DEFINE q == (k * d) \div d
<1> HIDE DEF q
<1>3. d * (k - q) \in 0 .. d - 1
  BY <1>1, <1>2 DEF q
<1>4. k - q >= 0
  <2>1. SUFFICES ASSUME k - q <= -1 PROVE FALSE
    BY <1>2 DEF q
  <2>2. d * (k - q) <= d * (-1)
    BY <1>2, <2>1 DEF q
  <2>3. QED
    BY <1>3, <2>2
<1>5. k - q <= 0
  <2>1. SUFFICES ASSUME k - q >= 1 PROVE FALSE
    BY <1>2 DEF q
  <2>2. d * (k - q) >= d * 1
    BY <1>2, <2>1 DEF q
  <2>3. QED
    BY <1>3, <2>2
<1>6. QED
  BY <1>2, <1>4, <1>5 DEF q

\* Nothing is rounded away while the power of ten divides SCALE.
LEMMA ValueIsShown ==
  ASSUME NEW feed \in Prices
  PROVE  Value(feed) = Shown(feed)
<1>1. feed.price \in Int /\ feed.expo \in Expos /\ feed.expo \in Int
  BY PricesAssumption DEF Prices
<1>2. CASE feed.expo >= 0
  <2> DEFINE power == 10 ^ feed.expo
  <2>1. power \in Nat
    BY <1>1, <1>2, ExposAssumption
  <2>2. Value(feed) = feed.price * (power * SCALE)
    BY <1>2 DEF Value, PowerOfTen, Dec
  <2>3. Shown(feed) = feed.price * power * SCALE
    BY <1>2 DEF Shown
  <2> HIDE DEF power
  <2>4. QED
    BY <1>1, <2>1, <2>2, <2>3, ScaleAssumption
<1>3. CASE ~(feed.expo >= 0)
  <2> DEFINE power == 10 ^ (-feed.expo)
             unit == SCALE \div power
  <2>1. power \in Nat \ {0} /\ SCALE % power = 0
    BY <1>1, <1>3, ExposAssumption
  <2>2. Value(feed) = feed.price * RoundHalfEven(SCALE * SCALE, power * SCALE)
    BY <1>3 DEF Value, PowerOfTen, Dec, DecDiv, One
  <2>3. Shown(feed) = (feed.price * SCALE) \div power
    BY <1>3 DEF Shown
  <2> HIDE DEF power
  <2>4. unit \in Nat /\ SCALE = unit * power
    <3>1. unit \in Nat /\ SCALE = power * unit + (SCALE % power)
      BY <2>1, DivModFact, DivIsNat, ScaleAssumption
    <3> HIDE DEF unit
    <3>2. QED
      BY <2>1, <3>1
  <2> HIDE DEF unit
  <2>5. RoundHalfEven(SCALE * SCALE, power * SCALE) = unit
    <3>1. power * SCALE \in Nat \ {0} /\ SCALE * SCALE = unit * (power * SCALE)
      BY <2>1, <2>4, ScaleAssumption
    <3>2. QED
      BY <2>4, <3>1, RoundingExact
  <2>6. feed.price * SCALE = (feed.price * unit) * power /\ feed.price * unit \in Int
    BY <1>1, <2>1, <2>4, ScaleAssumption
  <2>7. (feed.price * SCALE) \div power = feed.price * unit
    BY <2>1, <2>6, ExactQuotient
  <2>8. QED
    BY <2>2, <2>3, <2>5, <2>7
<1>4. QED
  BY <1>2, <1>3

LEMMA ShowingIsVectorOrNot ==
  (price_feed \in [Accounts -> PriceFeeds] /\ \E n \in Nat : FirstAreStored(n))
    => showing \in FairValues \union {NotAPrice}
<1> SUFFICES ASSUME price_feed \in [Accounts -> PriceFeeds],
                    \E n \in Nat : FirstAreStored(n), showing # NotAPrice
             PROVE  showing \in FairValues
  OBVIOUS
<1> DEFINE At(i) == IF pyth_oracles[i] = None THEN 0 ELSE Shown(price_feed[pyth_oracles[i]])
<1>1. /\ showing = [i \in Entries |-> At(i)]
      /\ \A oracle \in Used : price_feed[oracle] # NotAPrice
  BY DEF showing, Shown
<1>2. \A i \in Entries : At(i) \in {Value(feed) : feed \in Prices} \union {0}
  <2> SUFFICES ASSUME NEW i \in Entries, pyth_oracles[i] # None
               PROVE  At(i) \in {Value(feed) : feed \in Prices}
    OBVIOUS
  <2>1. pyth_oracles[i] \in Accounts /\ pyth_oracles[i] \in Used
    BY DEF FirstAreStored, Used
  <2>2. price_feed[pyth_oracles[i]] \in Prices
    BY <1>1, <2>1 DEF PriceFeeds
  <2>3. At(i) = Value(price_feed[pyth_oracles[i]])
    BY <2>2, ValueIsShown
  <2>4. QED
    BY <2>2, <2>3
<1> HIDE DEF At
<1>3. QED
  BY <1>1, <1>2 DEF FairValues

\* With the price accounts that are stored, all of them current, set_data_from_oracles
\* writes what they show.
LEMMA ReadsWhatIsShown ==
  ASSUME price_feed \in [Accounts -> PriceFeeds],
         NEW n \in Nat, n <= MaxOracles,
         pyth_oracles \in [Entries -> Accounts \union {None}],
         NEW old, \A i \in Entries : i >= n => old[i] = 0,
         \A i \in Entries : i >= n => pyth_oracles[i] = None,
         NEW oracles \in RemainingAccounts, Len(oracles) = n,
         SameKeys(oracles, pyth_oracles), Readable(oracles)
  PROVE  /\ showing = NewFairValue(oracles, old)
         /\ showing \in FairValues
<1> DEFINE At(i) == IF pyth_oracles[i] = None THEN 0 ELSE Shown(price_feed[pyth_oracles[i]])
<1>1. \A i \in Entries : i < n =>
        /\ pyth_oracles[i] = oracles[i + 1]
        /\ pyth_oracles[i] # None
        /\ price_feed[oracles[i + 1]] \in Prices
        /\ price_feed[oracles[i + 1]] # NotAPrice
        /\ price_feed[oracles[i + 1]].trading
  <2> SUFFICES ASSUME NEW i \in Entries, i < n
               PROVE  /\ pyth_oracles[i] = oracles[i + 1]
                      /\ pyth_oracles[i] # None
                      /\ price_feed[oracles[i + 1]] \in Prices
                      /\ price_feed[oracles[i + 1]] # NotAPrice
                      /\ price_feed[oracles[i + 1]].trading
    OBVIOUS
  <2>1. i + 1 \in 1 .. Len(oracles) /\ (i + 1) - 1 = i
    BY BoundsAssumption DEF Entries
  <2>2. HasCurrentPrice(price_feed[oracles[i + 1]])
    BY <2>1 DEF Readable
  <2>3. pyth_oracles[i] = oracles[i + 1] /\ pyth_oracles[i] # None
    BY <2>1 DEF SameKeys
  <2>4. oracles[i + 1] \in Accounts
    BY <2>1, RemainingAreSequences
  <2>5. QED
    BY <2>2, <2>3, <2>4 DEF HasCurrentPrice, PriceFeeds
<1>2. \A i \in Entries :
        At(i) = IF i < Len(oracles) THEN Value(price_feed[oracles[i + 1]]) ELSE old[i]
  BY <1>1, ValueIsShown, BoundsAssumption DEF Entries
<1>3. \A oracle \in Used : ~(price_feed[oracle] = NotAPrice \/ ~price_feed[oracle].trading)
  <2> SUFFICES ASSUME NEW i \in Entries, pyth_oracles[i] # None
               PROVE  ~(price_feed[pyth_oracles[i]] = NotAPrice
                          \/ ~price_feed[pyth_oracles[i]].trading)
    BY DEF Used
  <2>1. i < n
    BY BoundsAssumption DEF Entries
  <2>2. QED
    BY <1>1, <2>1
<1>4. showing = [i \in Entries |-> At(i)]
  BY <1>3 DEF showing, Shown
<1>5. showing = NewFairValue(oracles, old)
  BY <1>2, <1>4 DEF NewFairValue
<1>6. \A i \in Entries : At(i) \in {Value(feed) : feed \in Prices} \union {0}
  <2>1. \A i \in Entries : i < n => At(i) \in {Value(feed) : feed \in Prices}
    BY <1>1, <1>2
  <2>2. \A i \in Entries : ~(i < n) => At(i) = 0
    BY BoundsAssumption DEF Entries
  <2> HIDE DEF At
  <2>3. QED
    BY <2>1, <2>2
<1> HIDE DEF At
<1>7. QED
  BY <1>4, <1>5, <1>6 DEF FairValues

----------------------------------------------------------------------------
(* The refinement *)

LEMMA InitImplements == Init => Stored /\ Oracle!Init
<1> SUFFICES ASSUME Init PROVE Stored /\ Oracle!Init
  OBVIOUS
<1>1. slot \in Nat /\ slot = InitSlot
  BY BoundsAssumption DEF Init
<1>2. price_feed \in [Accounts -> PriceFeeds]
  BY DEF Init
<1>3. PICK oracles \in RemainingAccounts :
        /\ Len(oracles) \in 1 .. MaxOracles
        /\ pyth_oracles =
             [i \in Entries |-> IF i < Len(oracles) THEN oracles[i + 1] ELSE None]
        /\ SameKeys(oracles, pyth_oracles)
        /\ Readable(oracles)
        /\ fair_value = NewFairValue(oracles, [i \in Entries |-> 0])
        /\ refreshed_slot = slot
  BY DEF Init
<1> DEFINE n == Len(oracles)
<1>4. n \in Nat /\ \A i \in 1 .. n : oracles[i] \in Accounts
  BY <1>3, RemainingAreSequences
<1>5. \A i \in Entries : i < n => oracles[i + 1] \in Accounts
  BY <1>4, BoundsAssumption DEF Entries
<1>6. pyth_oracles \in [Entries -> Accounts \union {None}]
  BY <1>3, <1>5
<1>7. \A i \in Entries :
        /\ i < n => pyth_oracles[i] \in Accounts
        /\ i >= n => pyth_oracles[i] = None
  BY <1>3, <1>4, <1>5, BoundsAssumption DEF Entries
<1>8. showing = fair_value /\ showing \in FairValues
  <2> DEFINE zeros == [i \in Entries |-> 0]
  <2>1. \A i \in Entries : i >= n => zeros[i] = 0
    OBVIOUS
  <2> HIDE DEF zeros
  <2>2. showing = NewFairValue(oracles, zeros) /\ showing \in FairValues
    BY <1>2, <1>3, <1>4, <1>6, <1>7, <2>1, ReadsWhatIsShown
  <2>3. QED
    BY <1>3, <2>2 DEF zeros
<1>9. \E m \in Nat : FirstAreStored(m)
  <2>1. \A i \in Entries : i >= n => fair_value[i] = 0
    BY <1>3, <1>4, BoundsAssumption DEF NewFairValue, Entries
  <2>2. QED
    BY <1>3, <1>4, <1>6, <1>7, <1>8, <2>1 DEF FirstAreStored
<1>10. Stored
  BY <1>1, <1>2, <1>3, <1>9 DEF Stored
<1>11. QED
  BY <1>1, <1>3, <1>8, <1>10 DEF Oracle!Init, rate_state

\* A refresh that succeeds was handed the stored accounts, all of them, in their order.
LEMMA RefreshPublishes ==
  ASSUME Stored, NEW oracles \in RemainingAccounts, refresh(oracles)
  PROVE  Stored' /\ Oracle!Publish
<1>1. PICK n \in Nat : FirstAreStored(n)
  BY DEF Stored
<1>2. Len(oracles) = n
  BY <1>1, StoredAreCounted DEF refresh
<1>3. showing = NewFairValue(oracles, fair_value) /\ showing \in FairValues
  <2>1. /\ n <= MaxOracles
        /\ pyth_oracles \in [Entries -> Accounts \union {None}]
        /\ \A i \in Entries : i >= n => fair_value[i] = 0
        /\ \A i \in Entries : i >= n => pyth_oracles[i] = None
    BY <1>1, BoundsAssumption DEF FirstAreStored
  <2>2. QED
    BY <1>2, <2>1, ReadsWhatIsShown DEF Stored, refresh
<1>4. /\ fair_value' = showing
      /\ refreshed_slot' = slot
      /\ UNCHANGED <<slot, price_feed, pyth_oracles>>
  BY <1>3 DEF refresh
<1>5. UNCHANGED showing
  BY <1>4 DEF showing, Used
<1>6. FirstAreStored(n)'
  <2>1. \A i \in Entries : i >= n => fair_value'[i] = 0
    BY <1>1, <1>2, <1>3, <1>4, BoundsAssumption DEF NewFairValue, FirstAreStored, Entries
  <2>2. QED
    BY <1>1, <1>3, <1>4, <2>1 DEF FirstAreStored
<1>7. Stored'
  BY <1>4, <1>6 DEF Stored
<1>8. QED
  BY <1>3, <1>4, <1>5, <1>7, NotAPriceAssumption DEF Oracle!Publish, rate_state

\* Whatever an account shows next, together they show a vector or nothing.
LEMMA UpdatePriceShows ==
  ASSUME Stored, NEW oracle \in Accounts, NEW feed \in PriceFeeds, UpdatePrice(oracle, feed)
  PROVE  Stored' /\ Oracle!Show
<1>1. UNCHANGED <<slot, fair_value, refreshed_slot, pyth_oracles>>
  BY DEF UpdatePrice, data_vars
<1>2. price_feed' \in [Accounts -> PriceFeeds]
  BY DEF UpdatePrice, Stored
<1>3. (price_feed \in [Accounts -> PriceFeeds] /\ \E n \in Nat : FirstAreStored(n))'
  BY <1>1, <1>2 DEF Stored, FirstAreStored
<1>4. Stored'
  BY <1>1, <1>3 DEF Stored
<1>5. ((price_feed \in [Accounts -> PriceFeeds] /\ \E n \in Nat : FirstAreStored(n))
         => showing \in FairValues \union {NotAPrice})'
  BY ShowingIsVectorOrNot, PTL
<1>6. QED
  BY <1>1, <1>3, <1>4, <1>5 DEF Oracle!Show, rate_state

LEMMA NextImplements ==
  ASSUME Stored, [Next]_vars
  PROVE  Stored' /\ [Oracle!Next]_Oracle!vars
<1>1. CASE Tick
  <2>1. /\ slot' = slot + 1
        /\ UNCHANGED <<price_feed, fair_value, refreshed_slot, pyth_oracles>>
    BY <1>1 DEF Tick, data_vars
  <2>2. UNCHANGED <<showing, rate_state>>
    BY <2>1 DEF showing, Used, rate_state
  <2>3. slot' \in Nat /\ 0 .. slot \subseteq 0 .. slot'
    BY <2>1 DEF Stored
  <2>4. Stored'
    BY <2>1, <2>3 DEF Stored, FirstAreStored
  <2>5. QED
    BY <2>1, <2>2, <2>4 DEF Oracle!Next, Oracle!Tick
<1>2. CASE UNCHANGED vars
  <2>1. UNCHANGED <<slot, price_feed, fair_value, refreshed_slot, pyth_oracles>>
    BY <1>2 DEF vars, data_vars
  <2>2. UNCHANGED <<slot, showing, rate_state>>
    BY <2>1 DEF showing, Used, rate_state
  <2>3. Stored'
    BY <2>1 DEF Stored, FirstAreStored
  <2>4. QED
    BY <2>2, <2>3 DEF Oracle!vars
<1>3. QED
  BY <1>1, <1>2, RefreshPublishes, UpdatePriceShows DEF Next, Oracle!Next

\* The account shows the prices of all its oracles at one moment, in their order, with the
\* slot of it, for any number of oracles, in whatever order and number accounts are handed in
\* and whatever they show in between.
THEOREM PythIsOracleReader == Spec => ImplementsOracleReader
<1>1. QED
  BY InitImplements, NextImplements, PTL DEF Spec, ImplementsOracleReader, Oracle!Spec

=============================================================================
