-------------------------- MODULE RatePoolv2_proofs -------------------------
(***************************************************************************)
(* Rate-poolv2 for every set of pools, every supply and every number of       *)
(* decimals of their mints; and what a farming config may rely on, when the   *)
(* pool's program keeps the product of what the pool holds.                  *)
(***************************************************************************)
EXTENDS FarmingPool, DecimalTheorems

TypeOK ==
  /\ slot \in Nat
  /\ pool_amounts \in [Pools -> Amounts]
  /\ rate_pool \in Pools
  /\ fair_value \in FairValues
  /\ refreshed_slot \in 0 .. slot

----------------------------------------------------------------------------
(* The prices *)

LEMMA AmountsAreNats == Amounts \subseteq [base : Nat, quote : Nat, lp : Nat]
BY BoundsAssumption DEF Amounts

LEMMA SupplyIsNat ==
  ASSUME NEW supply \in Nat, NEW pool \in Pools, NEW mint \in Mints
  PROVE  to_dec(supply, decimals[pool][mint]) \in Nat
<1>1. 10 ^ decimals[pool][mint] \in Nat \ {0}
  BY PoolsAssumption
<1>2. /\ Dec(supply) * SCALE \in Nat
      /\ Dec(10 ^ decimals[pool][mint]) \in Nat \ {0}
  BY <1>1, ScaleAssumption DEF Dec
<1>3. QED
  BY <1>2, RoundingIsNat DEF to_dec, DecDiv

LEMMA QuotientsAreInts ==
  ASSUME NEW a \in Nat, NEW b \in Nat, NEW x \in checked_div(a, b)
  PROVE  x \in Int
<1>1. b \in Nat \ {0} /\ x = RoundHalfEven(a * SCALE, b)
  BY DEF checked_div, DecDiv
<1>2. QED
  BY <1>1, ScaleAssumption, RoundingError

\* get_prices has one result or none.
LEMMA PricesAreUnique ==
  ASSUME NEW b \in Nat, NEW q \in Nat, NEW l \in Nat,
         NEW x \in get_prices(b, q, l), NEW y \in get_prices(b, q, l)
  PROVE  x \in FairValues /\ x = y
<1>1. PICK lp \in lp_prices(q, l), base \in base_prices(q, b) :
        x = [i \in 0 .. 9 |-> IF i = 0 THEN lp ELSE IF i = 1 THEN base ELSE 0]
  BY DEF get_prices
<1>2. PICK lp2 \in lp_prices(q, l), base2 \in base_prices(q, b) :
        y = [i \in 0 .. 9 |-> IF i = 0 THEN lp2 ELSE IF i = 1 THEN base2 ELSE 0]
  BY DEF get_prices
<1>3. lp = lp2 /\ base = base2
  BY DEF lp_prices, base_prices, checked_div
<1>4. lp \in Int /\ base \in Int
  BY QuotientsAreInts DEF lp_prices, base_prices
<1>5. QED
  BY <1>1, <1>2, <1>3, <1>4 DEF FairValues

LEMMA PoolHasOnePrice ==
  TypeOK => \A prices \in OwnPrices :
              prices \in FairValues /\ showing = prices /\ showing # NoPrice
<1> SUFFICES ASSUME TypeOK, NEW prices \in OwnPrices
             PROVE  prices \in FairValues /\ showing = prices /\ showing # NoPrice
  OBVIOUS
<1> DEFINE b == to_dec(pool_amounts[rate_pool].base, decimals[rate_pool]["base_mint"])
           q == to_dec(pool_amounts[rate_pool].quote, decimals[rate_pool]["quote_mint"])
           l == to_dec(pool_amounts[rate_pool].lp, decimals[rate_pool]["lp_mint"])
<1>1. OwnPrices = get_prices(b, q, l)
  BY DEF OwnPrices, PricesOf, Accounts, Mints
<1>2. b \in Nat /\ q \in Nat /\ l \in Nat
  BY AmountsAreNats, SupplyIsNat DEF TypeOK, Mints
<1> HIDE DEF b, q, l
<1>3. \A x, y \in OwnPrices : x \in FairValues /\ x = y
  BY <1>1, <1>2, PricesAreUnique
<1>4. showing \in OwnPrices
  BY DEF showing
<1>5. QED
  BY <1>3, <1>4, NoPriceAssumption

----------------------------------------------------------------------------
(* The refinement *)

LEMMA InitImplements == Init => TypeOK /\ Oracle!Init
<1> SUFFICES ASSUME Init PROVE TypeOK /\ Oracle!Init
  OBVIOUS
<1>1. fair_value \in OwnPrices
  BY DEF Init, OwnPrices
<1>2. slot \in Nat /\ refreshed_slot = slot
  BY BoundsAssumption DEF Init
<1>3. pool_amounts \in [Pools -> Amounts] /\ rate_pool \in Pools
  BY BoundsAssumption DEF Init, AmountsOfPools
<1>4. TypeOK
  <2>1. fair_value \in FairValues
    <3> DEFINE b == to_dec(pool_amounts[rate_pool].base, decimals[rate_pool]["base_mint"])
               q == to_dec(pool_amounts[rate_pool].quote, decimals[rate_pool]["quote_mint"])
               l == to_dec(pool_amounts[rate_pool].lp, decimals[rate_pool]["lp_mint"])
    <3>1. b \in Nat /\ q \in Nat /\ l \in Nat
      BY <1>3, AmountsAreNats, SupplyIsNat DEF Mints
    <3>2. fair_value \in get_prices(b, q, l)
      BY <1>1 DEF OwnPrices, PricesOf, Accounts, Mints
    <3> HIDE DEF b, q, l
    <3>3. QED
      BY <3>1, <3>2, PricesAreUnique
  <2>2. QED
    BY <1>2, <1>3, <2>1 DEF TypeOK
<1>5. showing = fair_value
  BY <1>1, <1>4, PoolHasOnePrice
<1>6. QED
  BY <1>2, <1>4, <1>5 DEF TypeOK, Oracle!Init, rate_state

\* A refresh that succeeds was handed the accounts of its own pool.
LEMMA RefreshPublishes ==
  ASSUME TypeOK, NEW given \in [Accounts -> Pools], refresh(given)
  PROVE  TypeOK' /\ Oracle!Publish
<1>1. given = [a \in Accounts |-> rate_pool]
  BY DEF refresh, HasOne
<1>2. fair_value' \in OwnPrices
  BY <1>1 DEF refresh, OwnPrices
<1>3. fair_value' \in FairValues /\ showing = fair_value' /\ showing # NoPrice
  BY <1>2, PoolHasOnePrice
<1>4. UNCHANGED <<slot, pool_amounts, rate_pool>> /\ refreshed_slot' = slot
  BY DEF refresh
<1>5. showing' = showing
  BY <1>4 DEF showing, OwnPrices, PricesOf
<1>6. TypeOK'
  BY <1>3, <1>4 DEF TypeOK
<1>7. QED
  BY <1>3, <1>4, <1>5, <1>6 DEF Oracle!Publish, rate_state

\* Whatever a pool does, it shows one price or none.
LEMMA PoolMovesShow ==
  ASSUME TypeOK, NEW pool \in Pools, NEW amounts \in PoolAmounts[pool],
         PoolMoves(pool, amounts)
  PROVE  TypeOK' /\ Oracle!Show
<1>1. TypeOK'
  BY BoundsAssumption DEF PoolMoves, TypeOK
<1>2. showing' \in FairValues \union {NoPrice}
  <2>1. CASE OwnPrices' = {}
    BY <2>1 DEF showing
  <2>2. CASE OwnPrices' # {}
    <3>1. TypeOK' => (\A prices \in OwnPrices :
                        prices \in FairValues /\ showing = prices /\ showing # NoPrice)'
      BY PoolHasOnePrice, PTL
    <3>2. QED
      BY <1>1, <2>2, <3>1
  <2>3. QED
    BY <2>1, <2>2
<1>3. QED
  BY <1>1, <1>2 DEF PoolMoves, Oracle!Show, rate_state

LEMMA NextImplements ==
  ASSUME TypeOK, [Next]_vars
  PROVE  TypeOK' /\ [Oracle!Next]_Oracle!vars
<1>1. CASE Tick
  <2>1. UNCHANGED <<showing, rate_state>>
    BY <1>1 DEF Tick, showing, OwnPrices, PricesOf, rate_state
  <2>2. TypeOK'
    BY <1>1 DEF Tick, TypeOK
  <2>3. QED
    BY <1>1, <2>1, <2>2 DEF Tick, Oracle!Next, Oracle!Tick
<1>2. CASE UNCHANGED vars
  <2>1. UNCHANGED <<slot, showing, rate_state>>
    BY <1>2 DEF vars, showing, OwnPrices, PricesOf, rate_state
  <2>2. TypeOK'
    BY <1>2 DEF vars, TypeOK
  <2>3. QED
    BY <2>1, <2>2 DEF Oracle!vars
<1>3. QED
  BY <1>1, <1>2, RefreshPublishes, PoolMovesShow DEF Next, Oracle!Next

\* Rate-poolv2 reads its own pool and no other, at one moment, whatever accounts it is handed
\* and for pools of any size and mints of any decimals.
THEOREM PoolIsOracleReader == Spec => ImplementsOracleReader
<1>1. QED
  BY InitImplements, NextImplements, PTL DEF Spec, ImplementsOracleReader, Oracle!Spec

----------------------------------------------------------------------------
(* The worth of LP tokens *)

LEMMA BothSidesCount ==
  ASSUME NEW b \in Nat, NEW q \in Nat, NEW l \in Nat, NEW prices \in get_prices(b, q, l)
  PROVE  l * prices[0] - (q * SCALE + b * prices[1]) \in -(l + b) .. l + b
<1> DEFINE c  == q * SCALE
           p0 == RoundHalfEven(2 * q * SCALE, l)
           p1 == RoundHalfEven(q * SCALE, b)
<1>1. PICK lp \in lp_prices(q, l), base \in base_prices(q, b) :
        prices = [i \in 0 .. 9 |-> IF i = 0 THEN lp ELSE IF i = 1 THEN base ELSE 0]
  BY DEF get_prices
<1>2. l \in Nat \ {0} /\ b \in Nat \ {0} /\ prices[0] = p0 /\ prices[1] = p1
  BY <1>1 DEF lp_prices, base_prices, checked_div, DecDiv
<1>3. c \in Int /\ 2 * q * SCALE = 2 * c
  BY ScaleAssumption
<1>4. /\ p0 \in Int
      /\ 2 * (l * p0 - 2 * c) <= l
      /\ 2 * (2 * c - l * p0) <= l
  BY <1>2, <1>3, RoundingError
<1>5. /\ p1 \in Int
      /\ 2 * (b * p1 - c) <= b
      /\ 2 * (c - b * p1) <= b
  BY <1>2, <1>3, RoundingError
<1> HIDE DEF c, p0, p1
<1>6. l * p0 - (c + b * p1) \in -(l + b) .. l + b
  <2> DEFINE x == l * p0
             y == b * p1
  <2>1. x \in Int /\ y \in Int
    BY <1>4, <1>5
  <2> HIDE DEF x, y
  <2>2. x - (c + y) \in -(l + b) .. l + b
    BY <1>3, <1>4, <1>5, <2>1 DEF x, y
  <2>3. QED
    BY <2>2 DEF x, y
<1>7. QED
  BY <1>2, <1>6 DEF c

\* All LP tokens together are worth what the pool holds, up to the rounding of two prices,
\* for pools of any size and mints of any decimals.
THEOREM LpTokensWorthPool == Spec => []LpTokensAreWorthThePool
<1>1. TypeOK => LpTokensAreWorthThePool
  <2> SUFFICES ASSUME TypeOK, NEW prices \in OwnPrices
               PROVE  LET amounts == pool_amounts[rate_pool]
                          places  == decimals[rate_pool]
                          base    == to_dec(amounts.base, places["base_mint"])
                          quote   == to_dec(amounts.quote, places["quote_mint"])
                          lp      == to_dec(amounts.lp, places["lp_mint"])
                      IN  lp * prices[0] - (quote * SCALE + base * prices[1])
                            \in -(lp + base) .. lp + base
    BY DEF LpTokensAreWorthThePool
  <2> DEFINE b == to_dec(pool_amounts[rate_pool].base, decimals[rate_pool]["base_mint"])
             q == to_dec(pool_amounts[rate_pool].quote, decimals[rate_pool]["quote_mint"])
             l == to_dec(pool_amounts[rate_pool].lp, decimals[rate_pool]["lp_mint"])
  <2>1. prices \in get_prices(b, q, l)
    BY DEF OwnPrices, PricesOf, Accounts, Mints
  <2>2. b \in Nat /\ q \in Nat /\ l \in Nat
    BY AmountsAreNats, SupplyIsNat DEF TypeOK, Mints
  <2>3. l * prices[0] - (q * SCALE + b * prices[1]) \in -(l + b) .. l + b
    <3> HIDE DEF b, q, l
    <3> QED
      BY <2>1, <2>2, BothSidesCount
  <2>4. QED
    BY <2>3
<1>2. QED
  BY <1>1, InitImplements, NextImplements, PTL DEF Spec

----------------------------------------------------------------------------
(* What a pool earns: two prices of it, and the plugin's arithmetic on them *)

\* The farming plugin computes with the operators of the pool reader.
LEMMA FarmingArithmetic ==
  /\ \A n, d : Farming!RoundHalfEven(n, d) = RoundHalfEven(n, d)
  /\ \A a, b : Farming!DecMul(a, b) = DecMul(a, b)
  /\ \A a, b : Farming!DecDiv(a, b) = DecDiv(a, b)
  /\ \A d : Farming!DecSqrt(d) = DecSqrt(d)
  /\ \A a, b : Farming!Lesser(a, b) = Lesser(a, b) /\ Farming!Greater(a, b) = Greater(a, b)
<1>1. ASSUME NEW n, NEW d PROVE Farming!RoundHalfEven(n, d) = RoundHalfEven(n, d)
  BY Zenon DEF Farming!RoundHalfEven, RoundHalfEven
<1>2. ASSUME NEW a, NEW b PROVE Farming!DecMul(a, b) = DecMul(a, b)
  BY <1>1, Zenon DEF Farming!DecMul, DecMul
<1>3. ASSUME NEW a, NEW b PROVE Farming!DecDiv(a, b) = DecDiv(a, b)
  BY <1>1, Zenon DEF Farming!DecDiv, DecDiv
<1>4. ASSUME NEW d PROVE Farming!DecSqrt(d) = DecSqrt(d)
  BY Zenon DEF Farming!DecSqrt, DecSqrt, Farming!Newton, Newton, Farming!NewtonStep,
     NewtonStep, Farming!NewtonStart, NewtonStart,
     Farming!DecDiv, DecDiv, Farming!RoundHalfEven, RoundHalfEven
<1>5. ASSUME NEW a, NEW b
      PROVE  Farming!Lesser(a, b) = Lesser(a, b) /\ Farming!Greater(a, b) = Greater(a, b)
  BY Zenon DEF Farming!Lesser, Lesser, Farming!Greater, Greater
<1>6. QED
  BY <1>1, <1>2, <1>3, <1>4, <1>5, Zenon

\* A supply of tokens with no more decimals than a Decimal has digits is not rounded.
LEMMA SupplyExact ==
  ASSUME NEW supply \in Nat, NEW places, NEW k \in Nat, 10 ^ places \in Nat \ {0},
         SCALE = (10 ^ places) * k
  PROVE  to_dec(supply, places) = supply * k
<1> DEFINE P == 10 ^ places
           d == P * SCALE
           x == supply * k
<1>1. P \in Nat \ {0} /\ SCALE = P * k
  OBVIOUS
<1> HIDE DEF P
<1>2. d \in Nat \ {0} /\ x \in Int
  BY <1>1, ScaleAssumption
<1>3. (supply * SCALE) * SCALE = x * d
  <2>1. (supply * SCALE) * SCALE = (supply * (P * k)) * SCALE
    BY <1>1
  <2>2. (supply * (P * k)) * SCALE = x * d
    BY <1>1, ScaleAssumption
  <2>3. QED
    BY <2>1, <2>2
<1>4. to_dec(supply, places) = RoundHalfEven((supply * SCALE) * SCALE, d)
  BY DEF to_dec, DecDiv, Dec, P
<1> HIDE DEF d, x
<1>5. RoundHalfEven(x * d, d) = x
  BY <1>2, RoundingExact
<1>6. QED
  BY <1>3, <1>4, <1>5 DEF x

\* Two prices off a pool, as inequalities.
LEMMA PricesWithin ==
  ASSUME NEW b \in Nat, NEW q \in Nat, NEW lp \in Nat, NEW prices \in get_prices(b, q, lp)
  PROVE  /\ b \in Nat \ {0} /\ lp \in Nat \ {0} /\ prices[0] \in Nat /\ prices[1] \in Nat
         /\ (2 * prices[0] - 1) * lp <= 4 * (q * SCALE)
         /\ 4 * (q * SCALE) <= (2 * prices[0] + 1) * lp
         /\ (2 * prices[1] - 1) * b <= 2 * (q * SCALE)
         /\ 2 * (q * SCALE) <= (2 * prices[1] + 1) * b
<1> DEFINE c  == q * SCALE
           p0 == RoundHalfEven(2 * q * SCALE, lp)
           p1 == RoundHalfEven(q * SCALE, b)
<1>1. PICK one \in lp_prices(q, lp), other \in base_prices(q, b) :
        prices = [i \in 0 .. 9 |-> IF i = 0 THEN one ELSE IF i = 1 THEN other ELSE 0]
  BY DEF get_prices
<1>2. lp \in Nat \ {0} /\ b \in Nat \ {0} /\ prices[0] = p0 /\ prices[1] = p1
  BY <1>1 DEF lp_prices, base_prices, checked_div, DecDiv
<1>3. c \in Nat /\ c \in Int /\ 2 * q * SCALE = 2 * c /\ 2 * c \in Nat /\ 2 * c \in Int
  BY ScaleAssumption
<1>4. /\ p0 \in Nat
      /\ 2 * (lp * p0 - 2 * c) <= lp
      /\ 2 * (2 * c - lp * p0) <= lp
  BY <1>2, <1>3, RoundingError, RoundingIsNat
<1>5. /\ p1 \in Nat
      /\ 2 * (b * p1 - c) <= b
      /\ 2 * (c - b * p1) <= b
  BY <1>2, <1>3, RoundingError, RoundingIsNat
<1> HIDE DEF c, p0, p1
<1>6. /\ (2 * p0 - 1) * lp = 2 * (lp * p0) - lp /\ (2 * p0 + 1) * lp = 2 * (lp * p0) + lp
      /\ (2 * p1 - 1) * b = 2 * (b * p1) - b /\ (2 * p1 + 1) * b = 2 * (b * p1) + b
      /\ lp * p0 \in Int /\ b * p1 \in Int
  BY <1>2, <1>4, <1>5
<1>7. /\ (2 * p0 - 1) * lp <= 4 * c /\ 4 * c <= (2 * p0 + 1) * lp
      /\ (2 * p1 - 1) * b <= 2 * c /\ 2 * c <= (2 * p1 + 1) * b
  BY <1>2, <1>3, <1>4, <1>5, <1>6
<1>8. QED
  BY <1>2, <1>4, <1>5, <1>7 DEF c

\* What the product of a pool's amounts per LP token, which never falls, says of the prices.
LEMMA PricesGrow ==
  ASSUME NEW b \in Nat \ {0}, NEW q \in Nat, NEW lp \in Nat \ {0},
         NEW e \in Nat \ {0}, NEW p \in Nat, NEW k \in Nat \ {0},
         (e * p) * (lp * lp) >= (b * q) * (k * k),
         NEW l \in Nat \ {0}, NEW u \in Nat \ {0}, NEW n \in Nat \ {0}, NEW v \in Nat \ {0},
         (2 * l - 1) * lp <= 4 * (q * SCALE), 2 * (q * SCALE) <= (2 * u + 1) * b,
         4 * (p * SCALE) <= (2 * n + 1) * k, (2 * v - 1) * e <= 2 * (p * SCALE)
  PROVE  ((2 * l - 1) * (2 * l - 1)) * (2 * v - 1) <= ((2 * n + 1) * (2 * n + 1)) * (2 * u + 1)
<1> DEFINE a1 == 2 * l - 1
           a2 == 2 * v - 1
           b1 == 2 * n + 1
           b2 == 2 * u + 1
           G == 4 * (q * SCALE)
           H == 4 * (p * SCALE)
<1>1. /\ a1 \in Nat /\ a2 \in Nat /\ b1 \in Nat /\ b2 \in Nat /\ G \in Nat /\ H \in Nat
      /\ a1 * lp <= G /\ G <= 2 * (b2 * b) /\ H <= b1 * k /\ 2 * (a2 * e) <= H
  <2>1. q * SCALE \in Nat /\ p * SCALE \in Nat
    BY ScaleAssumption
  <2>2. (2 * u + 1) * b \in Nat /\ (2 * v - 1) * e \in Nat
    <3>1. 2 * v - 1 \in Nat
      OBVIOUS
    <3>2. QED
      BY <3>1
  <2>3. QED
    BY <2>1, <2>2
<1>2. (e * H) * (lp * lp) >= (b * G) * (k * k)
  <2> DEFINE x == (e * p) * (lp * lp)
             y == (b * q) * (k * k)
             f == 4 * SCALE
  <2>1. x \in Nat /\ y \in Nat /\ y <= x /\ f \in Nat
    BY ScaleAssumption
  <2>2. (e * H) * (lp * lp) = f * x /\ (b * G) * (k * k) = f * y
    BY ScaleAssumption
  <2> HIDE DEF x, y, f
  <2>3. f * y <= f * x
    BY <2>1
  <2>4. QED
    BY <2>2, <2>3
<1> HIDE DEF a1, a2, b1, b2, G, H
<1> DEFINE left  == (a1 * a1) * a2
           right == (b1 * b1) * b2
           W == (lp * lp) * (k * k)
           V == 2 * ((W * e) * b)
<1>3. left \in Nat /\ right \in Nat /\ V \in Nat \ {0}
  <2>1. W \in Nat \ {0}
    <3>1. lp * lp \in Nat \ {0} /\ k * k \in Nat \ {0}
      OBVIOUS
    <3>2. QED
      BY <3>1
  <2> HIDE DEF W
  <2>2. (W * e) * b \in Nat \ {0}
    <3>1. W * e \in Nat \ {0}
      BY <2>1
    <3>2. QED
      BY <3>1
  <2>3. left \in Nat /\ right \in Nat
    BY <1>1
  <2>4. QED
    BY <2>2, <2>3
<1>4. V * left <= (G * H) * ((b * G) * (k * k))
  <2> DEFINE s == a1 * lp
             t == 2 * (a2 * e)
             w == b * (k * k)
  <2>1. s \in Nat /\ t \in Nat /\ w \in Nat /\ s <= G /\ t <= H
    BY <1>1
  <2>2. V * left = ((s * s) * t) * w
    BY <1>1
  <2>3. (G * H) * ((b * G) * (k * k)) = ((G * G) * H) * w
    BY <1>1
  <2> HIDE DEF s, t, w, V, left
  <2>4. s * s <= G * G /\ s * s \in Nat /\ G * G \in Nat
    BY <1>1, <2>1, TimesMonotone
  <2> DEFINE x == s * s
             y == G * G
  <2>5. x \in Nat /\ y \in Nat /\ x <= y
    BY <2>4
  <2> HIDE DEF x, y
  <2>6. x * t <= y * H /\ x * t \in Nat /\ y * H \in Nat
    BY <1>1, <2>1, <2>5, TimesMonotone
  <2> DEFINE i == x * t
             j == y * H
  <2>7. i \in Nat /\ j \in Nat /\ i <= j
    BY <2>6
  <2> HIDE DEF i, j
  <2>8. i * w <= j * w
    BY <2>1, <2>7, TimesMonotone
  <2>9. QED
    BY <2>2, <2>3, <2>8 DEF i, j, x, y
<1>5. (G * H) * ((b * G) * (k * k)) <= (G * H) * ((e * H) * (lp * lp))
  <2> DEFINE x == (b * G) * (k * k)
             y == (e * H) * (lp * lp)
             f == G * H
  <2>1. x \in Nat /\ y \in Nat /\ x <= y /\ f \in Nat
    BY <1>1, <1>2
  <2> HIDE DEF x, y, f
  <2>2. f * x <= f * y
    BY <2>1
  <2>3. QED
    BY <2>2 DEF x, y, f
<1>6. (G * H) * ((e * H) * (lp * lp)) <= V * right
  <2> DEFINE s == 2 * (b2 * b)
             t == b1 * k
             w == e * (lp * lp)
  <2>1. s \in Nat /\ t \in Nat /\ w \in Nat /\ G <= s /\ H <= t
    BY <1>1
  <2>2. V * right = ((t * t) * s) * w
    BY <1>1
  <2>3. (G * H) * ((e * H) * (lp * lp)) = ((H * H) * G) * w
    BY <1>1
  <2> HIDE DEF s, t, w, V, right
  <2>4. H * H <= t * t /\ t * t \in Nat /\ H * H \in Nat
    BY <1>1, <2>1, TimesMonotone
  <2> DEFINE x == H * H
             y == t * t
  <2>5. x \in Nat /\ y \in Nat /\ x <= y
    BY <2>4
  <2> HIDE DEF x, y
  <2>6. x * G <= y * s /\ x * G \in Nat /\ y * s \in Nat
    BY <1>1, <2>1, <2>5, TimesMonotone
  <2> DEFINE i == x * G
             j == y * s
  <2>7. i \in Nat /\ j \in Nat /\ i <= j
    BY <2>6
  <2> HIDE DEF i, j
  <2>8. i * w <= j * w
    BY <2>1, <2>7, TimesMonotone
  <2>9. QED
    BY <2>2, <2>3, <2>8 DEF i, j, x, y
<1>7. V * left <= V * right
  <2> DEFINE x == (G * H) * ((b * G) * (k * k))
             y == (G * H) * ((e * H) * (lp * lp))
             i == V * left
             j == V * right
  <2>1. x \in Int /\ y \in Int
    BY <1>1
  <2>2. i \in Int /\ j \in Int
    <3> HIDE DEF V, left, right
    <3>1. QED
      BY <1>3
  <2>3. i <= x /\ x <= y /\ y <= j
    BY <1>4, <1>5, <1>6
  <2> HIDE DEF x, y, i, j
  <2>4. i <= j
    BY <2>1, <2>2, <2>3
  <2>5. QED
    BY <2>4 DEF i, j
<1> HIDE DEF left, right, V
<1>8. left <= right
  BY <1>3, <1>7, Cancels
<1>9. QED
  BY <1>8 DEF left, right, a1, a2, b1, b2

LEMMA RootBelowBound ==
  ASSUME NEW u \in Nat \ {0}, NEW v \in Nat \ {0}, NEW r \in DecSqrt(DecMul(u, v))
  PROVE  r \in Nat /\ RootBound(u, v) \in Nat /\ r <= RootBound(u, v) /\ u <= RootBound(u, v)
<1> DEFINE g == Greater(u, v)
           t == SCALE \div (2 * g)
           a == g + t
<1>1. g \in Nat \ {0} /\ u <= g /\ v <= g
  BY DEF Greater
<1>2. RootBound(u, v) = g + 2 + t
  BY FarmingArithmetic DEF RootBound
<1> HIDE DEF g
<1>3. t \in Nat /\ SCALE < 2 * (g * t) + 2 * g
  <2> DEFINE d == 2 * g
  <2>1. d \in Nat \ {0} /\ SCALE \in Nat /\ SCALE \in Int
    BY <1>1, ScaleAssumption
  <2> HIDE DEF d
  <2>2. SCALE \div d \in Nat
    BY <2>1, DivIsNat
  <2>3. SCALE % d \in 0 .. d - 1 /\ SCALE = d * (SCALE \div d) + (SCALE % d)
    BY <2>1, DivModFact, Zenon
  <2>4. t \in Nat /\ SCALE < d * t + d
    BY <2>1, <2>2, <2>3 DEF d
  <2> HIDE DEF t
  <2>5. d * t + d = 2 * (g * t) + 2 * g
    BY <1>1, <2>4 DEF d
  <2>6. QED
    BY <2>4, <2>5
<1> HIDE DEF t
<1>4. r \in Nat /\ 2 * (r * r - u * v) <= SCALE + 3 * r
  BY RootOfProduct
<1>5. u * v <= g * g /\ u * v \in Nat /\ g * g \in Nat
  BY <1>1, TimesMonotone
<1>6. r <= g + 2 + t
  <2>1. SUFFICES ASSUME r >= a + 3 PROVE FALSE
    BY <1>1, <1>3, <1>4
  <2>2. a + 3 \in Nat /\ 2 * a + 3 \in Nat /\ 2 * r - 3 \in Nat /\ 2 * a + 3 <= 2 * r - 3
    BY <1>1, <1>3, <1>4, <2>1
  <2>3. (a + 3) * (2 * a + 3) <= r * (2 * r - 3)
    <3> DEFINE i == a + 3
               j == 2 * a + 3
               k == 2 * r - 3
    <3>1. i \in Nat /\ j \in Nat /\ k \in Nat /\ i <= r /\ j <= k
      BY <2>1, <2>2
    <3> HIDE DEF i, j, k
    <3>2. i * j <= r * k
      BY <1>4, <3>1, TimesMonotone
    <3>3. QED
      BY <3>2 DEF i, j, k
  <2>4. (a + 3) * (2 * a + 3)
          = 2 * (g * g) + 4 * (g * t) + 2 * (t * t) + 9 * g + 9 * t + 9
    BY <1>1, <1>3
  <2>5. r * (2 * r - 3) = 2 * (r * r) - 3 * r
    BY <1>4
  <2>6. g * t \in Nat /\ t * t \in Nat /\ r * r \in Nat
    BY <1>1, <1>3, <1>4
  <2> HIDE DEF a
  <2>7. QED
    BY <1>1, <1>3, <1>4, <1>5, <2>3, <2>4, <2>5, <2>6, ScaleAssumption
<1>7. QED
  BY <1>1, <1>2, <1>3, <1>4, <1>6

LEMMA EarnedRoots ==
  ASSUME NEW l \in Nat \ {0}, NEW u \in Nat \ {0}, NEW n \in Nat \ {0}, NEW v \in Nat \ {0},
         ((2 * l - 1) * (2 * l - 1)) * (2 * v - 1) <= ((2 * n + 1) * (2 * n + 1)) * (2 * u + 1),
         NEW r \in DecSqrt(DecMul(u, v))
  PROVE  LET drop == (2 * SCALE + 2 * u + 1) \div (2 * Lesser(u, v) - 1)
         IN  drop \in Nat
             /\ 2 * (r * (2 * l - 1)) - (2 * n + 1) * (2 * u + 1) <= (2 * l - 1) * (3 + drop)
<1> DEFINE m == 2 * l - 1
           N == (2 * n + 1) * (2 * u + 1)
           K == 2 * SCALE + 2 * u + 1
           w == 2 * Lesser(u, v) - 1
           f == (2 * v - 1) * (2 * u + 1)
           Z == 2 * r
           Y == Z * m - N
           drop == K \div w
<1>0. SUFFICES drop \in Nat /\ Y <= m * (3 + drop)
  <2>1. Z * m = 2 * (r * m)
    <3> HIDE DEF m
    <3>1. r \in Nat
      BY RootOfProduct
    <3>2. m \in Int
      BY DEF m
    <3>3. QED
      BY <3>1, <3>2
  <2>2. Y = 2 * (r * m) - N
    BY <2>1
  <2> HIDE DEF Y
  <2>3. QED
    BY <2>2, Zenon
<1>1. r \in Nat /\ 2 * (r * r - u * v) <= SCALE + 3 * r
  BY RootOfProduct
<1>2. m \in Nat \ {0} /\ N \in Nat \ {0} /\ K \in Nat /\ Z \in Nat /\ 2 * v - 1 \in Nat
  <2>1. (2 * n + 1) * (2 * u + 1) \in Nat \ {0}
    <3> DEFINE a == 2 * n + 1
               b == 2 * u + 1
    <3>1. a \in Nat \ {0} /\ b \in Nat \ {0}
      OBVIOUS
    <3> HIDE DEF a, b
    <3>2. a * b \in Nat \ {0}
      BY <3>1
    <3>3. QED
      BY <3>2 DEF a, b
  <2>2. QED
    BY <1>1, <2>1, ScaleAssumption
<1>3. w \in Nat \ {0} /\ w * w <= f /\ f \in Nat
  <2>1. w \in Nat \ {0} /\ w <= 2 * v - 1 /\ w <= 2 * u + 1
    BY DEF Lesser
  <2> HIDE DEF w
  <2>2. 2 * v - 1 \in Nat /\ 2 * u + 1 \in Nat
    OBVIOUS
  <2>3. QED
    BY <2>1, <2>2, TimesMonotone
<1>4. m * m * f <= N * N
  <2> DEFINE a == (m * m) * (2 * v - 1)
             b == ((2 * n + 1) * (2 * n + 1)) * (2 * u + 1)
             c == 2 * u + 1
  <2>1. a \in Int /\ b \in Int /\ a <= b /\ c \in Nat
    OBVIOUS
  <2>2. m * m * f = a * c /\ N * N = b * c
    OBVIOUS
  <2> HIDE DEF a, b, c
  <2>3. a * c <= b * c
    BY <2>1
  <2>4. QED
    BY <2>2, <2>3
<1>5. Z * Z <= f + K + 3 * Z
  <2>1. Z * Z = 4 * (r * r) /\ f = 4 * (u * v) + 2 * v - 2 * u - 1
    BY <1>1
  <2>2. r * r \in Int /\ u * v \in Int
    BY <1>1
  <2> HIDE DEF f
  <2>3. QED
    BY <1>1, <2>1, <2>2, ScaleAssumption
<1>6. drop \in Nat /\ (\A x \in Int : x * w <= K => x <= drop)
  <2> HIDE DEF K, w
  <2>1. drop \in Nat
    BY <1>2, <1>3, DivIsNat
  <2>2. QED
    BY <1>2, <1>3, <2>1, AtMostQuotient
<1> HIDE DEF m, N, K, w, f, Z, drop
<1>7. Y \in Int
  BY <1>2
<1>8. CASE Y <= 3 * m
  <2>1. m * (3 + drop) = 3 * m + m * drop /\ m * drop \in Nat
    BY <1>2, <1>6
  <2>2. Y <= m * (3 + drop)
    BY <1>2, <1>7, <1>8, <2>1
  <2>3. QED
    BY <1>6, <2>2
<1>9. CASE Y > 3 * m
  <2>1. Y * (Z * m + N) = (m * m) * (Z * Z) - N * N
    BY <1>2
  <2>2. (m * m) * (Z * Z) <= m * m * f + (m * m) * K + 3 * ((m * m) * Z)
    <3> DEFINE a == Z * Z
               b == f + K + 3 * Z
               c == m * m
    <3>1. a \in Nat /\ b \in Nat /\ a <= b /\ c \in Nat
      BY <1>2, <1>3, <1>5
    <3>2. c * b = m * m * f + (m * m) * K + 3 * ((m * m) * Z)
      BY <1>2, <1>3
    <3> HIDE DEF a, b, c
    <3>3. c * a <= c * b
      BY <3>1
    <3>4. QED
      BY <3>2, <3>3 DEF a, c
  <2>3. Y * (Z * m) >= 3 * ((m * m) * Z)
    <3> DEFINE a == Z * m
               b == 3 * m
    <3>1. a \in Nat /\ b \in Nat /\ b <= Y
      BY <1>2, <1>7, <1>9
    <3>2. b * a = 3 * ((m * m) * Z)
      BY <1>2
    <3> HIDE DEF a, b, Y
    <3>3. b * a <= Y * a
      BY <1>7, <3>1
    <3>4. QED
      BY <3>2, <3>3 DEF a
  <2>4. Y * N <= (m * m) * K
    <3>1. Y * (Z * m + N) = Y * (Z * m) + Y * N
      BY <1>2, <1>7
    <3>2. /\ (m * m) * (Z * Z) \in Int /\ N * N \in Int /\ m * m * f \in Int
          /\ (m * m) * K \in Int /\ (m * m) * Z \in Int /\ Y * (Z * m) \in Int /\ Y * N \in Int
      BY <1>2, <1>3, <1>7
    <3> HIDE DEF Y
    <3>3. QED
      BY <1>4, <2>1, <2>2, <2>3, <3>1, <3>2
  <2>5. m * w <= N
    <3>1. (m * w) * (m * w) <= N * N
      <4> DEFINE a == w * w
                 c == m * m
      <4>1. a \in Nat /\ c \in Nat /\ a <= f
        BY <1>2, <1>3
      <4>2. (m * w) * (m * w) = c * a /\ m * m * f = c * f
        BY <1>2, <1>3
      <4>3. N * N \in Int
        BY <1>2
      <4> HIDE DEF a, c
      <4>4. c * a <= c * f /\ c * a \in Int /\ c * f \in Int
        BY <1>3, <4>1
      <4>5. QED
        BY <1>4, <4>2, <4>3, <4>4
    <3>2. m * w \in Nat
      BY <1>2, <1>3
    <3> HIDE DEF Y
    <3>3. QED
      BY <1>2, <3>1, <3>2, SquareOrder
  <2>6. m * (Y * w) <= m * (m * K)
    <3> DEFINE a == m * w
    <3>1. a \in Nat /\ a <= N /\ Y \in Nat
      BY <1>2, <1>3, <1>7, <1>9, <2>5
    <3>2. m * (Y * w) = Y * a /\ m * (m * K) = (m * m) * K
      BY <1>2, <1>3, <1>7
    <3> HIDE DEF a, Y
    <3>3. Y * a <= Y * N /\ Y * a \in Int /\ Y * N \in Int /\ (m * m) * K \in Int
      BY <1>2, <3>1
    <3>4. QED
      BY <2>4, <3>2, <3>3
  <2> HIDE DEF Y
  <2>7. Y * w <= m * K
    <3> DEFINE a == Y * w
               b == m * K
    <3>1. a \in Int /\ b \in Int /\ m * a <= m * b
      BY <1>2, <1>3, <1>7, <2>6
    <3> HIDE DEF a, b
    <3>2. a <= b
      BY <1>2, <3>1, Cancels
    <3>3. QED
      BY <3>2 DEF a, b
  <2>8. K < w * (drop + 1)
    <3>1. SUFFICES ASSUME K >= w * (drop + 1) PROVE FALSE
      BY <1>2, <1>3, <1>6
    <3>2. drop + 1 \in Int /\ (drop + 1) * w <= K
      BY <1>3, <1>6, <3>1
    <3>3. drop + 1 <= drop
      BY <1>6, <3>2
    <3>4. QED
      BY <1>6, <3>3
  <2>9. Y <= m * (drop + 1)
    <3> DEFINE a == w * (drop + 1)
               b == m * (drop + 1)
    <3>1. a \in Int /\ K <= a /\ b \in Int
      BY <1>2, <1>3, <1>6, <2>8
    <3>2. m * a = w * b
      BY <1>2, <1>3, <1>6
    <3> HIDE DEF a, b
    <3>3. m * K <= m * a
      BY <1>2, <3>1
    <3>4. w * Y <= w * b
      <4>1. Y * w = w * Y /\ w * Y \in Int /\ m * K \in Int /\ w * b \in Int
        BY <1>2, <1>3, <1>7, <3>1
      <4>2. QED
        BY <2>7, <3>2, <3>3, <4>1
    <3>5. Y <= b
      BY <1>3, <1>7, <3>1, <3>4, Cancels
    <3>6. QED
      BY <3>5 DEF b
  <2>10. m * (3 + drop) = m * (drop + 1) + 2 * m /\ m * (drop + 1) \in Int
    BY <1>2, <1>6
  <2>11. Y <= m * (3 + drop)
    BY <1>2, <1>7, <2>9, <2>10
  <2>12. QED
    BY <1>6, <2>11 DEF Y
<1>10. QED
  BY <1>2, <1>7, <1>8, <1>9

\* What a pool has earned between two prices of it, when what an LP token stands for did not
\* fall between them.
LEMMA EarnedBound ==
  ASSUME NEW l \in Nat \ {0}, NEW u \in Nat \ {0}, NEW n \in Nat \ {0}, NEW v \in Nat \ {0},
         NEW h \in Nat, SCALE = 2 * h,
         ((2 * l - 1) * (2 * l - 1)) * (2 * v - 1) <= ((2 * n + 1) * (2 * n + 1)) * (2 * u + 1),
         NEW il \in Farming!LpIl(l, u, v)
  PROVE  4 * u * Farming!Accrued(l, u, n, v, il) >= -Rounding(l, u, n, v)
<1> DEFINE B     == DecMul(DecDiv(l, u), RoundHalfEven(One, 2))
           delta == DecMul(B, v - u)
           bound == RootBound(u, v)
           drop  == (2 * SCALE + 2 * u + 1) \div (2 * Lesser(u, v) - 1)
           rest  == (6 * u * bound) \div SCALE
           P     == 2 * (B * u)
           Q     == l * SCALE
           acc   == n - (l + delta + il)
<1>1. Farming!BaseInLp(l, u) = B /\ Farming!LpDelta(l, u, v) = delta
  BY FarmingArithmetic, Zenon
  DEF Farming!BaseInLp, Farming!LpDelta, Farming!Half, Farming!One, One
<1>2. PICK r \in DecSqrt(DecMul(u, v)) : il = DecMul(B, 2 * r - u - v)
  <2>1. Farming!LpIl(l, u, v) = {DecMul(B, 2 * root - u - v) : root \in DecSqrt(DecMul(u, v))}
    BY <1>1, FarmingArithmetic, Zenon DEF Farming!LpIl
  <2>2. QED
    BY <2>1
<1>3. /\ Rounding(l, u, n, v)
           = (2 * l - 1) * (3 + drop) + 2 * bound + 2 * n + 6 * u + 1 + rest
      /\ Farming!Accrued(l, u, n, v, il) = acc
  BY <1>1, FarmingArithmetic, Zenon DEF Rounding, Farming!Accrued
<1>4. SUFFICES 4 * u * acc >= -((2 * l - 1) * (3 + drop) + 2 * bound + 2 * n + 6 * u + 1 + rest)
  <2> HIDE DEF acc, drop, bound, rest
  <2>1. QED
    BY <1>3, <1>4, Zenon
<1>5. B \in Nat /\ 2 * (P - Q) <= 3 * u /\ 2 * (Q - P) <= 3 * u
  BY HalfQuotient
<1>6. r \in Nat /\ bound \in Nat /\ r <= bound /\ u <= bound
  BY RootBelowBound
<1>7. /\ drop \in Nat
      /\ 2 * (r * (2 * l - 1)) - (2 * n + 1) * (2 * u + 1) <= (2 * l - 1) * (3 + drop)
  BY EarnedRoots
<1> HIDE DEF B, bound, drop
<1>8. /\ delta \in Int /\ il \in Int
      /\ 2 * (SCALE * delta - B * (v - u)) <= SCALE
      /\ 2 * (SCALE * il - B * (2 * r - u - v)) <= SCALE
  <2>1. B * (v - u) \in Int /\ B * (2 * r - u - v) \in Int
    BY <1>5, <1>6
  <2>2. QED
    BY <1>2, <2>1, RoundingError, ScaleAssumption DEF DecMul
<1> HIDE DEF delta
<1>9. SCALE * (delta + il) <= 2 * (B * (r - u)) + SCALE
  <2>1. B * (v - u) + B * (2 * r - u - v) = 2 * (B * (r - u))
    BY <1>5, <1>6
  <2>2. SCALE * (delta + il) = SCALE * delta + SCALE * il
    BY <1>8, ScaleAssumption
  <2>3. /\ B * (v - u) \in Int /\ B * (2 * r - u - v) \in Int /\ B * (r - u) \in Int
        /\ SCALE * delta \in Int /\ SCALE * il \in Int
    BY <1>5, <1>6, <1>8, ScaleAssumption
  <2>4. QED
    BY <1>8, <2>1, <2>2, <2>3, ScaleAssumption
<1>10. 2 * (P * (r - u)) <= 2 * (Q * (r - u)) + 3 * (u * bound)
  <2> DEFINE gap == P - Q
             move == r - u
  <2>1. P \in Int /\ Q \in Int
    BY <1>5, ScaleAssumption
  <2> HIDE DEF P, Q
  <2>2. gap \in Int /\ 2 * gap <= 3 * u /\ 2 * (-gap) <= 3 * u
    BY <1>5, <2>1
  <2>3. move \in Int /\ move <= bound /\ -move <= bound
    BY <1>6
  <2>4. 2 * (P * move) = 2 * (Q * move) + (2 * gap) * move
    BY <1>6, <2>1
  <2> HIDE DEF gap, move
  <2>5. (2 * gap) * move <= 3 * (u * bound)
    <3>1. CASE move >= 0
      <4>1. (2 * gap) * move <= (3 * u) * move
        BY <2>2, <2>3, <3>1
      <4>2. (3 * u) * move <= (3 * u) * bound
        BY <1>6, <2>3
      <4>3. (3 * u) * bound = 3 * (u * bound) /\ u * bound \in Int
        BY <1>6
      <4>4. (2 * gap) * move \in Int /\ (3 * u) * move \in Int
        BY <2>2, <2>3
      <4>5. QED
        BY <4>1, <4>2, <4>3, <4>4
    <3>2. CASE move < 0
      <4> DEFINE back == -move
                 less == 2 * (-gap)
      <4>1. back \in Nat /\ back <= bound /\ less \in Int /\ less <= 3 * u
        BY <2>2, <2>3, <3>2
      <4>2. (2 * gap) * move = less * back
        BY <2>2, <2>3
      <4> HIDE DEF back, less
      <4>3. less * back <= (3 * u) * back
        BY <4>1
      <4>4. (3 * u) * back <= (3 * u) * bound
        BY <1>6, <4>1
      <4>5. (3 * u) * bound = 3 * (u * bound) /\ u * bound \in Int
        BY <1>6
      <4>6. less * back \in Int /\ (3 * u) * back \in Int
        BY <4>1
      <4>7. QED
        BY <4>2, <4>3, <4>4, <4>5, <4>6
    <3>3. QED
      BY <2>3, <3>1, <3>2
  <2>6. /\ P * move \in Int /\ Q * move \in Int /\ (2 * gap) * move \in Int
        /\ u * bound \in Int
    BY <1>6, <2>1, <2>2, <2>3
  <2>7. 2 * (P * move) <= 2 * (Q * move) + 3 * (u * bound)
    BY <2>4, <2>5, <2>6
  <2>8. QED
    BY <2>7 DEF move
<1> DEFINE A == 4 * (l * r) - 4 * (u * n) + 4 * u
<1>11. (-(4 * u * acc) - A) * SCALE <= 6 * u * bound
  <2> DEFINE d == delta + il
  <2>1. d \in Int
    BY <1>8
  <2>2. (-(4 * u * (n - (l + d))) - A) * SCALE
          = (4 * u) * (SCALE * d) + 4 * (SCALE * (u * l)) - 4 * (SCALE * (l * r))
              - 4 * (SCALE * u)
    BY <1>6, <2>1, ScaleAssumption
  <2>3. acc = n - (l + d)
    BY <1>8
  <2> HIDE DEF d
  <2>4. (4 * u) * (SCALE * d) <= (4 * u) * (2 * (B * (r - u)) + SCALE)
    <3> DEFINE x == SCALE * d
               y == 2 * (B * (r - u)) + SCALE
    <3>1. x \in Int /\ y \in Int /\ x <= y
      BY <1>5, <1>6, <1>9, <2>1, ScaleAssumption DEF d
    <3> HIDE DEF x, y
    <3>2. (4 * u) * x <= (4 * u) * y
      BY <3>1
    <3>3. QED
      BY <3>2 DEF x, y
  <2>5. (4 * u) * (2 * (B * (r - u)) + SCALE) = 4 * (P * (r - u)) + 4 * (SCALE * u)
    BY <1>5, <1>6, ScaleAssumption
  <2>6. Q * (r - u) = SCALE * (l * r) - SCALE * (u * l)
    BY <1>6, ScaleAssumption
  <2>7. 6 * u * bound = 6 * (u * bound)
    BY <1>6
  <2>8. /\ P * (r - u) \in Int /\ Q * (r - u) \in Int /\ (4 * u) * (SCALE * d) \in Int
        /\ SCALE * (l * r) \in Int /\ SCALE * (u * l) \in Int /\ SCALE * u \in Int
        /\ u * bound \in Int
    BY <1>5, <1>6, <2>1, ScaleAssumption
  <2> HIDE DEF acc, P, Q, A
  <2>9. QED
    BY <1>10, <2>2, <2>3, <2>4, <2>5, <2>6, <2>7, <2>8
<1>12. rest \in Nat /\ -(4 * u * acc) - A <= rest
  <2> DEFINE x == -(4 * u * acc) - A
             y == 6 * u * bound
  <2>1. x \in Int
    <3>1. acc \in Int
      BY <1>8
    <3> HIDE DEF acc
    <3>2. 4 * u * acc \in Int /\ A \in Int
      BY <1>6, <3>1
    <3> HIDE DEF A
    <3>3. QED
      BY <3>2
  <2>2. y \in Nat
    BY <1>6
  <2>3. x * SCALE <= y
    BY <1>11
  <2> HIDE DEF x, y
  <2>4. y \div SCALE \in Nat /\ x <= y \div SCALE
    BY <2>1, <2>2, <2>3, AtMostQuotient, ScaleAssumption
  <2>5. QED
    BY <2>4 DEF x, y
<1>13. A = (2 * (r * (2 * l - 1)) - (2 * n + 1) * (2 * u + 1)) + 2 * r + 2 * n + 6 * u + 1
  BY <1>6
<1>14. /\ A \in Int /\ 4 * u * acc \in Int
       /\ 2 * (r * (2 * l - 1)) - (2 * n + 1) * (2 * u + 1) \in Int
       /\ (2 * l - 1) * (3 + drop) \in Int
  <2>1. acc \in Int
    BY <1>8
  <2> HIDE DEF acc
  <2>2. QED
    BY <1>6, <1>7, <2>1
<1> HIDE DEF A, acc, rest
<1>15. QED
  <2> DEFINE x == 2 * (r * (2 * l - 1)) - (2 * n + 1) * (2 * u + 1)
             y == (2 * l - 1) * (3 + drop)
             z == 4 * u * acc
  <2>1. x \in Int /\ y \in Int /\ z \in Int /\ x <= y /\ A = x + 2 * r + 2 * n + 6 * u + 1
    BY <1>7, <1>13, <1>14
  <2>2. -z - A <= rest
    BY <1>12
  <2> HIDE DEF x, y, z
  <2>3. z >= -(y + 2 * bound + 2 * n + 6 * u + 1 + rest)
    BY <1>6, <1>12, <2>1, <2>2
  <2>4. QED
    BY <2>3 DEF y, z

----------------------------------------------------------------------------
(* What a pool earns: the product of what an LP token stands for, from step to step *)

\* What a pool of given amounts would show.
PricesAt(pool, amounts) ==
  get_prices(to_dec(amounts.base, decimals[pool]["base_mint"]),
             to_dec(amounts.quote, decimals[pool]["quote_mint"]),
             to_dec(amounts.lp, decimals[pool]["lp_mint"]))

\* The product of what an LP token stands for did not fall.
NoLessPerLp(old, new) ==
  (old.base * old.quote) * (new.lp * new.lp) <= (new.base * new.quote) * (old.lp * old.lp)

\* The inductive invariant: the prices in the account are those of amounts that the pool had,
\* and what an LP token stands for has not fallen since.
Grown ==
  \E old \in Amounts :
    fair_value \in PricesAt(rate_pool, old) /\ NoLessPerLp(old, pool_amounts[rate_pool])

LEMMA NoLessPerLpOfStep ==
  ASSUME NEW old \in Amounts, NEW now \in Amounts, NEW new \in Amounts,
         NoLessPerLp(old, now), ConstantProduct(now, new)
  PROVE  NoLessPerLp(old, new)
<1> DEFINE a == old.base * old.quote
           b == now.base * now.quote
           c == new.base * new.quote
           i == old.lp * old.lp
           j == now.lp * now.lp
           k == new.lp * new.lp
<1>1. /\ old.base \in Nat /\ old.quote \in Nat /\ old.lp \in Nat
      /\ now.base \in Nat /\ now.quote \in Nat /\ now.lp \in Nat
      /\ new.base \in Nat /\ new.quote \in Nat /\ new.lp \in Nat
  BY AmountsAreNats
<1>2. a \in Nat /\ b \in Nat /\ c \in Nat /\ i \in Nat /\ j \in Nat /\ k \in Nat
  BY <1>1
<1>3. a * j <= b * i
  BY DEF NoLessPerLp
<1>4. SUFFICES a * k <= c * i
  BY Zenon DEF NoLessPerLp
<1>5. CASE Trades(now, new)
  <2>1. k = j /\ b <= c
    BY <1>5 DEF Trades
  <2> HIDE DEF a, b, c, i, j, k
  <2>2. b * i <= c * i /\ a * k \in Int /\ b * i \in Int /\ c * i \in Int
    BY <1>2, <2>1
  <2>3. QED
    BY <1>3, <2>1, <2>2
<1>6. CASE ChangesLiquidity(now, new)
  <2>1. j \in Nat \ {0}
    BY <1>1, <1>6 DEF ChangesLiquidity
  <2>2. b * k <= c * j
    <3> DEFINE p == now.base * new.lp
               q == new.base * now.lp
               s == now.quote * new.lp
               t == new.quote * now.lp
    <3>1. p \in Nat /\ q \in Nat /\ s \in Nat /\ t \in Nat /\ p <= q /\ s <= t
      BY <1>1, <1>6 DEF ChangesLiquidity
    <3>2. b * k = p * s /\ c * j = q * t
      BY <1>1
    <3> HIDE DEF p, q, s, t
    <3>3. p * s <= q * t
      BY <3>1, TimesMonotone
    <3>4. QED
      BY <3>2, <3>3
  <2> HIDE DEF a, b, c, i, j, k
  <2>3. (a * j) * k <= (b * i) * k
    <3> DEFINE x == a * j
               y == b * i
    <3>1. x \in Nat /\ y \in Nat /\ x <= y
      BY <1>2, <1>3
    <3> HIDE DEF x, y
    <3>2. x * k <= y * k
      BY <1>2, <3>1
    <3>3. QED
      BY <3>2 DEF x, y
  <2>4. (b * k) * i <= (c * j) * i
    <3> DEFINE x == b * k
               y == c * j
    <3>1. x \in Nat /\ y \in Nat /\ x <= y
      BY <1>2, <2>2
    <3> HIDE DEF x, y
    <3>2. x * i <= y * i
      BY <1>2, <3>1
    <3>3. QED
      BY <3>2 DEF x, y
  <2>5. j * (a * k) <= j * (c * i)
    <3>1. /\ j * (a * k) = (a * j) * k /\ (b * i) * k = (b * k) * i
          /\ (c * j) * i = j * (c * i)
      BY <1>2
    <3>2. (a * j) * k \in Int /\ (b * i) * k \in Int /\ (c * j) * i \in Int
      BY <1>2
    <3>3. QED
      BY <2>3, <2>4, <3>1, <3>2
  <2>6. a * k \in Int /\ c * i \in Int
    BY <1>2
  <2>7. QED
    BY <2>1, <2>5, <2>6, Cancels
<1>7. QED
  BY <1>5, <1>6 DEF ConstantProduct

LEMMA OwnPricesAt == OwnPrices = PricesAt(rate_pool, pool_amounts[rate_pool])
BY DEF OwnPrices, PricesOf, PricesAt, Accounts, Mints

\* Prices taken at this moment.
LEMMA GrownAnew ==
  ASSUME TypeOK, fair_value \in OwnPrices
  PROVE  Grown
<1>1. fair_value \in PricesAt(rate_pool, pool_amounts[rate_pool])
  BY OwnPricesAt
<1>2. pool_amounts[rate_pool] \in Amounts
  BY DEF TypeOK
<1>3. NoLessPerLp(pool_amounts[rate_pool], pool_amounts[rate_pool])
  <2> DEFINE now == pool_amounts[rate_pool]
  <2>1. now.base \in Nat /\ now.quote \in Nat /\ now.lp \in Nat
    BY <1>2, AmountsAreNats
  <2> HIDE DEF now
  <2>2. NoLessPerLp(now, now)
    BY <2>1 DEF NoLessPerLp
  <2>3. QED
    BY <2>2 DEF now
<1>4. QED
  BY <1>1, <1>2, <1>3 DEF Grown

LEMMA NextGrows ==
  ASSUME \A old, new \in Amounts : MayBecome(old, new) => ConstantProduct(old, new),
         TypeOK, TypeOK', Grown, [Next]_vars
  PROVE  Grown'
<1>1. ASSUME NEW given \in [Accounts -> Pools], refresh(given)
      PROVE  Grown'
  <2>1. given = [a \in Accounts |-> rate_pool] /\ UNCHANGED <<pool_amounts, rate_pool>>
    BY <1>1 DEF refresh, HasOne
  <2>2. fair_value' \in OwnPrices
    BY <1>1, <2>1 DEF refresh, OwnPrices
  <2>3. OwnPrices' = OwnPrices
    BY <2>1 DEF OwnPrices, PricesOf
  <2>4. (TypeOK /\ fair_value \in OwnPrices => Grown)'
    BY GrownAnew, PTL
  <2>5. QED
    BY <2>2, <2>3, <2>4
<1>2. ASSUME NEW pool \in Pools, NEW amounts \in PoolAmounts[pool], PoolMoves(pool, amounts)
      PROVE  Grown'
  <2>1. PICK old \in Amounts :
          fair_value \in PricesAt(rate_pool, old) /\ NoLessPerLp(old, pool_amounts[rate_pool])
    BY DEF Grown
  <2>2. UNCHANGED <<fair_value, rate_pool>> /\ rate_pool \in Pools
    BY <1>2 DEF PoolMoves, TypeOK
  <2>3. NoLessPerLp(old, pool_amounts'[rate_pool])
    <3>1. CASE pool = rate_pool
      <4>1. pool_amounts[rate_pool] \in Amounts /\ amounts \in Amounts
        BY BoundsAssumption DEF TypeOK
      <4>2. pool_amounts'[rate_pool] = amounts /\ MayBecome(pool_amounts[rate_pool], amounts)
        BY <1>2, <2>2, <3>1 DEF PoolMoves, TypeOK
      <4>3. QED
        BY <2>1, <4>1, <4>2, NoLessPerLpOfStep
    <3>2. CASE pool # rate_pool
      BY <1>2, <2>1, <2>2, <3>2 DEF PoolMoves, TypeOK
    <3>3. QED
      BY <3>1, <3>2
  <2>4. QED
    BY <2>1, <2>2, <2>3 DEF Grown, PricesAt
<1>3. CASE Tick \/ UNCHANGED vars
  <2>1. UNCHANGED <<pool_amounts, rate_pool, fair_value>>
    BY <1>3 DEF Tick, vars
  <2>2. QED
    BY <2>1 DEF Grown, PricesAt
<1>4. QED
  BY <1>1, <1>2, <1>3 DEF Next

\* The same in decimals.
LEMMA NoLessPerLpInDecimals ==
  ASSUME NEW old \in Amounts, NEW now \in Amounts, NoLessPerLp(old, now),
         NEW i \in Nat, NEW j \in Nat, NEW k \in Nat
  PROVE  ((now.base * i) * (now.quote * j)) * ((old.lp * k) * (old.lp * k))
           >= ((old.base * i) * (old.quote * j)) * ((now.lp * k) * (now.lp * k))
<1> DEFINE x == (old.base * old.quote) * (now.lp * now.lp)
           y == (now.base * now.quote) * (old.lp * old.lp)
           f == (i * j) * (k * k)
<1>1. /\ old.base \in Nat /\ old.quote \in Nat /\ old.lp \in Nat
      /\ now.base \in Nat /\ now.quote \in Nat /\ now.lp \in Nat
  BY AmountsAreNats
<1>2. x \in Nat /\ y \in Nat /\ f \in Nat /\ x <= y
  BY <1>1 DEF NoLessPerLp
<1>3. /\ ((old.base * i) * (old.quote * j)) * ((now.lp * k) * (now.lp * k)) = x * f
      /\ ((now.base * i) * (now.quote * j)) * ((old.lp * k) * (old.lp * k)) = y * f
  BY <1>1
<1> HIDE DEF x, y, f
<1>4. x * f <= y * f
  BY <1>2
<1>5. QED
  BY <1>3, <1>4

LEMMA EarnedIfGrown ==
  ASSUME SCALE % 2 = 0,
         \A pool \in Pools, mint \in Mints : SCALE % (10 ^ decimals[pool][mint]) = 0,
         TypeOK, Grown
  PROVE  EarnedIsNotNegative
<1> DEFINE now == pool_amounts[rate_pool]
           places == decimals[rate_pool]
<1>1. PICK old \in Amounts : fair_value \in PricesAt(rate_pool, old) /\ NoLessPerLp(old, now)
  BY DEF Grown
<1>2. now \in Amounts /\ rate_pool \in Pools
  BY DEF TypeOK
<1>3. PICK h \in Nat : SCALE = 2 * h
  BY ScaleIsTwice
<1>4. ASSUME NEW mint \in Mints
      PROVE  \E k \in Nat : \A supply \in Nat : to_dec(supply, places[mint]) = supply * k
  <2> DEFINE P == 10 ^ places[mint]
             k == SCALE \div P
  <2>1. P \in Nat \ {0} /\ SCALE % P = 0
    BY <1>2, PoolsAssumption
  <2> HIDE DEF P
  <2>2. SCALE \in Nat /\ SCALE \in Int
    BY ScaleAssumption
  <2>3. k \in Nat /\ SCALE = P * k
    <3>1. k \in Nat
      BY <2>1, <2>2, DivIsNat
    <3>2. SCALE = P * k + (SCALE % P)
      BY <2>1, <2>2, DivModFact, Zenon
    <3> HIDE DEF k
    <3>3. QED
      BY <2>1, <3>1, <3>2
  <2> HIDE DEF k
  <2>4. \A supply \in Nat : to_dec(supply, places[mint]) = supply * k
    BY <2>1, <2>3, SupplyExact DEF P
  <2>5. QED
    BY <2>3, <2>4
<1>5. PICK i \in Nat : \A supply \in Nat : to_dec(supply, places["base_mint"]) = supply * i
  BY <1>4 DEF Mints
<1>6. PICK j \in Nat : \A supply \in Nat : to_dec(supply, places["quote_mint"]) = supply * j
  BY <1>4 DEF Mints
<1>7. PICK k \in Nat : \A supply \in Nat : to_dec(supply, places["lp_mint"]) = supply * k
  BY <1>4 DEF Mints
<1>8. /\ old.base \in Nat /\ old.quote \in Nat /\ old.lp \in Nat
      /\ now.base \in Nat /\ now.quote \in Nat /\ now.lp \in Nat
  BY <1>2, AmountsAreNats
<1>9. fair_value \in get_prices(old.base * i, old.quote * j, old.lp * k)
  BY <1>1, <1>5, <1>6, <1>7, <1>8 DEF PricesAt
<1>10. OwnPrices = get_prices(now.base * i, now.quote * j, now.lp * k)
  BY <1>5, <1>6, <1>7, <1>8, OwnPricesAt DEF PricesAt
<1> DEFINE b == old.base * i
           q == old.quote * j
           lp == old.lp * k
           e == now.base * i
           p == now.quote * j
           m == now.lp * k
<1>11. (e * p) * (lp * lp) >= (b * q) * (m * m)
  BY <1>1, <1>2, NoLessPerLpInDecimals, Zenon
<1>12. /\ b \in Nat /\ q \in Nat /\ lp \in Nat /\ e \in Nat /\ p \in Nat /\ m \in Nat
       /\ fair_value \in get_prices(b, q, lp) /\ OwnPrices = get_prices(e, p, m)
  BY <1>8, <1>9, <1>10
<1> HIDE DEF b, q, lp, e, p, m, now, places
<1>13. ASSUME NEW prices \in OwnPrices, 0 \notin {fair_value[0], fair_value[1],
                                                prices[0], prices[1]},
              NEW il \in Farming!LpIl(fair_value[0], fair_value[1], prices[1])
       PROVE  4 * fair_value[1] * Farming!Accrued(fair_value[0], fair_value[1],
                                                  prices[0], prices[1], il)
                >= -Rounding(fair_value[0], fair_value[1], prices[0], prices[1])
  <2> DEFINE l == fair_value[0]
             u == fair_value[1]
             n == prices[0]
             v == prices[1]
  <2>1. /\ b \in Nat \ {0} /\ lp \in Nat \ {0} /\ l \in Nat \ {0} /\ u \in Nat \ {0}
        /\ (2 * l - 1) * lp <= 4 * (q * SCALE) /\ 2 * (q * SCALE) <= (2 * u + 1) * b
    BY <1>12, <1>13, PricesWithin
  <2>2. /\ e \in Nat \ {0} /\ m \in Nat \ {0} /\ n \in Nat \ {0} /\ v \in Nat \ {0}
        /\ 4 * (p * SCALE) <= (2 * n + 1) * m /\ (2 * v - 1) * e <= 2 * (p * SCALE)
    BY <1>12, <1>13, PricesWithin
  <2>3. il \in Farming!LpIl(l, u, v)
    BY <1>13
  <2> HIDE DEF l, u, n, v
  <2>4. ((2 * l - 1) * (2 * l - 1)) * (2 * v - 1) <= ((2 * n + 1) * (2 * n + 1)) * (2 * u + 1)
    BY <1>11, <1>12, <2>1, <2>2, PricesGrow
  <2>5. 4 * u * Farming!Accrued(l, u, n, v, il) >= -Rounding(l, u, n, v)
    BY <1>3, <2>1, <2>2, <2>3, <2>4, EarnedBound
  <2>6. QED
    BY <2>5, Zenon DEF l, u, n, v
<1>14. QED
  BY <1>13, Zenon DEF EarnedIsNotNegative

\* What the farming plugin takes for the pool's earnings since the rate was refreshed is not
\* negative but for rounding, whatever sequence of trades and changes of liquidity came
\* between, for pools of any size.  The pool program trades at no better than its price and
\* changes liquidity at no better than its proportions; a Decimal, of 28 digits, has the digits
\* of the mints.
THEOREM PoolNeverLoses ==
  ASSUME SCALE % 2 = 0,
         \A pool \in Pools, mint \in Mints : SCALE % (10 ^ decimals[pool][mint]) = 0,
         \A old, new \in Amounts : MayBecome(old, new) => ConstantProduct(old, new)
  PROVE  Spec => []EarnedIsNotNegative
<1>1. Init => TypeOK /\ Grown
  <2>1. ASSUME Init PROVE fair_value \in OwnPrices
    BY <2>1 DEF Init, OwnPrices
  <2>2. QED
    BY <2>1, InitImplements, GrownAnew
<1>2. TypeOK /\ Grown /\ [Next]_vars => (TypeOK /\ Grown)'
  <2> SUFFICES ASSUME TypeOK, Grown, [Next]_vars PROVE TypeOK' /\ Grown'
    OBVIOUS
  <2>1. TypeOK'
    BY NextImplements
  <2>2. QED
    BY <2>1, NextGrows
<1>3. TypeOK /\ Grown => EarnedIsNotNegative
  BY EarnedIfGrown
<1>4. QED
  BY <1>1, <1>2, <1>3, PTL DEF Spec

=============================================================================
