------------------------------ MODULE RatePoolv2 ----------------------------
(***************************************************************************)
(* The rate-poolv2 program: the price of a liquidity pool's LP token and of    *)
(* its base token, in the pool's quote token, from what the pool holds.       *)
(***************************************************************************)
EXTENDS PoolPrices

CONSTANTS
  Pools,              \* each with its mints and its two token accounts
  decimals,           \* Mint::decimals of each pool's three mints
  MaxU64,             \* 2^64 - 1
  PoolAmounts,        \* bound: each pool's possible base and quote tokens and LP supply
  MayBecome(_, _),    \* what the pool program may make of a pool's amounts in one step
  NoPrice,            \* a pool whose prices do not exist
  InitSlot, MaxSlot   \* bound: the slots considered

Amounts == [base : 0 .. MaxU64, quote : 0 .. MaxU64, lp : 0 .. MaxU64]

Mints    == {"lp_mint", "base_mint", "quote_mint"}
Accounts == Mints \union {"base_token_account", "quote_token_account"}

ASSUME PoolsAssumption ==
  /\ decimals \in [Pools -> [Mints -> Nat]]
  /\ \A pool \in Pools, mint \in Mints : 10 ^ decimals[pool][mint] \in Nat \ {0}

ASSUME BoundsAssumption ==
  /\ MaxU64 \in Nat /\ InitSlot \in Nat /\ MaxSlot \in Nat
  /\ \A pool \in Pools : PoolAmounts[pool] \subseteq Amounts

VARIABLES
  slot,               \* Clock::get()?.slot
  pool_amounts,       \* each pool's base and quote tokens, and the supply of its LP mint
  fair_value, refreshed_slot, rate_pool   \* RateState: the five keys are those of one pool

vars == <<slot, pool_amounts, fair_value, refreshed_slot, rate_pool>>

----------------------------------------------------------------------------

\* The prices from the accounts handed in, each of some pool.
PricesOf(given) ==
  get_prices(
    to_dec(pool_amounts[given["base_token_account"]].base,
           decimals[given["base_mint"]]["base_mint"]),
    to_dec(pool_amounts[given["quote_token_account"]].quote,
           decimals[given["quote_mint"]]["quote_mint"]),
    to_dec(pool_amounts[given["lp_mint"]].lp, decimals[given["lp_mint"]]["lp_mint"]))

----------------------------------------------------------------------------

\* The pools as they may be found.
AmountsOfPools ==
  {amounts \in [Pools -> UNION {PoolAmounts[pool] : pool \in Pools}] :
     \A pool \in Pools : amounts[pool] \in PoolAmounts[pool]}

\* initialize: Anchor checks that the mints and token accounts are those of the pool.
Init ==
  /\ slot = InitSlot
  /\ pool_amounts \in AmountsOfPools
  /\ rate_pool \in Pools
  /\ fair_value \in PricesOf([a \in Accounts |-> rate_pool])
  /\ refreshed_slot = slot

\* Mutant: the quote token account is not checked, except for its mint.
HasAllButOne(given) == \A a \in Accounts \ {"quote_token_account"} : given[a] = rate_pool

\* The has_one constraints.
HasOne(given) == \A a \in Accounts : given[a] = rate_pool

refresh(given) ==
  /\ HasOne(given)
  /\ fair_value' \in PricesOf(given)
  /\ refreshed_slot' = slot
  /\ UNCHANGED <<slot, pool_amounts, rate_pool>>

\* The pool trades, or its liquidity changes.
PoolMoves(pool, amounts) ==
  /\ MayBecome(pool_amounts[pool], amounts)
  /\ pool_amounts' = [pool_amounts EXCEPT ![pool] = amounts]
  /\ UNCHANGED <<slot, fair_value, refreshed_slot, rate_pool>>

Tick ==
  /\ slot < MaxSlot
  /\ slot' = slot + 1
  /\ UNCHANGED <<pool_amounts, fair_value, refreshed_slot, rate_pool>>

Next ==
  \/ \E given \in [Accounts -> Pools] : refresh(given)
  \/ \E pool \in Pools : \E amounts \in PoolAmounts[pool] : PoolMoves(pool, amounts)
  \/ Tick

Spec == Init /\ [][Next]_vars

----------------------------------------------------------------------------

OwnPrices == PricesOf([a \in Accounts |-> rate_pool])

\* What the pool shows: the prices its amounts imply, if they do.
showing == IF OwnPrices = {} THEN NoPrice ELSE CHOOSE prices \in OwnPrices : TRUE

\* The account vyper-core reads.
rate_state == [fair_value |-> fair_value, refreshed_slot |-> refreshed_slot]

FairValues == [0 .. 9 -> Int]

ASSUME NoPriceAssumption == NoPrice \notin FairValues

Oracle == INSTANCE OracleReader WITH Unavailable <- NoPrice

\* Whatever mints and token accounts a refresh is handed, of this pool or of another, the
\* account shows the prices of its own pool at one moment, with the slot of it; of an
\* emptied pool it keeps the last ones.
ImplementsOracleReader == Oracle!Spec

\* All LP tokens together are worth what the pool holds, its quote tokens and its base
\* tokens at their price, whatever the mints' decimals, but for the rounding of two prices.
LpTokensAreWorthThePool ==
  \A prices \in OwnPrices :
    LET amounts == pool_amounts[rate_pool]
        places  == decimals[rate_pool]
        base    == to_dec(amounts.base, places["base_mint"])
        quote   == to_dec(amounts.quote, places["quote_mint"])
        lp      == to_dec(amounts.lp, places["lp_mint"])
    IN  lp * prices[0] - (quote * SCALE + base * prices[1]) \in -(lp + base) .. lp + base

=============================================================================
