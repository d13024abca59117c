# Vyper Core in TLA+

TLA+ models of the Vyper protocol's Solana programs, the TLC configurations that
check them on small instances, and proofs, checked by TLAPS, of what holds for every
instance.  Source paths below are relative to `programs/` unless they say otherwise.

- [The system](#the-system): inventory, state, operations, interactions, what is hard
- [The modules](#the-modules) and how they correspond to the code
- [The runs](#the-runs): what each checks, its bounds, what it shows
- [The proofs](#the-proofs): theorems, assumptions, arguments
- [Disagreements found](#disagreements-found) and [observations](#observations)
- [What is not modelled](#what-is-not-modelled) and the [plan](#plan)

## The system

A *tranche config* takes deposits of one SPL token (the reserve) into two tranches,
senior and junior, mints tranche tokens for them, and moves the deposited quantities
between the tranches by a *payoff* whenever it is *refreshed* with a new rate.

| Component | State | Operations |
| --- | --- | --- |
| `vyper-core` | `TrancheConfig` with its `TrancheData` (deposited quantities, fees to collect, the reserve's and the tranches' fair values with their slots, flags, caps); a reserve vault and two tranche mints | `initialize`, `deposit`, `redeem`, `refresh_tranche_fair_value`, `collect_fee`, `update_tranche_data` |
| redeem logic plugins: `redeem-logic-lending`, `-lending-fee`, `-digital`, `-forward`, `-settled-forward`, `-vanilla-option`, `-farming`, `-fila` | a constant config each | `initialize`, `execute` (a pure function of the old quantities, the old and the new rates) |
| `rate-twap` | a ring of samples, the rate and its slot | `initialize`, `refresh` |
| `rate-mock`, `rate-switchboard`, `rate-pyth`, `rate-poolv2` | a rate and its slot | `initialize`, `refresh`; `set_fair_value` of the mock |
| `libs/vyper-utils`, `libs/vyper-macros` | none | interface types, a logging macro |
| `sdk/`, `scripts/` (TypeScript, shell) | none | build instructions, decode accounts, deploy |

**Interactions.**  `vyper-core` calls the plugin synchronously (a CPI) inside a refresh,
and the SPL token program for transfers, mints and burns.  It does not call the rate
program: it reads the account that the rate program wrote in some earlier transaction,
with the slot of that rate, and refuses it when it is not fresh.  `rate-twap` reads the
account of another rate program in the same way.

**Concurrency and failure.**  A Solana instruction is atomic: transactions that write the
same account are serialised, and an instruction that returns an error or panics (the
release profile sets `overflow-checks = true`) leaves no trace.  What is hard is therefore
not inside a handler but between handlers:

- instructions of different signers arrive in any order, refreshes may be sent by anyone,
  as often as they like, and the rate account changes independently of both;
- three views of the same money (vault balance, books, tranche token supply times price)
  are updated by different instructions, two of them with rounding;
- prices and rates carry slots and go stale after a threshold the owner may change;
- a total loss, an empty tranche, a rate of zero and a quantity at the boundary of 64
  bits are legal and each has a branch of its own somewhere;
- plugins are trusted: nothing a plugin returns is checked.

**What makes each component correct.**

- *vyper-core*: the vault covers the books; holders can always be paid at the price;
  rounding pays nobody; caps and halts hold through any interleaving; a refresh at a
  rate already applied moves nothing between the tranches and charges nothing.
- *plugins*: the answer shares out exactly what there was; there always is an answer;
  the payoff goes in the direction of the rate; payoffs that are the same contract
  written twice agree.
- *rate-twap*: its rate is the average of the latest samples, far enough apart; towards
  vyper-core it is a rate program: slots never in the future, never going back; and once
  its source settles it gets there.
- *rate-switchboard, rate-pyth, rate-poolv2*: the account shows what ALL its oracles
  showed at one moment, each in its place, with the slot of that moment, whatever
  accounts a caller hands in.
- *the whole*: nobody trades at a rate older than the config's threshold, and everybody
  who wants to leave gets out.

## The modules

```
Decimals                      rust_decimal arithmetic on scaled integers
  DecimalSqrt                 its square root, by Newton's iteration
  RedeemLogicCommon           tranches, u64 quantities, a plugin's input and result
    RedeemLogicLending, RedeemLogicLendingFee, RedeemLogicDigital,
    RedeemLogicForward, RedeemLogicSettledForward, RedeemLogicVanillaOption
    RedeemLogicFila, RedeemLogicFarming                 (with DecimalSqrt)
    RedeemLogicPlugins        one position under one of the plugins, refreshed over and over
    VyperCore                 the core program, its tokens, the rate account it reads
      Market                  VyperCore, a rate program, the oracle behind it
      HolderExit              VyperCore in time without end: who gets out
  RateSwitchboard, RatePyth   two rate programs
  PoolPrices                  the price formulas of rate-poolv2
    RatePoolv2                the rate program, and the pools it reads
      FarmingPool             its pools trade; the farming plugin's view of its prices
  RateTwap                    the TWAP rate program
    TwapConvergence           RateTwap sampling a rate-mock account, in time without end
TrancheShares                 (abstract) what vyper-core promises its holders
RateProgram                   (abstract) what vyper-core assumes of a rate program
OracleReader                  (abstract) what a rate program that reads oracles promises
SlidingAverage                (abstract) what rate-twap promises
DecimalTheorems, *_proofs     the proofs
MC*.tla, *.cfg                the instances TLC checks
```

**Decimals.**  A decimal is an integer number of `1 / SCALE`; `SCALE` is a constant, 10^28
in the crate.  Division, multiplication and `round` round half to even, as the crate does,
and `floor` floors.  Two things are abstracted: the 96-bit mantissa, because of which the
crate rounds a large quotient or product once more, at its 28th or 29th significant digit,
and its overflow (a panic) beyond 7.9 * 10^28.

**Plugins** are operators: `execute_plugin(...)` returns the set of results, a
singleton, or the empty set when the Rust function returns an error or panics (a u64
subtraction that underflows, a failed conversion).  `RedeemLogicCommon` has the two ways
they end: `ReturnsFloors` (floor both sides, the dust is a fee) and `ReturnsRest` (floor
the senior side, the rest is the junior's).  Around it stand the two instructions of
each program: `initialize(config)` says which parameters are accepted, `execute(...)`
checks its input (`IsValid`; the digital plugin does not) and calls `execute_plugin`
with what the config holds.  `DecSqrt` is the crate's iteration, which may round a root
up; it has no result for a negative decimal, nor for one whose iteration does not settle
in `NewtonSteps` steps, a constant: almost 1000 in the crate, 16 and 24 in the instances,
enough by `RootSettles` for the decimals that occur there.

**RedeemLogicPlugins** puts the eight of them next to each other as a state machine: a
plugin, the terms its `initialize` accepted, a position `quantity`, and the last rate;
one action, `Refresh`, feeds the result back as the next old quantity, as vyper-core
does.

**VyperCore** has one action per instruction.  A handler's checks are guards, in
whatever order they stand in the code, since a failed instruction has no effect:
`are_valid` (halt flags, staleness, owner restriction), the input's `is_valid`, checked
and unchecked u64 arithmetic (`\in Quantities`, `\in U64`), the division by both prices
(`CanMint`) and the balances the token program checks (`Transfer`, the burn).  The
plugin is the constant operator `ExecutePlugin(quantity, old, new)`; the MC modules pass
one of the plugin modules' operators.  `PublishRate` is what any rate program may do to
the account vyper-core reads, `Tick` advances the slot.  Token accounts: every user has
one per token; a redemption and a fee collection may pay any reserve account, the vault
itself included (the code does not exclude it), which is why `Transfer` copes with
`from = to`.

**RateTwap** models `initialize` (part of `Init`), `refresh` with `try_add` and
`compute_twap`, and a source whose account takes any value and any slot up to the present
one, in any order.  That a source's slot is not in the future is an assumption: `refresh`
does not check it, and would show such a slot to vyper-core, whose instructions then fail
(an unsigned subtraction) until it has come.  That the TWAP's own slots are never in the
future rests on it; that they never go back does not.  `recorded` is a history variable: all samples ever taken.  One of the
ten rates is modelled: the ten are averaged independently.

**RateSwitchboard, RatePyth, RatePoolv2** have the fields of their `RateState` as
variables, `initialize` as `Init`, `refresh` as an action, and their environment:
aggregators confirm rounds (`ConfirmRound`), price accounts are rewritten and stop
trading (`UpdatePrice`), pools trade and are emptied (`PoolMoves`).  A transaction may
hand a refresh any accounts: a sequence of remaining accounts of any length and order,
or pool accounts each of any pool; the checks of keys, owners, counts and `has_one` are
guards.  A result or price that cannot be read, and a division by zero, fail the whole
refresh.  The environments' actions are the only external parts of the model besides the
decimals, the token program's transfer and the clock.  What a pool's amounts may become
in one step is the constant operator `MayBecome`.

**FarmingPool** composes rate-poolv2 with the farming plugin over constant product
pools: `ConstantProduct`, its `MayBecome`, allows whatever never loses by a trade
(`Trades`) nor by a change of liquidity (`ChangesLiquidity`); `EarnedIsNotNegative` puts
the prices stored at some refresh and those of now into the plugin's formulas.

**Market** composes `VyperCore` with a rate program that copies what an oracle shows
(`PublishRate` of what is `showing`), which is what `OracleReader` promises.  `shown` is a
history variable: what the oracle showed in each slot.  All six instructions take part.

**HolderExit** composes `VyperCore` with everybody a leaving holder depends on;
**TwapConvergence** composes `RateTwap` with a rate-mock account as its source
(`set_fair_value` by the authority, `refresh_mock` by anybody).  They are for liveness:
their behaviours never end.  Since the code only ever compares slots, the clock stands
still and all stamps grow older instead, which keeps the state space finite without
cutting a behaviour off.

**Abstract specifications.**  `TrancheShares` is a vault shared out between two tranches
and the fees, and tokens that are shares of a tranche, without clock, rates, plugins,
flags or holders; it says how much rounding each step may have.  `VyperCore` implements it
(`ImplementsTrancheShares`): `deposit`, `redeem`, the refresh and `collect_fee` are its
four actions.  `SlidingAverage` has no buffer, only the history and the
average of its tail.  `RateProgram` has only the account and the clock.  `OracleReader`
has the account, the clock and what the oracles show together.  `RateTwap` implements
`SlidingAverage` and `RateProgram` (`ImplementsSlidingAverage`, `ImplementsRateProgram`),
the three programs that read oracles `OracleReader`; `PublishRate` and `Tick` of `VyperCore` are
`RateProgram`'s steps.

Definitions whose comment starts with "Mutant:" are deliberate bugs, each the way a
plausible edit of the code would go wrong; they are used by no action.  For every property
of a passing run one of them, put in the place of the definition after it, makes TLC find
the property violated (`PROJECT.json` lists the pairs), so no property holds for free.

## The runs

All runs are exhaustive over their bounds.  `CHECK_DEADLOCK FALSE` stands in the runs with
bounded time or token amounts, which end every behaviour.

| Run | Instance | Checks |
| --- | --- | --- |
| `lending_market` | vyper-core with the lending plugin (50% split, no fee), rates 0, 1 and 2, one user with 4 tokens who is the owner, slots 0 to 2, a cap of one on the senior tranche | `RedeemableInFull`, `DepositsStopAtEveryCap`, `TradingNeverPays`, `WipedOutForever`, `RepeatedRefreshIsNeutral`, `ImplementsTrancheShares` |
| `market` | the same plugin with a fixed fee of 1, an owner and another user with 2 tokens, an oracle that moves within slots, slots 0 to 2; updates that halt redemptions, restrict deposits, open both again and set thresholds of 1, 2 and 3, two with unknown bits, and an initialization with one | `TypeOK`, `Solvency`, `HaltsHold`, `TradesAtRecentRates` |
| `payoffs` | six plugins, all positions of up to 5 tokens a side, term sheets on both sides of every flag with strikes and rates at, above and below one and at zero | the plugin properties |
| `root_payoffs` | the two plugins with roots, positions of 0 and 20 tokens a side, spots on both sides of, near and at the strike, one price on which the root never settles, LP tokens worth more and less than the underlying's move explains, moves inside, at and outside the caps | `CollateralSharedOut`, `RefreshNeverBlocked`, `ProtectionGrowsWithDistance`, `HedgedWithinCaps`, `SellerLossCapped` |
| `pool_rates` | a constant product pool of up to 6 tokens a side and 3 LP tokens, and a second one with mints of other decimals; either is emptied of base or LP tokens; any path of trades and changes of liquidity between refreshes, which are handed accounts of both | `ImplementsOracleReader`, `LpTokensAreWorthThePool`, `EarnedIsNotNegative` |
| `rate_switchboard` | two aggregators and an account of another program, results that convert or not, rounds opened in any slot up to the present one | `ImplementsOracleReader` |
| `rate_pyth` | two accounts, prices of both signs with exponents of both signs, trading, not trading, no price at all | `ImplementsOracleReader` |
| `holder_exit` | vyper-core with the lending plugin, two holders, an owner who halts redemptions and sets thresholds that make prices stale on arrival, rates one and two, time without end | `HoldersCanLeave` |
| `twap_convergence` | a mock with its authority and another signer, windows of one to three samples, spacings 0 to 2, time without end | `RateConverges` |
| `twap` | windows of several sizes and spacings, five samples, slots 1 to 4, a source that jumps | `TypeOK`, `NoSamplingBurst`, `RateWithinSamples` and the two refinements |
| `forward_refreshed_twice` | vyper-core with the forward plugin | violates `RepeatedRefreshIsNeutral` |
| `halt_all` | every halt flag set | violates `HaltAllStopsEverything` |

**Why these bounds.**  `SCALE` is 1000 in `lending_market` and `payoffs`, 100 where
products of three decimals occur, 10 for the TWAP and 1 where nothing is computed,
instead of 10^28: prices such as 1/3 and 2/3 still do not fit, so that every rounding
happens, and a state fits in TLC's integers.  Four tokens are enough for a price of 1/3,
2/3, 3/2 and 2 on either side, a tranche wiped out, its worthless tokens redeemed or
not, collateral moved into a tranche without holders, and a deposit after all that.
`MaxU64` is 10, which the supply of the junior tranche reaches in `lending_market`, so
that the limit of a 64-bit field bites there; the books (at most the four tokens of the
vault) and the fees stay below it.  Three slots with thresholds of 2 make rates and
prices fresh, stale and fresh again.  A tranche lifted above its cap needs a rise, a
deposit, and a fall; the run has all three.  Vectors of two rates and two oracles are
enough to swap, drop and repeat accounts and to mix an old value with a new one; a third
account that is not an oracle tells the checks of keys and owners apart.  In `market`
`MaxU64` is 3, so that the supply meets its limit there too, and three slots let the two
thresholds run out one after the other: a rate of slot 0 taken over in slot 1 must not
be traded at in slot 2.  The proofs take over where a bound could hide something: see
the table below.

**Fairness** stands in the two liveness runs only, as a premise about people, not about
the programs, which schedule nothing.  In `HolderExit`, slots pass and somebody keeps
the rate going (weak fairness: both are always possible); somebody refreshes the config
and a holder who wants to leave keeps trying (strong fairness: a refresh is possible
only until the rate is stale again, a redemption only until the price is, so each chance
comes and goes; anybody may send a refresh, the holder included).  The claim is
conditional on the owner leaving the config open in the end and on a tranche threshold
no smaller than the reserve's: with a smaller one a price can be stale on arrival (see
the observations).  In `TwapConvergence` weak fairness is enough: a sample far enough
from the last stays so.  Somebody stamps the mock, which anybody may; its authority need
not act.

**What they show.**  In short: the books never owe more than the vault has; a holder of
a tranche is never refused for rounding; no order of small deposits and redemptions
collects the roundings; caps and halts survive any interleaving with refreshes; all
eight plugins share out exactly what they get, have an answer but for three exceptions
that `RefreshNeverBlocked` names, and agree with each other where they are the same
contract (a forward is a call less a put, up to a token, and one more where an inverse
payoff is rounded twice; a settled forward quoted either way pays the same up to a token;
the two lending programs agree, up to a token, with their fees at zero), outside rates of
zero, where their special cases differ (see the observations); an account of a
rate program never mixes two moments; tranche tokens never change hands with the program
at a rate older than its threshold; holders get out, and the TWAP arrives.

## The proofs

`tlapm` checks all of them without leaving a step out.

| Theorem | States | Assumes |
| --- | --- | --- |
| `TypeCorrect` | `Spec => []TypeOK` | the constants' assumptions |
| `VaultSolvent` | `Spec => []Solvency` | the same |
| `DepositsStop` | `Spec => DepositsStopAtEveryCap` | the same |
| `HaltsStop` | `Spec => HaltsHold` | the same |
| `WipeOutIsFinal` | `Spec => WipedOutForever` | the same |
| `RedeemableWithinLimit` | `Spec => [](PricesWithinLimit => RedeemableInFull)` | the same; `PricesWithinLimit` is a condition on the present prices: below about `SCALE / MaxU64` reserve tokens |
| `NoGainFromTrading` | `Spec /\ []ExcessesFit => TradingNeverPays` | the same; `ExcessesFit` is nearly the same bound on prices |
| `CoreIsTrancheShares` | `Spec => ImplementsTrancheShares` | the same as `TypeCorrect` |
| `NeutralPluginNeutralRefresh` | `Spec => RepeatedRefreshIsNeutral` | also: the plugin returns the quantities it is given at an unchanged rate |
| `PluginsShareOut` | `Spec => []CollateralSharedOut` of `RedeemLogicPlugins` | its constants' assumptions |
| `ClampedNeverBlocked` | `Spec => []RefreshNeverBlocked` of `RedeemLogicPlugins` | also: the plugins are among the forward, settled forward, vanilla option and digital ones; the first deposits together fit 64 bits |
| `LendingNeverBlocked` | the same, the two lending programs included | also `RatiosFit`: no rate is `SCALE - MaxU64 - 2` times another |
| `LendersKeepTheirValue` | `Spec => []LendersMadeWhole` | the constants' assumptions |
| `FeeComesOutOfGain` | `Spec => []FeePaidFromGain` | the same |
| `LendingIsNeutral` | the lending plugin without a fixed fee changes nothing at an unchanged rate | the same |
| `PayoffsAreMonotone` | `Spec => []PayoffFollowsRate` | the same |
| `ForwardIsCallLessPut` | `Spec => []CallPutParity` | also `MaxU64 <= SCALE` |
| `QuotesAreConsistent` | `Spec => []SettlementConsistent` | also `RatesInvert`: settlement rates between `4 * (MaxU64 + 1)` units and what has such a reciprocal |
| `LendingTwiceTheSame` | `Spec => []LendingProgramsAgree` | also `RatiosFitTwice`: no rate is about `SCALE / 2` times another |
| `RootSettles` (`DecimalTheorems`) | `DecSqrt(d) # {}` | `d` is not negative, `InReach(d)`: a power of two with at most `NewtonSteps - 3` doublings exceeds `d + 6 * SCALE`; not `Oscillates(d)` |
| `ProtectionNeverBlocked` | `Spec => []RefreshNeverBlocked` for the fila plugin | also `StrikesInReach`: the iteration has steps enough for every product of a rate and a strike; the first deposits together fit 64 bits |
| `ProtectionGrows` | `Spec => []ProtectionGrowsWithDistance` | also `PricesFit`: rates and strikes are zero or at least `10 * (MaxU64 + 1)` units |
| `FarmingNeverBlocked` | `Spec => []RefreshNeverBlocked` for the farming plugin | also `PricesInReach`, the same for its two roots; positive prices between `low` and `high` with `RangeFits(low, high)`; an even `SCALE`; the first deposits together fit 64 bits |
| `FarmingIsHedged` | `Spec => []HedgedWithinCaps` | also: an even `SCALE` |
| `SellerLossIsCapped` | `Spec => []SellerLossCapped` | the same |
| `RatesAreRecent` | `MarketSpec => TradesAtRecentRates` of `Market` | its constants' assumptions |
| `SwitchboardIsOracleReader` | `Spec => ImplementsOracleReader` of `RateSwitchboard` | the same |
| `PoolIsOracleReader` | `Spec => ImplementsOracleReader` of `RatePoolv2` | the same |
| `PythIsOracleReader` | `Spec => ImplementsOracleReader` of `RatePyth` | the same |
| `LpTokensWorthPool` | `Spec => []LpTokensAreWorthThePool` of `RatePoolv2` | the same |
| `PoolNeverLoses` | `Spec => []EarnedIsNotNegative` of `FarmingPool` | also: pools move as `ConstantProduct` says; an even `SCALE` with the digits of the mints |
| `NoBurst` | `Spec => []NoSamplingBurst` of `RateTwap` | the same |
| `BufferIsWindow` | `Spec => [](samples = Average!Window(recorded))` of `RateTwap` | the same |
| `TypeCorrect` (`RateTwap_proofs`) | `Spec => []TypeOK` of `RateTwap` | the same |
| `RateIsWithin` | `Spec => []RateWithinSamples` of `RateTwap` | the same |
| `TwapIsRateProgram` | `Spec => ImplementsRateProgram` of `RateTwap` | the same |
| `TwapIsSlidingAverage` | `Spec => ImplementsSlidingAverage` of `RateTwap` | the same |

**Assumptions.**  `PluginAssumption` (in `VyperCore`): whatever a plugin returns is in
range and adds up to what it was given.  vyper-core does not check it; `PluginsShareOut`
proves it of the eight plugins, for all quantities, rates and terms.  The other
assumptions are types of constants, but for `ExposAssumption` of `RatePyth`: a negative
exponent of a price stands for digits that a decimal has, 28 of which the crate keeps
and about eight of which Pyth uses.  `SCALE` and `MaxU64` are arbitrary, except where the
table says otherwise, and `SCALE = 10^28`, `MaxU64 = 2^64 - 1` satisfy all of that.

Six theorems about plugins ask something of the market.  A quotient of two rates is
rounded to 28 digits and then multiplied by a quantity of up to 2^64, so that its error
is worth a token when one rate is far enough from the other.  How far is written out, in
`RatiosFit` (a ratio of 10^28 less 2^64), `RatiosFitTwice` (nearly 5 * 10^27) and
`RatesInvert` (a settlement rate between 8 * 10^-9 and 10^8), next to the theorems.
Beyond such a ratio a refresh of a lending config does fail.  `PricesFit` is the same kind
of bound for the product under a root: prices of 2 * 10^-8 and more, with 28 digits.
`RangeFits` bounds how far prices may lie apart: 10^-6 to 10^7 is such a range, with 28
digits.
`StrikesInReach` and `PricesInReach` bound the products under a root by the steps that
the crate takes before it gives up: fewer than 1000 of them are enough for decimals of up
to 990 binary digits, and the crate's largest has 190 in units of its smallest, 2^96 times
10^28.  The products on which the
iteration never settles, however many the steps, are left out by the property itself
(`Oscillates`, see the observations).
`NeutralPluginNeutralRefresh` is about any plugin that changes nothing at an unchanged
rate; `LendingIsNeutral` says that the lending plugin is one, and
`forward_refreshed_twice` that the forward is not.

**Arguments.**

- *Solvency* is inductive with `TypeOK`: deposits and redemptions move tokens and books
  by the same amount, a refresh splits a sum (`PluginAssumption`), a collection takes
  the fees off both.  The lemma `TransferFromVault` covers a payment into the vault
  itself.
- *RedeemableInFull* is not inductive: a redemption takes the FLOOR of its value from
  the books, so what is left depends on the price before rounding.  What a tranche owes
  beyond what it holds is to be counted in units of `1 / SCALE`: the supply at its price,
  less the books.  A refresh leaves at most half a unit for each token (`RoundingError`); a
  redemption adds nothing because a floor takes no more than the exact value; a deposit
  adds up to `Excess`, half the price in the last digit, because the tokens minted are the
  floor of a quotient that was itself rounded, possibly up to the next integer
  (`MintedWithinRounding`).  Nothing limits the number of deposits, so that adding up gives
  no bound.  But what is owed is always the supply at its price less whole reserve tokens,
  and a supply is a 64-bit number: it takes one of `MaxU64 + 1` values.  Among one more
  intervals of the length of `Excess` one is free of them (`GapExists`, a pigeonhole
  argument), and no deposit can jump it.  The invariant `Backed` says that of every gap at
  once: what is owed stays below it.  At prices within the limit one gap lies below a
  whole reserve token, and then a floor cannot tell.
- *TradingNeverPays*: a redemption pays a floor, and the floor of a sum is at least the sum
  of the floors (`SplitRedemption`).  A deposit that is minted a little more than it pays
  for would gain if the claim on all tokens then crossed a whole reserve token.  Suppose it
  did: modulo `SCALE`, the worth of the tokens minted leaves a small remainder, and that of
  the larger supply after them a smaller one still.  From the two a combination can be
  formed, by their common divisor, that `SCALE` divides, and that is positive and at most
  the supply times the excess, hence below `SCALE` (`CommonDivisor`, `RemaindersOrdered`).
  There is none, so that the excess is lost to the floor of the claims (`MintedClaim`).
- *ImplementsTrancheShares*: one lemma per instruction, on the arithmetic of its quotient,
  floor or sum; the rest of an instruction does not touch the shares.  It holds at any price:
  `MintedWithinRounding` bounds what the rounding of one deposit may give away.
- *CollateralSharedOut*: every plugin ends in one of three forms, each of which adds up
  by construction of its remainder; what has to be proved is that the remainder of
  `ReturnsFloors` is a fee of at most one token, from `FloorFact` twice.
- *ClampedNeverBlocked*: these four payoffs are clamped, between zero and all the
  collateral (the option's between zero and the junior quantity), so that a side's floor
  and what it leaves are 64-bit quantities as long as the sum of the old ones is
  (`Solid`); that sum never grows, because a result shares out what there was.
- *The payoffs' directions* (`PayoffsAreMonotone`) come down to rounding being
  monotone (`RoundingMonotone`), which holds because a tie goes to the even neighbour: with
  the two ties next to each other going apart, the larger number still rounds no lower.
  Multiplying, dividing, clamping and flooring then preserve the order.
- *LendersKeepTheirValue*, *FeeComesOutOfGain*: a value divided by one rate and multiplied
  by another comes back with an error of half a unit per quotient (`RoundingError`),
  and every floor loses less than a token.  For the performance fee the rounding goes the
  right way: the rate that is multiplied by is the higher one.
- *ForwardIsCallLessPut*: the three payoffs are cut off by the same two quantities, so the
  decimals agree exactly when the payoff is linear; an inverse one is rounded per option
  in one program and once in the other.  With `MaxU64 <= SCALE` that difference, of at
  most half a unit per option, is less than a token.
- *LendingNeverBlocked*: the value of the senior tranche passes through three roundings.
  Before rounding, the tokens it is left with are no more than it had, a whole number;
  under `RatiosFit` the roundings add less than half a token, so that the integer nearest
  to it is no more than it had either.  The program with fees floors two values that add
  up to at most the collateral's.
- *QuotesAreConsistent*: a rate and its rounded reciprocal settle a payoff that the
  collateral covers less than a token apart, because such a payoff is bounded; a larger
  one is cut off in both quotes.
- *LendingTwiceTheSame*: both programs compute the same exact value, one by the ratio of
  the rates and the other by values; their errors together stay below half a token less
  a unit.  One rounds to the nearest token and leaves the rest to the junior tranche, the
  other floors both sides: the results are at most one apart on either.
- *RootSettles*: the first step leads above the integer root, at most as far as the number
  is large (`FirstStep`, `StepFromBelow`); from there each step halves the distance but for a
  constant, roundings included (`StepHalves`), and the last two lead to the root or its
  neighbour (`StepNearRoot`).  If these two lead to each other, the number has the form
  of `Oscillates`, because a tie goes to the even number twice (`NeighboursSwap`).
  Powers of two are counted as subsets (`PowersOfTwo`), the guesses and the induction over
  them as a set of naturals.
- *ProtectionNeverBlocked*, *ProtectionGrows*: where the iteration ends, a rounded step
  leaves the number alone, and such a number is a root up to about three quarters of a
  unit (`RootFact`), whatever the guesses were.  The
  payoff of protection is the square of a difference of roots; outside `NearStrike`, which
  is 10^-14 wide in the crate, it outweighs that error.  Between two spots
  the errors of both roots come to a few units of the decimal and a few reciprocals of the
  price: under `PricesFit` that, times the notional, is less than a token.
- *FarmingNeverBlocked*: what the senior tranche's LP token is to be worth is, when the
  pool lost, the new price less the loss at the cap, and otherwise at least the old price
  moved along with the underlying (`HedgedWorth`).  The first is not negative because a
  rounded root exceeds the mean of two prices by a few units only (`RootExcess`,
  `CapLossSmall`).  The second is because twice the base tokens at the old price are the
  old LP price (`BaseFact`) and the root of two prices is at least half the smaller one
  (`RootLarge`): within `RangeFits` that outweighs all roundings.
- *FarmingIsHedged*, *SellerLossIsCapped*: the payoff multiplies differences of roots by the
  base tokens of an LP token, a quotient rounded twice; `HalfQuotient` says how far it is
  from half of what the LP token is worth in them.  The roots are compared with the
  numbers whose squares are known by comparing squares (`RootOfProduct`, `SquareOrder`);
  a capped price is a quotient, rounded, capped and multiplied back, off by a unit and a half
  and half the old price in the last digit (`CapClose`), and inside the caps it is the
  price but for the rounding (`CapUntouched`).  The tolerance of
  the properties, `LossRounding`, is the sum of these errors for any prices.
- *PoolNeverLoses*: the property compares the prices stored at some refresh with those of
  now; what ties them together is what happened between.  The invariant `Grown` says that
  the stored prices are those of amounts which the pool once had, and that the product of
  what one LP token stands for has not fallen since.  A trade keeps the LP tokens and
  grows the product; a change of liquidity grows both factors.  The four prices are
  roundings of quotients of those amounts (`PricesWithin`), which `PricesGrow` turns into an
  inequality between the prices alone; decimals of the mints scale both sides by the same
  factor (`SupplyExact`).  From there on it is the plugin's arithmetic (`EarnedRoots`,
  `EarnedBound`).
- *NeutralPluginNeutralRefresh*: at an unchanged rate such a plugin moves nothing between
  the tranches; what it shares out is then all there was, so that its fee is zero
  (`PluginAssumption`), and the prices are computed from the same books again.  They are the
  prices there were, unless deposits and redemptions since have left the dust of their
  floors in the books, which only a refresh puts into the prices: the property says so.
- *TradesAtRecentRates* is not inductive: the invariant `Traced` says of every stamp,
  the rate account's, the reserve value's and the tranche price's, that the oracle
  showed that value in that slot, and that the two stamps of the config are equal.
- *The refinements* of the rate programs need that the keys stored at initialization are
  those of a prefix of the vector (`Stored`): with as many accounts handed in as are
  stored, each equal to the one at its place, they are all of them, in their order.
  For `RatePyth` the two sides compute the price in different ways, by the exponent's
  sign; they agree because a power of ten that `SCALE` has digits for divides it.
- *NoBurst* and *BufferIsWindow* share one invariant, `Buffer`: samples increase by at
  least the spacing, so the one with the lowest slot is the first, and evicting it
  leaves the tail; with a spacing of zero equal slots occur, and the search takes the
  first of them.
- *RateIsWithin* and the two refinements of the TWAP need its average, a fold over the
  samples.  The induction theorems of the library take an operator, which the provers
  cannot instantiate; the induction over the prefixes of the buffer is therefore a fact
  about a *set* of naturals (`SetInduction`), which first shows that the function the
  fold's equation defines exists, and then that a sum of samples lies between as many
  times the least and the greatest of them.  `Published` adds that what the account
  holds is the average of the buffer as it stands.

`PricesWithinLimit` and `ExcessesFit` are hypotheses, not invariants, since nothing bounds a
rate; but with 2^64 and 10^28 they only ask that a tranche token be worth less than
1.08 * 10^9 reserve tokens; it starts at one.  Some bound is needed: above two, a deposit's
quotient can be rounded up to a whole token that is worth a unit of the decimal more than
the deposit.  At 3.001 with three digits, 3 buy a token, and when 999 of them exist already,
the holders' claims rise from 2997 to 3001, by four tokens for three; it takes as many
tokens as a decimal has digits for, and 2^64 is far from 10^28.  For larger prices
`CoreIsTrancheShares` still bounds the rounding of each step.  The theorems are about the
model's decimals; a crate product of a quantity and a price beyond 7.9 is rounded at its
29th significant digit, which the model leaves out.

The proofs corrected five properties.  `LendersMadeWhole` and `CallPutParity` were first
stated with the tolerance that the instance needs; for other values of `SCALE`, rates and
notionals the roundings take half a unit, or a token, more, which the proofs showed and
the properties now allow.  `HedgedWithinCaps`, `SellerLossCapped` and `EarnedIsNotNegative`
had tolerances that grow too slowly with the prices; those they have now are sums of the
roundings in the code's formulas.  The values they compare are multiplied by the prices that
the code divides by, so that the comparison itself rounds nothing.

**Only model-checked:**

- `HoldersCanLeave` and `RateConverges`, which are liveness under fairness.
- What needs no theorem: the two runs that end in a violation.

Every invariant and every action property of a passing run is thus a theorem.

## Disagreements found

- `forward_refreshed_twice`: README.md:13 says a payoff is computed from the *initial*
  collateral and prices.  The code passes the *current* quantities
  (`vyper-core/src/instructions/refresh_tranche_fair_value.rs:116`), so the forward, whose
  payoff is measured against a constant strike, is paid again at every refresh.  The
  lending plugins compare with the last rate and are not affected.
- `halt_all`: `HALT_ALL` is commented "Disable all operations"
  (`vyper-core/src/state/tranche_halt_flags.rs:12`); `collect_fee` ignores it.

## Observations

Not in disagreement with anything written, but worth knowing when working on this code:

- `deposit` divides by both prices, also by that of a tranche it mints nothing of.  A
  tranche wiped out and redeemed keeps its price of zero for ever and closes the config
  to deposits (`WipedOutForever`, `WipeOutIsFinal`).
- A deposit smaller than the price of one token mints nothing and is kept.
- The fixed fee of the lending plugin is charged per refresh, not per period, and
  anybody may refresh.
- The digital plugin gives the senior tranche the junior quantity when in the money; a
  second refresh then gives it what the junior got in the first.
- Collateral that a refresh moves into a tranche without tokens belongs to no holder
  until somebody deposits there at the old price.
- At a rate of zero the two lending programs differ (old rate zero: one leaves the
  quantities alone, the other gives everything to the senior), and an inverse put pays
  nothing although its payoff grows without bound as the rate falls; a unit test asserts
  it.
- The protection of `redeem-logic-fila` is a square, expanded: with the spot at or next
  to the strike a root rounded up makes the payoff negative by one unit, its floor is
  -1, the conversion to u64 fails and with it the refresh
  (`redeem-logic-fila/src/lib.rs:147`).  The config can be refreshed again when the spot
  has moved.
- The decimal crate's square root takes the mean of a guess and its quotient until nothing
  changes.  On a number of the form r (r + 3/2), with r an even number of units in the last
  digit, the two roundings make it go back and forth between r and r + 1; after 1000
  steps the crate panics.  In the model's decimals with 28 digits 4 and three units is
  such a number; `root_payoffs` has 1.87, with two digits.  A refresh of `redeem-logic-fila`
  or `redeem-logic-farming` fails at such a product of prices, until one of them moves.
- `redeem-logic-farming`'s `initialize` does not check its caps; with both negative
  every refresh with both tranches filled fails at the square root.
- A reserve threshold above the tranche threshold lets a refresh accept a rate so old
  that the price it stamps is stale on arrival; redemptions are closed until a younger
  rate.
- `rate-switchboard` stamps a refresh with the current slot although it has just
  computed the slot of the oldest round (`rate-switchboard/src/lib.rs:73`),
  `rate-mock`'s `refresh` stamps an old value, and `rate-pyth` reads the current slot's
  price only as far as the product is trading: staleness of the feed behind a rate
  program does not reach vyper-core, which only learns when the rate program last
  looked.
- `rate-pyth` leaves the owner of a price account unchecked; a config's rate is as good
  as the accounts its `initialize` was given.
- A stale threshold of zero makes every value stale, which halts the config without a
  flag.

## What is not modelled

- *Account checks*: seeds, mint and authority constraints, account sizes and rent, and
  the core program's `has_one`: the accounts in `VyperCore` are the right ones.  The
  keys and `has_one` of the rate programs are modelled.
- *Tokens moved outside the program*: a direct SPL transfer into the vault, a direct
  burn, or a transfer of tranche tokens between users.
- *The decimals' 96 bits*, see above; formatting, logging and serialisation.
- *What the feeds are made of*: Switchboard's and Pyth's own consensus, the pool's
  curve; their accounts take any value.  Pyth's confidence interval is not read by the
  code.
- *`f64` arguments*: the values that `initialize` and `set_fair_value` take are decimals
  here; an `f64` that does not convert fails the instruction.
- *`sdk/`, `scripts/`, `libs/vyper-macros`*: clients and tooling; no protocol state.

## Plan

Done: the core program with its properties and proofs; all eight plugins; all five rate
programs, four of them against an abstract specification; the market, the pools, liveness.
What is left:

1. **`Market` behind the TWAP**, so that a price's age spans three programs.
2. **The crate's 96-bit mantissa**, a second rounding of large products and quotients, in
   `Decimals`, and its error in `DecimalTheorems`.
