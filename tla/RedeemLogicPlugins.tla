--------------------------- MODULE RedeemLogicPlugins -----------------------
(***************************************************************************)
(* The redeem logic plugins side by side, each holding one position of two   *)
(* tranches that is refreshed at one rate after another.  No deposits and no *)
(* redemptions happen here: VyperCore has those.                             *)
(*                                                                         *)
(* The properties are what a plugin owes the core program, which trusts it,  *)
(* and what the plugins owe each other: several of them are the same payoff  *)
(* written twice, in separate programs that share no code.                   *)
(***************************************************************************)
EXTENDS RedeemLogicCommon, DecimalSqrt

CONSTANTS
  Plugins,     \* the plugins under consideration
  Terms,       \* bound: the parameters passed to the initialize instructions
  Rates,       \* bound: the values of the first rate
  SecondRates, \* bound: the values of the second one, for the plugins that read it
  Deposits     \* bound: what a tranche holds at first

\* The types of the parameters; what values initialize takes is in each plugin's module.
ASSUME TermsAssumption ==
  Terms \subseteq
    [strike : Int, notional : U64, is_call : BOOLEAN, is_linear : BOOLEAN,
     is_standard : BOOLEAN, interest_split : Int, mgmt_fee : Int, perf_fee : Int,
     fixed_fee_per_tranche : U64, cap_low : Int, cap_high : Int]

\* A rate account may show a negative value; a config starts at one.
ASSUME RatesAssumption ==
  /\ Rates \subseteq Int /\ SecondRates \subseteq Int
  /\ One \in Rates \intersect SecondRates

ASSUME BoundsAssumption ==
  /\ Deposits \subseteq U64
  /\ Plugins \subseteq {"lending", "lending_fee", "digital", "forward", "settled_forward",
                       "vanilla_option", "fila", "farming"}

VARIABLES plugin, terms, quantity, rate

vars == <<plugin, terms, quantity, rate>>

Lending        == INSTANCE RedeemLogicLending
LendingFee     == INSTANCE RedeemLogicLendingFee
Digital        == INSTANCE RedeemLogicDigital
Forward        == INSTANCE RedeemLogicForward
SettledForward == INSTANCE RedeemLogicSettledForward
VanillaOption  == INSTANCE RedeemLogicVanillaOption
Fila           == INSTANCE RedeemLogicFila
Farming        == INSTANCE RedeemLogicFarming

\* The first two of the ten rates of a fair value vector; no plugin reads more.
FairValue(first, second) == [i \in 0 .. 1 |-> IF i = 0 THEN first ELSE second]
FairValues == {FairValue(first, second) : first \in Rates, second \in SecondRates}

\* The rates a config starts from, whatever the market.
InitFairValue == FairValue(One, One)

\* What the "initialize" instruction of each program accepts.
Accepts(p, t) ==
  CASE p = "lending"         -> Lending!initialize(t)
    [] p = "lending_fee"     -> LendingFee!initialize(t)
    [] p = "digital"         -> Digital!initialize(t)
    [] p = "forward"         -> Forward!initialize(t)
    [] p = "settled_forward" -> SettledForward!initialize(t)
    [] p = "vanilla_option"  -> VanillaOption!initialize(t)
    [] p = "fila"            -> Fila!initialize(t)
    [] p = "farming"         -> Farming!initialize(t)

\* The "execute" instruction of each program.
Execute(p, t, q, old, new) ==
  CASE p = "lending"         -> Lending!execute(q, old, new, t)
    [] p = "lending_fee"     -> LendingFee!execute(q, old, new, t)
    [] p = "digital"         -> Digital!execute(q, old, new, t)
    [] p = "forward"         -> Forward!execute(q, old, new, t)
    [] p = "settled_forward" -> SettledForward!execute(q, old, new, t)
    [] p = "vanilla_option"  -> VanillaOption!execute(q, old, new, t)
    [] p = "fila"            -> Fila!execute(q, old, new, t)
    [] p = "farming"         -> Farming!execute(q, old, new, t)

----------------------------------------------------------------------------

Init ==
  /\ plugin \in Plugins
  /\ terms \in {t \in Terms : Accepts(plugin, t)}
  /\ quantity \in [Tranches -> Deposits]
  /\ rate = InitFairValue

Refresh(new) ==
  /\ \E result \in Execute(plugin, terms, quantity, rate, new) :
       quantity' = result.new_quantity
  /\ rate' = new
  /\ UNCHANGED <<plugin, terms>>

Next == \E new \in FairValues : Refresh(new)

Spec == Init /\ [][Next]_vars

----------------------------------------------------------------------------
(* What the core program relies on *)

Results(p, new) == Execute(p, terms, quantity, rate, new)

Near(a, b) == a - b \in -1 .. 1

\* Whatever the next rate, the result shares out exactly what the tranches held; a plugin
\* that charges no fee keeps at most one token of dust (a test asserts the first part for
\* one input at a time, the core program never checks it).
CollateralSharedOut ==
  \A new \in FairValues : \A result \in Results(plugin, new) :
    /\ Conserves(quantity, result)
    /\ plugin \notin {"lending", "lending_fee"} => result.fee_quantity <= 1

\* Whether a sum of two decimals is close to a root: so close that rounding the root up
\* can make their difference negative.
NearStrike(spot, strike) ==
  (spot - strike) * (spot - strike) <= 2 * SCALE + 8 * (spot + strike) + 8

\* The products of prices whose roots the plugin takes at a new rate.
Rooted(new) ==
  IF plugin = "fila" THEN {DecMul(new[0], terms.strike)}
  ELSE IF plugin = "farming" /\ rate[1] > 0
  THEN {DecMul(rate[1], price) :
          price \in {new[1], Farming!CappedUl(rate[1], new[1], terms.cap_low, terms.cap_high)}}
  ELSE {}

\* At every rate that is not negative the plugin has a result, under all the terms its
\* initialize instruction takes: none of its subtractions underflows, no conversion to u64
\* fails and no root is given up, which would leave the config without a price and its
\* holders, after two slots, without a way to redeem.  Three exceptions: protection against
\* impermanent loss when the spot is at the strike, where the payoff may come out below
\* zero by one unit; farming with two negative caps, which initialize takes; and the few
\* products on whose roots the crate's iteration never settles.  (A product of decimals
\* that does not fit the crate's 96 bits fails too; that limit is not modelled.)
RefreshNeverBlocked ==
  \A new \in FairValues :
    /\ plugin # "digital" => IsValid(rate, new)
    /\ plugin = "fila" => ~NearStrike(new[0], terms.strike)
    /\ plugin = "farming" => Greater(terms.cap_low, terms.cap_high) >= 0
    /\ \A product \in Rooted(new) : ~Oscillates(product)
    => Results(plugin, new) # {}

----------------------------------------------------------------------------
(* What a payoff promises its two sides *)

\* The senior tranche of a lending config keeps its value, or as much of it as both
\* tranches hold, up to the fixed fee and two roundings, of half a token and of half a unit
\* of the decimal before it; the junior tranche has nothing after a total loss.
LendersMadeWhole ==
  plugin = "lending" =>
    \A new \in FairValues : \A result \in Results("lending", new) :
      LET old_value == rate[0] * quantity[0]
          available == new[0] * Total(quantity)
          senior    == result.new_quantity[0] + terms.fixed_fee_per_tranche
      IN  /\ new[0] * (2 * One * senior + One + 1) >= 2 * One * Lesser(old_value, available)
          /\ new[0] = 0 /\ rate[0] > 0 => result.new_quantity[1] = 0

\* The performance fee is paid out of the gain: when the rate rises, the holders of both
\* tranches together are left with no less value than they had before the rise, net of the
\* management fee and of the two tokens that flooring may take.
FeePaidFromGain ==
  plugin = "lending_fee" =>
    \A new \in FairValues : \A result \in Results("lending_fee", new) :
      rate[0] > 0 /\ new[0] > rate[0] =>
        new[0] * (Total(result.new_quantity) + 2) * One
          >= rate[0] * Total(quantity) * (One - terms.mgmt_fee)

\* Whether the senior tranche profits from a higher rate, or from a lower one.
SeniorLong  == \/ plugin \in {"forward", "settled_forward"}
               \/ plugin \in {"vanilla_option", "digital"} /\ terms.is_call
SeniorShort == plugin \in {"vanilla_option", "digital"} /\ ~terms.is_call

\* The long side of a forward and the holder of a call never get less, the holder of a put
\* never more, at a higher rate; nor does the winner of a digital.  The inverse put is
\* left out at a rate of zero: its payoff grows without bound as the rate falls, and the
\* code pays nothing there.
PayoffFollowsRate ==
  SeniorLong \/ SeniorShort =>
    \A low, high \in FairValues :
      /\ low[0] <= high[0]
      /\ low[1] = high[1]
      /\ ~(plugin = "vanilla_option" /\ SeniorShort /\ ~terms.is_linear /\ low[0] = 0)
      => \A l \in Results(plugin, low), h \in Results(plugin, high) :
           /\ SeniorLong  => l.new_quantity[0] <= h.new_quantity[0]
           /\ SeniorShort => l.new_quantity[0] >= h.new_quantity[0]

\* The buyer of protection against impermanent loss receives no less when the spot ends
\* farther from the strike on the same side, up to one token.
ProtectionGrowsWithDistance ==
  plugin = "fila" =>
    \A near, far \in FairValues :
      \/ terms.strike <= near[0] /\ near[0] <= far[0]
      \/ terms.strike >= near[0] /\ near[0] >= far[0]
      => \A n \in Results("fila", near), f \in Results("fila", far) :
           f.new_quantity[0] + 1 >= n.new_quantity[0]

\* How much the roundings of the farming plugin may take off a difference of roots: of the
\* capped price, computed from a quotient of prices, and of the roots of two products, of
\* which none is less than `root`.
LossRounding(old_ul, root) ==
  4 + (3 * One + old_ul) \div (2 * One)
    + (2 * One + old_ul + (old_ul * old_ul) \div One) \div root

\* While the underlying has moved within the caps and the pool has earned something, the
\* senior tranche of a farming config holds at least what its LP tokens would be worth
\* had they been split and kept, half of the quote currency and half of the underlying, up
\* to one token and the rounding of roots and quotients; or all there is.  The values are
\* multiplied by twice the underlying's old price, which they would be divided by.
HedgedWithinCaps ==
  plugin = "farming" =>
    \A new \in FairValues : \A result \in Results("farming", new) :
      LET old_lp == rate[0]
          old_ul == rate[1]
          earned == new[0] * new[0] * old_ul >= old_lp * old_lp * new[1]
          InCaps == /\ terms.cap_low * old_ul <= new[1] * One
                    /\ new[1] * One <= terms.cap_high * old_ul
          kept   == old_lp * One * (old_ul + new[1])
          rounding == 2 * old_ul * (old_ul + new[1]) + 4 * old_ul * One
                        + (old_lp * One + 2 * old_ul)
                            * LossRounding(old_ul, Lesser(old_ul, new[1]))
      IN  /\ quantity[1] > 0
          /\ 0 \notin {old_lp, old_ul, new[0], new[1]}
          /\ earned /\ InCaps
          => \/ 2 * old_ul * One * (new[0] * (result.new_quantity[0] + 1))
                  >= quantity[0] * (kept - rounding)
             \/ result.new_quantity[0] = Total(quantity)

\* The seller of that protection never pays for more than the impermanent loss at the
\* cap, were the underlying to move on beyond it: the square of the difference of the roots
\* of the two prices, here with any integer up to the root of their product.
SellerLossCapped ==
  plugin = "farming" =>
    \A new \in FairValues : \A result \in Results("farming", new) :
      LET old_lp == rate[0]
          old_ul == rate[1]
          low    == (terms.cap_low * old_ul) \div One
          high   == (terms.cap_high * old_ul) \div One
          capped == Greater(low, Lesser(high, new[1]))
      IN  0 \notin {quantity[0], quantity[1], old_lp, old_ul, new[0], new[1]} =>
            \A root \in 0 .. Greater(old_ul, capped) :
              root * root <= old_ul * capped =>
                LET loss == (old_lp * One + 2 * old_ul)
                              * (old_ul + capped - 2 * root
                                   + LossRounding(old_ul, Greater(root, 1)))
                              + old_ul * One
                IN  2 * old_ul * One * (new[0] * (result.new_quantity[0] - quantity[0]))
                      <= quantity[0] * loss + old_ul * new[0]

----------------------------------------------------------------------------
(* What the programs promise of each other *)

\* Put-call parity across three runs of two programs: a long forward is a call, covered by
\* the junior quantity, less a put, covered by the senior one, whatever part of either the
\* collateral covers.  All three floor, in favour of the junior side of the forward, and an
\* inverse payoff is rounded per option in one program and once in the other.  Not at a rate
\* of zero for inverse payoffs, where the forward takes all from the senior tranche and the
\* put pays nothing.
CallPutParity ==
  plugin = "forward" =>
    \A new \in FairValues :
      new[0] > 0 \/ terms.is_linear =>
        \A forward \in Results("forward", new),
           call \in Execute("vanilla_option", [terms EXCEPT !.is_call = TRUE],
                           quantity, rate, new),
           put \in Execute("vanilla_option", [terms EXCEPT !.is_call = FALSE],
                          Split(quantity[1], quantity[0]), rate, new) :
          forward.new_quantity[0] - (quantity[0] + call.new_quantity[0] - put.new_quantity[0])
            \in IF terms.is_linear THEN -1 .. 0 ELSE -2 .. 1

\* A settled forward quoted the other way round pays the same up to one token, and settled
\* at one it is the forward of the other program.
SettlementConsistent ==
  plugin = "settled_forward" =>
    \A new \in FairValues : new[1] > 0 =>
      \A result \in Results("settled_forward", new) :
        /\ \A inverse \in Execute("settled_forward",
                  [terms EXCEPT !.is_standard = ~terms.is_standard], quantity, rate,
                  FairValue(new[0], DecDiv(One, new[1]))) :
             Near(result.new_quantity[0], inverse.new_quantity[0])
        /\ new[1] = One => result \in Results("forward", new)

\* The lending program that takes no fee and the other one with its fees at zero share the
\* collateral out alike, up to one token, but for a rate of zero: there the first leaves
\* the quantities alone when the old rate is zero, the second gives everything to the
\* senior tranche.
LendingProgramsAgree ==
  plugin = "lending" =>
    \A new \in FairValues : rate[0] > 0 =>
      LET free == [terms EXCEPT !.fixed_fee_per_tranche = 0, !.mgmt_fee = 0, !.perf_fee = 0]
      IN  \A with_fee \in Execute("lending_fee", free, quantity, rate, new),
             without \in Execute("lending", free, quantity, rate, new) :
            \A i \in Tranches : Near(with_fee.new_quantity[i], without.new_quantity[i])

=============================================================================
