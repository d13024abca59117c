--------------------------- MODULE RedeemLogicCommon ------------------------
(***************************************************************************)
(* What the core program and the redeem logic plugins share: the two       *)
(* tranches, 64-bit quantities of reserve tokens, and the input and result *)
(* of a plugin's "execute" instruction (libs/vyper-utils).                  *)
(*                                                                         *)
(* A plugin is an operator that returns the SET of its results: one result *)
(* when the instruction returns one, none when it fails or panics, which   *)
(* aborts the transaction it runs in.                                       *)
(***************************************************************************)
EXTENDS Decimals

CONSTANT MaxU64   \* 2^64 - 1

ASSUME MaxU64Assumption == MaxU64 \in Nat

\* Index 0 is the senior tranche, 1 the junior one.
Tranches == {0, 1}

U64        == 0 .. MaxU64
Quantities == [Tranches -> U64]

Total(q) == q[0] + q[1]

RedeemLogicExecuteResult == [new_quantity : Quantities, fee_quantity : U64]

\* RedeemLogicExecuteInput::is_valid: no rate of either vector is negative, those the
\* plugin does not read included.
IsValid(old_fair_value, new_fair_value) ==
  \A i \in DOMAIN old_fair_value : old_fair_value[i] >= 0 /\ new_fair_value[i] >= 0

\* The result when `new` is within range, otherwise the panic of a failed conversion.
Returns(new, fee) ==
  LET result == [new_quantity |-> new, fee_quantity |-> fee]
  IN  {r \in {result} : r \in RedeemLogicExecuteResult}

\* Mutant: the dust is nobody's.
RemainderLost(q, new) == 0

\* What is left of the collateral once both tranches' quantities are floored.
Remainder(q, new) == Total(q) - Total(new)

\* The pair <<senior, junior>> as a quantity array.
Split(senior, junior) == [i \in Tranches |-> IF i = 0 THEN senior ELSE junior]

\* Two decimal quantities floored; the dust becomes a fee.  The sum of u64s must not overflow.
ReturnsFloors(q, senior, junior) ==
  LET new == Split(DecFloor(senior), DecFloor(junior))
  IN  {r \in Returns(new, Remainder(q, new)) : Total(q) \in U64}

\* A senior quantity floored, and all the rest to the junior tranche, without a fee.
ReturnsRest(q, senior) ==
  {r \in Returns(Split(DecFloor(senior), Total(q) - DecFloor(senior)), 0) : Total(q) \in U64}

\* A result shares out what the tranches held, no more and no less: the plugins'
\* unit tests all assert it.
Conserves(old, result) ==
  Total(old) = Total(result.new_quantity) + result.fee_quantity

=============================================================================
