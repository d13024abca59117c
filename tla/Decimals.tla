------------------------------ MODULE Decimals ------------------------------
(***************************************************************************)
(* The decimal arithmetic of rust_decimal, as the programs use it: a        *)
(* decimal d is the integer d * SCALE.  SCALE is 10^28 in the crate, whose  *)
(* Decimal keeps at most 28 fractional digits.                              *)
(*                                                                         *)
(* Abstracted away: the 96-bit mantissa.  A decimal above 7.9 has fewer     *)
(* than 28 fractional digits in the crate, so that a large quotient, or a   *)
(* product of a price and a large quantity, is rounded once more, at its    *)
(* 28th or 29th significant digit; here quotients are rounded at 1 / SCALE  *)
(* whatever their size, and products with an integer are exact.  Nor does  *)
(* anything overflow here; the crate panics beyond 7.9 * 10^28 units.       *)
(***************************************************************************)
EXTENDS Integers

CONSTANT SCALE

ASSUME ScaleAssumption == SCALE \in Nat \ {0}

----------------------------------------------------------------------------

\* The integer nearest to n / d, ties to the even neighbour (the crate's rounding).
RoundHalfEven(n, d) ==
  LET q == n \div d
      r == n % d
  IN  IF 2 * r < d \/ (2 * r = d /\ q % 2 = 0) THEN q ELSE q + 1

\* Decimal::from(u64), Decimal::ONE, and the operators / and * between decimals.
Dec(n)       == n * SCALE
One          == SCALE
DecDiv(a, b) == RoundHalfEven(a * SCALE, b)
DecMul(a, b) == RoundHalfEven(a * b, SCALE)

\* Decimal::floor and Decimal::round (midpoints to even), as integers.
DecFloor(a) == a \div SCALE
DecRound(a) == RoundHalfEven(a, SCALE)

\* Decimal::min and Decimal::max; also Ord::min and Ord::max on integers.
Lesser(a, b)  == IF a <= b THEN a ELSE b
Greater(a, b) == IF a >= b THEN a ELSE b

=============================================================================
