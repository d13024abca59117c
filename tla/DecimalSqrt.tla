----------------------------- MODULE DecimalSqrt ----------------------------
(***************************************************************************)
(* MathematicalOps::sqrt of rust_decimal: Newton's iteration from half the   *)
(* number, every step rounded, until a step changes nothing.                 *)
(***************************************************************************)
EXTENDS Decimals

CONSTANT NewtonSteps  \* the steps before it gives up, almost 1000 in the crate

ASSUME NewtonStepsAssumption == NewtonSteps \in Nat

NewtonStep(d, r) == RoundHalfEven(r + DecDiv(d, r), 2)

NewtonStart(d) == IF RoundHalfEven(d, 2) = 0 THEN d ELSE RoundHalfEven(d, 2)

\* The last of the steps, of a positive decimal.
Newton(d) ==
  LET guess[n \in 0 .. NewtonSteps] ==
        IF n = 0 THEN NewtonStart(d) ELSE NewtonStep(d, guess[n - 1])
  IN  guess[NewtonSteps]

\* The root as an option: none of a negative number, nor when the steps do not settle; a
\* positive number divided by a guess of zero would fail.
DecSqrt(d) ==
  IF d < 0 THEN {}
  ELSE IF d = 0 THEN {0}
  ELSE {r \in {Newton(d)} : r \in Nat \ {0} /\ NewtonStep(d, r) = r}

\* Whether the iteration goes back and forth between two neighbours, r and r + 1, for ever:
\* the number is r (r + 3 / 2) units, with r even, so that the mean of either and of its
\* rounded quotient rounds to the other.
Oscillates(d) ==
  \E r \in 1 .. d + One : r % 2 = 0 /\ 2 * (d * SCALE) = r * (2 * r + 3)

=============================================================================
