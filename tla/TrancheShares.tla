---------------------------- MODULE TrancheShares ---------------------------
(***************************************************************************)
(* What vyper-core promises: a vault shared out between two tranches and the *)
(* fees, and tokens that are shares of a tranche, at its price.  Whoever      *)
(* enters gets the whole tokens that the payment buys; whoever leaves is paid *)
(* their value, less than one reserve token short of it.  A price changes    *)
(* only when the vault is shared out anew, and is then what the tranche holds *)
(* per token.  How it is shared out, who may do what and when is left open.   *)
(***************************************************************************)
EXTENDS Integers

CONSTANT SCALE     \* units of a price that make one reserve token

VARIABLES
  held,     \* reserve tokens of each tranche
  fees,
  vault,    \* reserve tokens there are: never less than both
  issued,   \* tokens of each tranche
  price     \* of each tranche's tokens

vars == <<held, fees, vault, issued, price>>

Tranches == {0, 1}

Total(quantity) == quantity[0] + quantity[1]

Init ==
  /\ held = [i \in Tranches |-> 0] /\ issued = [i \in Tranches |-> 0]
  /\ price = [i \in Tranches |-> SCALE]
  /\ fees = 0 /\ vault = 0

\* Not while a token of either tranche is worth nothing.  The quotient of payment and price
\* may have been rounded up to a whole token: the tokens are then worth more than the
\* payment, by at most half the price in the last digit of a decimal.
Enter ==
  /\ \A i \in Tranches :
       LET paid == held'[i] - held[i]
           new  == issued'[i] - issued[i]
       IN  /\ price[i] > 0 /\ paid >= 0 /\ new >= 0
           /\ SCALE * paid < (new + 1) * price[i]
           /\ 2 * SCALE * (new * price[i] - SCALE * paid) <= price[i]
  /\ vault' = vault + Total(held') - Total(held)
  /\ UNCHANGED <<price, fees>>

\* What is paid may be paid to the vault itself.
Leave ==
  /\ \A i \in Tranches :
       LET paid   == held[i] - held'[i]
           burned == issued[i] - issued'[i]
       IN  /\ burned >= 0
           /\ SCALE * paid <= burned * price[i] /\ burned * price[i] < SCALE * (paid + 1)
  /\ vault' \in {vault, vault - (Total(held) - Total(held'))}
  /\ UNCHANGED <<price, fees>>

\* What a price times the tokens differs from what the tranche holds is rounding.
ShareOut ==
  /\ Total(held') + fees' = Total(held) + fees
  /\ fees' >= fees
  /\ \A i \in Tranches :
       IF issued[i] = 0
       THEN price'[i] = price[i]
       ELSE 2 * (issued[i] * price'[i] - SCALE * held'[i]) \in -issued[i] .. issued[i]
  /\ UNCHANGED <<issued, vault>>

CollectFees ==
  /\ fees' = 0
  /\ vault' \in {vault, vault - fees}
  /\ UNCHANGED <<held, issued, price>>

Next == Enter \/ Leave \/ ShareOut \/ CollectFees

Spec == Init /\ [][Next]_vars

=============================================================================
