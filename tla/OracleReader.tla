----------------------------- MODULE OracleReader ---------------------------
(***************************************************************************)
(* What a rate program that reads oracle accounts promises: its account      *)
(* shows what ALL the oracles showed at one moment, each in its place, and    *)
(* the slot of that moment.  (An account just initialized may carry an        *)
(* earlier slot.)  While one oracle has nothing to show the account stays as   *)
(* it is.  Rate-switchboard, rate-pyth and rate-poolv2 implement it; so does   *)
(* the oracle that Market trades on.                                        *)
(***************************************************************************)
EXTENDS Integers

CONSTANTS
  FairValues,   \* vectors of decimals
  Unavailable   \* what oracles show together when one of them has no value

VARIABLES slot, showing, rate_state

vars == <<slot, showing, rate_state>>

Init ==
  /\ slot \in Nat
  /\ showing \in FairValues
  /\ rate_state \in [fair_value : {showing}, refreshed_slot : 0 .. slot]

Publish ==
  /\ showing # Unavailable
  /\ rate_state' = [fair_value |-> showing, refreshed_slot |-> slot]
  /\ UNCHANGED <<slot, showing>>

\* The oracles move on by themselves.
Show == showing' \in FairValues \union {Unavailable} /\ UNCHANGED <<slot, rate_state>>

Tick == slot' = slot + 1 /\ UNCHANGED <<showing, rate_state>>

Next == Publish \/ Show \/ Tick

Spec == Init /\ [][Next]_vars

=============================================================================
