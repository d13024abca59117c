----------------------------- MODULE RateProgram ----------------------------
(***************************************************************************)
(* What vyper-core assumes of a rate program, whose account it reads without *)
(* calling it: the slot written there is never in the future and never goes  *)
(* back.  Everything else about a rate, its value and its age, is free.       *)
(* VyperCore's PublishRate and Tick are this specification; each rate program *)
(* is shown to implement it.                                                 *)
(***************************************************************************)
EXTENDS Integers

CONSTANT FairValues   \* what a rate program can publish

VARIABLES slot, rate_state

vars == <<slot, rate_state>>

Init ==
  /\ slot \in Nat
  /\ rate_state \in [fair_value : FairValues, refreshed_slot : 0 .. slot]

PublishRate ==
  /\ rate_state' \in [fair_value : FairValues,
                      refreshed_slot : rate_state.refreshed_slot .. slot]
  /\ UNCHANGED slot

Tick == slot' = slot + 1 /\ UNCHANGED rate_state

Next == PublishRate \/ Tick

Spec == Init /\ [][Next]_vars

=============================================================================
