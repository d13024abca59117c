-------------------------- MODULE MCTwapConvergence -------------------------
(* Windows of one to three samples; samples in the same slot allowed, or not; two signers, *)
(* one of them the mock's authority.                                                      *)
EXTENDS TwapConvergence

MCValues == {0, 7, One}
MCInitializeInputs ==
  {[min_slot_delta |-> delta, sampling_size |-> size] : delta \in 0 .. 2, size \in 1 .. 3}
=============================================================================
