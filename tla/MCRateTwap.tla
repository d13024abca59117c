------------------------------ MODULE MCRateTwap ----------------------------
(* Windows of one, two and three samples; samples in the same slot allowed, or not. *)
EXTENDS RateTwap

MCInitializeInputs ==
  {[min_slot_delta |-> delta, sampling_size |-> size] : delta \in 0 .. 2, size \in 0 .. 3}
=============================================================================
