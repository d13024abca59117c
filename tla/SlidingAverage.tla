---------------------------- MODULE SlidingAverage --------------------------
(***************************************************************************)
(* What rate-twap promises: the samples it ever took are at least           *)
(* min_slot_delta slots apart, and its rate is the average of the last       *)
(* max_samples_size of them, to the nearest decimal, with the slot of the    *)
(* last one.  There is no buffer here, hence nothing to evict from it.       *)
(***************************************************************************)
EXTENDS Integers, SequencesExt

VARIABLES
  config,     \* [min_slot_delta, max_samples_size]
  recorded,   \* all samples taken since the beginning
  rate_state

vars == <<config, recorded, rate_state>>

Latest(samples) ==
  SubSeq(samples, Len(samples) - config.max_samples_size + 1, Len(samples))

\* The samples that count.
Window(samples) ==
  IF Len(samples) <= config.max_samples_size THEN samples ELSE Latest(samples)

IsAverage(value, samples) ==
  LET n   == Len(samples)
      sum == FoldLeft(LAMBDA acc, sample : acc + sample.value, 0, samples)
  IN  2 * (n * value - sum) \in -n .. n

Publishes(samples) ==
  /\ IsAverage(rate_state'.fair_value, Window(samples))
  /\ rate_state'.refreshed_slot = Last(samples).slot

Init ==
  /\ Len(recorded) = 1
  /\ rate_state = [fair_value |-> recorded[1].value, refreshed_slot |-> recorded[1].slot]

Record ==
  /\ Len(recorded') = Len(recorded) + 1
  /\ Front(recorded') = recorded
  /\ Last(recorded').slot - Last(recorded).slot >= config.min_slot_delta
  /\ Publishes(recorded')
  /\ UNCHANGED config

Spec == Init /\ [][Record]_vars

=============================================================================
