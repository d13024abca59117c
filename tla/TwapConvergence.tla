--------------------------- MODULE TwapConvergence --------------------------
(***************************************************************************)
(* Whether a time weighted rate ever reaches the rate it averages, that of a   *)
(* rate-mock account, as in rate-twap's tests.  Time runs on for ever; the     *)
(* program only compares slots with each other, so the slot stands still at    *)
(* MaxSlot and all that carries one grows older.                              *)
(***************************************************************************)
EXTENDS RateTwap

CONSTANTS
  Signers,
  authority   \* RateState::authority of the mock

ASSUME MockAssumption == authority \in Signers /\ One \in Values

\* A sample so old that its distance from the source no longer matters grows no older.
ASSUME DeltaAssumption ==
  InitSlot = MaxSlot /\ \A input \in InitializeInputs : input.min_slot_delta <= MaxSlot

Older(stamp) == Greater(-MaxSlot, stamp - 1)

\* A slot passes.  Bound: the source is never older than MaxSlot slots.
Pass ==
  /\ source.refreshed_slot > 0
  /\ source' = [source EXCEPT !.refreshed_slot = Older(@)]
  /\ sampling_data' = [sampling_data EXCEPT !.samples =
       [i \in DOMAIN @ |-> [@[i] EXCEPT !.slot = Older(@)]]]
  /\ rate_state' = [rate_state EXCEPT !.refreshed_slot = Older(@)]
  /\ UNCHANGED <<slot, recorded>>

\* The mock's initialize; the average is set up at once.
LiveInit == Init /\ source = [fair_value |-> One, refreshed_slot |-> slot]

\* The mock's set_fair_value: the first entry of its vector, with the current slot.
set_fair_value(signer, value) ==
  /\ signer = authority
  /\ SourcePublishes(value, slot)

\* The mock's refresh: anybody stamps the value, however old, with the current slot.
refresh_mock(signer) == SourcePublishes(source.fair_value, slot)

\* Somebody does.
Stamped == \E signer \in Signers : refresh_mock(signer)

\* The history of samples is left out here.
Sampled == refresh /\ UNCHANGED recorded

LiveNext ==
  \/ Pass
  \/ \E signer \in Signers, value \in Values : set_fair_value(signer, value)
  \/ Stamped
  \/ Sampled

\* Anybody may refresh the mock and the average, and somebody does: once a sample is far
\* enough it stays so until it is taken.  The authority need not act.
Fairness == WF_vars(Pass) /\ WF_vars(Stamped) /\ WF_vars(Sampled)

LiveSpec == LiveInit /\ [][LiveNext]_vars /\ Fairness

\* When the mock's value settles the average arrives there and stays: every sample of another
\* value leaves the window at last, whatever the window's size and spacing.
RateConverges ==
  \A value \in Values :
    <>[](source.fair_value = value) => <>[](rate_state.fair_value = value)

=============================================================================
