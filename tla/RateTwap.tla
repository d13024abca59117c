------------------------------ MODULE RateTwap ------------------------------
(***************************************************************************)
(* The rate-twap program: one rate state with its ring of samples, and the   *)
(* account of another rate program (the source) that it samples.  Anybody    *)
(* may refresh it.                                                           *)
(***************************************************************************)
EXTENDS Decimals, SequencesExt

CONSTANTS
  Values,             \* bound: the decimals a source publishes
  InitializeInputs,   \* bound: the InitializeInputs considered
  InitSlot, MaxSlot,  \* bound: the slots considered
  MaxRecorded         \* bound: samples taken in all

ASSUME ValuesAssumption == Values \subseteq Nat
ASSUME SlotsAssumption  == InitSlot \in Nat /\ MaxSlot \in Nat /\ InitSlot <= MaxSlot
ASSUME InputsAssumption ==
  \A input \in InitializeInputs : input.min_slot_delta \in Nat /\ input.sampling_size \in Nat

VARIABLES
  slot,           \* Clock::get()?.slot
  source,         \* the account of the source: [fair_value, refreshed_slot]
  sampling_data,  \* SamplingData
  rate_state,     \* RateState::fair_value and refreshed_slot
  recorded        \* history: every sample ever taken

vars == <<slot, source, sampling_data, rate_state, recorded>>

SampleRecord(fair_value, refreshed_slot) ==
  [value |-> fair_value, slot |-> refreshed_slot]

Samples == [value : Values, slot : 0 .. MaxSlot]

TypeOK ==
  /\ slot \in InitSlot .. MaxSlot
  /\ source \in [fair_value : Values, refreshed_slot : 0 .. slot]
  /\ sampling_data.max_samples_size > 0
  /\ sampling_data.samples \in Seq(Samples)
  /\ Len(sampling_data.samples) \in 1 .. sampling_data.max_samples_size
  /\ rate_state.fair_value \in Nat
  /\ rate_state.refreshed_slot \in 0 .. slot

----------------------------------------------------------------------------
(* SamplingData *)

\* The first of the samples with the lowest slot, and with the highest one.
get_oldest_sample_idx(samples) ==
  Min({i \in DOMAIN samples : \A j \in DOMAIN samples : samples[i].slot <= samples[j].slot})

get_most_recent_sample_idx(samples) ==
  Min({i \in DOMAIN samples : \A j \in DOMAIN samples : samples[i].slot >= samples[j].slot})

most_recent_slot(samples) == samples[get_most_recent_sample_idx(samples)].slot

\* Mutant: averages over the capacity, full or not.
AvgOverCapacity(samples) ==
  RoundHalfEven(FoldLeft(LAMBDA acc, sample : acc + sample.value, 0, samples),
                sampling_data.max_samples_size)

\* The sum of the decimals divided by their number.
avg(samples) ==
  RoundHalfEven(FoldLeft(LAMBDA acc, sample : acc + sample.value, 0, samples), Len(samples))

\* Mutant: lets the buffer grow.
NeverEvicted(data) == data.samples

\* Mutant: makes room at the wrong end.
LatestEvicted(data) ==
  IF Len(data.samples) = data.max_samples_size
  THEN RemoveAt(data.samples, get_most_recent_sample_idx(data.samples))
  ELSE data.samples

\* The samples with room for one more.
Evicted(data) ==
  IF Len(data.samples) = data.max_samples_size
  THEN RemoveAt(data.samples, get_oldest_sample_idx(data.samples))
  ELSE data.samples

\* Mutant: takes any sample that is not older than the most recent one.
NotOlder(data, sample_slot) == sample_slot >= most_recent_slot(data.samples)

\* Mutant: subtracts without a check, and the difference wraps to a huge number.
SpacedWrapping(data, sample_slot) ==
  sample_slot - most_recent_slot(data.samples) >= data.min_slot_delta
    \/ sample_slot < most_recent_slot(data.samples)

\* The new sample is far enough from the most recent one; an earlier slot is an underflow,
\* which panics.
FarEnough(data, sample_slot) ==
  LET delta == sample_slot - most_recent_slot(data.samples)
  IN  delta >= 0 /\ delta >= data.min_slot_delta

----------------------------------------------------------------------------
(* The instructions *)

\* What is to be read from the source.
Sample == SampleRecord(source.fair_value, source.refreshed_slot)

\* initialize::handler: the first sample is taken at once.
Init ==
  /\ slot = InitSlot
  /\ source \in [fair_value : Values, refreshed_slot : 0 .. InitSlot]
  /\ \E input \in InitializeInputs :
       /\ input.sampling_size > 0
       /\ sampling_data =
            [min_slot_delta |-> input.min_slot_delta,
             max_samples_size |-> input.sampling_size,
             samples |-> <<Sample>>]
  /\ rate_state = [fair_value |-> avg(sampling_data.samples),
                   refreshed_slot |-> most_recent_slot(sampling_data.samples)]
  /\ recorded = sampling_data.samples

\* refresh::handler: try_add and compute_twap.
refresh ==
  LET samples == Append(Evicted(sampling_data), Sample)
  IN
  /\ FarEnough(sampling_data, source.refreshed_slot)
  /\ sampling_data' = [sampling_data EXCEPT !.samples = samples]
  /\ rate_state' = [fair_value |-> avg(samples), refreshed_slot |-> most_recent_slot(samples)]
  /\ UNCHANGED <<slot, source>>

Refresh ==
  /\ Len(recorded) < MaxRecorded
  /\ refresh
  /\ recorded' = Append(recorded, Sample)

----------------------------------------------------------------------------
(* The environment: a source that is not checked at all, and time *)

\* Any program's account will do as a source; its slot may even go back.  That it is not in
\* the future is an assumption about the source, which the code does not check either: the
\* slots shown are those of samples, so that a future one would be shown too (and vyper-core
\* would fail on it, subtracting it from the present slot).
SourcePublishes(value, refreshed_slot) ==
  /\ source' = [fair_value |-> value, refreshed_slot |-> refreshed_slot]
  /\ UNCHANGED <<slot, sampling_data, rate_state, recorded>>

Tick ==
  /\ slot < MaxSlot
  /\ slot' = slot + 1
  /\ UNCHANGED <<source, sampling_data, rate_state, recorded>>

Next ==
  \/ Refresh
  \/ \E value \in Values, refreshed_slot \in 0 .. slot :
       SourcePublishes(value, refreshed_slot)
  \/ Tick

Spec == Init /\ [][Next]_vars

----------------------------------------------------------------------------
(* What the program promises *)

\* min_slot_delta keeps a burst of samples from filling the window ("this is useful to
\* avoid sampling burst"): a window of n samples spans at least n - 1 times that delta,
\* whatever has been evicted and whatever slots the source came up with.
NoSamplingBurst ==
  LET samples == sampling_data.samples
  IN  \A i, j \in DOMAIN samples : i < j =>
        samples[j].slot - samples[i].slot >= (j - i) * sampling_data.min_slot_delta

\* The published rate lies between the lowest and the highest sample of the window.
RateWithinSamples ==
  LET samples == sampling_data.samples
  IN  /\ \E i \in DOMAIN samples : samples[i].value <= rate_state.fair_value
      /\ \E i \in DOMAIN samples : samples[i].value >= rate_state.fair_value

Average == INSTANCE SlidingAverage WITH
  config <- [min_slot_delta   |-> sampling_data.min_slot_delta,
             max_samples_size |-> sampling_data.max_samples_size]

\* The buffer with its eviction is a sliding window: the rate is always the average of the
\* latest samples taken, and carries the slot of the last one.
ImplementsSlidingAverage == Average!Spec

Rate == INSTANCE RateProgram WITH FairValues <- Nat

\* Towards vyper-core the program behaves as a rate program must: however the slots of its
\* source jump about, its own never go back, and are never in the future as long as the
\* source's are not.
ImplementsRateProgram == Rate!Spec

=============================================================================
