--------------------------- MODULE RateTwap_proofs --------------------------
(***************************************************************************)
(* rate-twap, for windows of any size and spacing and a source with any      *)
(* values and slots: its buffer is the end of what it ever sampled, its rate *)
(* the average of that, and it implements both abstract specifications.      *)
(* About the sum of the samples, a fold, everything is proved by induction    *)
(* over its length, in the form of SetInduction.                              *)
(***************************************************************************)
EXTENDS RateTwap, DecimalTheorems, SequenceTheorems

samples == sampling_data.samples

\* Distances in a window, from one sample to any later one.
Spaced(window, delta) ==
  \A i, j \in 1 .. Len(window) : i < j => window[j].slot - window[i].slot >= (j - i) * delta

\* The window is the end of what was recorded.
EndOf(window, all) ==
  /\ Len(window) <= Len(all)
  /\ \A i \in 1 .. Len(window) : window[i] = all[Len(all) - Len(window) + i]

Buffer ==
  /\ slot \in InitSlot .. MaxSlot
  /\ source \in [fair_value : Values, refreshed_slot : 0 .. slot]
  /\ sampling_data \in
       [min_slot_delta : Nat, max_samples_size : Nat \ {0}, samples : Seq(Samples)]
  /\ recorded \in Seq(Samples)
  /\ Len(samples) >= 1
  /\ Len(samples) = Lesser(Len(recorded), sampling_data.max_samples_size)
  /\ Spaced(samples, sampling_data.min_slot_delta)
  /\ EndOf(samples, recorded)
  /\ samples[Len(samples)].slot <= slot
  /\ rate_state.refreshed_slot = samples[Len(samples)].slot

----------------------------------------------------------------------------
(* The fold in avg *)

LEMMA GreatestOfSegment ==
  ASSUME NEW k \in Nat, NEW S \in SUBSET (1 .. k + 1), k + 1 \in S
  PROVE  Max(S) = k + 1
<1>1. \A y \in S : y \in Int /\ k + 1 >= y
  OBVIOUS
<1>2. \A x \in S : (\A y \in S : x >= y) => x = k + 1
  BY <1>1
<1>3. QED
  BY <1>1, <1>2 DEF Max

\* g adds up the values of `all` at any set of positions up to k, from the lowest on: the
\* equation the fold is defined by.
AddsUp(g, all, k) ==
  g = [S \in SUBSET (1 .. k) |->
         IF S = {} THEN 0 ELSE g[S \ {Max(S)}] + all[Max(S)].value]

\* There is such a function.
LEMMA SumExists ==
  ASSUME NEW all, NEW n \in Nat
  PROVE  \E g : AddsUp(g, all, n)
<1> DEFINE lengths == {k \in Nat : \E g : AddsUp(g, all, k)}
<1>1. 0 \in lengths
  <2> DEFINE g == [S \in SUBSET (1 .. 0) |-> 0]
  <2>1. \A S \in SUBSET (1 .. 0) : S = {}
    OBVIOUS
  <2>2. AddsUp(g, all, 0)
    BY <2>1 DEF AddsUp
  <2> HIDE DEF g
  <2>3. QED
    BY <2>2
<1>2. ASSUME NEW k \in Nat, k \in lengths PROVE k + 1 \in lengths
  <2>1. PICK g : AddsUp(g, all, k)
    BY <1>2
  <2> DEFINE h == [S \in SUBSET (1 .. k + 1) |->
                     IF k + 1 \in S THEN g[S \ {k + 1}] + all[k + 1].value ELSE g[S]]
  <2>2. ASSUME NEW S \in SUBSET (1 .. k + 1)
        PROVE  h[S] = IF S = {} THEN 0 ELSE h[S \ {Max(S)}] + all[Max(S)].value
    <3>1. CASE k + 1 \in S
      <4>1. Max(S) = k + 1
        BY <3>1, GreatestOfSegment
      <4>2. S \ {k + 1} \in SUBSET (1 .. k + 1) /\ k + 1 \notin S \ {k + 1}
        OBVIOUS
      <4>3. h[S \ {k + 1}] = g[S \ {k + 1}]
        BY <4>2
      <4>4. QED
        BY <3>1, <4>1, <4>3
    <3>2. CASE k + 1 \notin S
      <4>1. S \in SUBSET (1 .. k)
        BY <3>2
      <4>2. g[S] = IF S = {} THEN 0 ELSE g[S \ {Max(S)}] + all[Max(S)].value
        BY <2>1, <4>1, Zenon DEF AddsUp
      <4>3. S \ {Max(S)} \in SUBSET (1 .. k + 1) /\ k + 1 \notin S \ {Max(S)}
        BY <3>2
      <4>4. h[S \ {Max(S)}] = g[S \ {Max(S)}] /\ h[S] = g[S]
        BY <3>2, <4>3
      <4>5. QED
        BY <4>2, <4>4
    <3>3. QED
      BY <3>1, <3>2
  <2>3. AddsUp(h, all, k + 1)
    <3>1. h = [S \in SUBSET (1 .. k + 1) |-> h[S]]
      OBVIOUS
    <3> HIDE DEF h
    <3>2. [S \in SUBSET (1 .. k + 1) |-> h[S]] =
          [S \in SUBSET (1 .. k + 1) |->
             IF S = {} THEN 0 ELSE h[S \ {Max(S)}] + all[Max(S)].value]
      BY <2>2, Zenon
    <3>3. QED
      BY <3>1, <3>2, Zenon DEF AddsUp
  <2> HIDE DEF h
  <2>4. QED
    BY <2>3
<1>3. Nat \subseteq lengths
  <2> HIDE DEF lengths
  <2> QED
    BY <1>1, <1>2, SetInduction
<1>4. QED
  BY <1>3

SampleSum(all) == FoldLeft(LAMBDA acc, sample : acc + sample.value, 0, all)

\* The sum of the first k samples, for every k.
Sums(all) ==
  LET g == CHOOSE g : AddsUp(g, all, Len(all))
  IN  [k \in 0 .. Len(all) |-> g[1 .. k]]

LEMMA SumsFact ==
  ASSUME NEW all, Len(all) \in Nat, DOMAIN all = 1 .. Len(all)
  PROVE  /\ SampleSum(all) = Sums(all)[Len(all)]
         /\ Sums(all)[0] = 0
         /\ \A k \in 0 .. Len(all) - 1 : Sums(all)[k + 1] = Sums(all)[k] + all[k + 1].value
<1> DEFINE n == Len(all)
           g == CHOOSE g : AddsUp(g, all, n)
<1>1. AddsUp(g, all, n)
  BY SumExists
<1>2. SampleSum(all) = g[1 .. n]
  BY Zenon DEF SampleSum, FoldLeft, MapThenFoldSet, AddsUp
<1>3. Sums(all) = [k \in 0 .. n |-> g[1 .. k]]
  BY DEF Sums
<1> HIDE DEF g, n
<1>4. \A S \in SUBSET (1 .. n) : g[S] = IF S = {} THEN 0
                                      ELSE g[S \ {Max(S)}] + all[Max(S)].value
  BY <1>1, Zenon DEF AddsUp
<1>5. g[1 .. 0] = 0
  <2>1. 1 .. 0 = {} /\ {} \in SUBSET (1 .. n)
    OBVIOUS
  <2>2. QED
    BY <1>4, <2>1, Zenon
<1>6. ASSUME NEW k \in 0 .. n - 1 PROVE g[1 .. k + 1] = g[1 .. k] + all[k + 1].value
  <2>1. k \in Nat /\ n \in Nat /\ 1 .. k + 1 \in SUBSET (1 .. n) /\ k + 1 \in 1 .. k + 1
    BY DEF n
  <2>2. Max(1 .. k + 1) = k + 1
    BY <2>1, GreatestOfSegment
  <2>3. (1 .. k + 1) \ {k + 1} = 1 .. k
    BY <2>1
  <2>4. QED
    BY <1>4, <2>1, <2>2, <2>3
<1>7. QED
  BY <1>2, <1>3, <1>5, <1>6 DEF n

\* A sum of values is a natural number, and at least, or at most, as many times whatever
\* bounds the values from below, or from above.
LEMMA SumBounds ==
  ASSUME NEW all \in Seq(Samples), NEW low \in Nat, NEW high \in Nat
  PROVE  /\ SampleSum(all) \in Nat
         /\ (\A i \in 1 .. Len(all) : low <= all[i].value) => Len(all) * low <= SampleSum(all)
         /\ (\A i \in 1 .. Len(all) : all[i].value <= high)
              => SampleSum(all) <= Len(all) * high
<1> DEFINE n == Len(all)
           above == \A i \in 1 .. n : low <= all[i].value
           below == \A i \in 1 .. n : all[i].value <= high
           Bounded(k) == /\ Sums(all)[k] \in Nat
                         /\ above => k * low <= Sums(all)[k]
                         /\ below => Sums(all)[k] <= k * high
           good == {k \in Nat : k <= n => Bounded(k)}
<1>1. n \in Nat /\ DOMAIN all = 1 .. n /\ \A i \in 1 .. n : all[i].value \in Nat
  <2>1. n \in Nat /\ DOMAIN all = 1 .. n /\ all \in [1 .. n -> Samples]
    BY LenProperties
  <2>2. QED
    BY <2>1, ValuesAssumption DEF Samples
<1>2. /\ SampleSum(all) = Sums(all)[n]
      /\ Sums(all)[0] = 0
      /\ \A k \in 0 .. n - 1 : Sums(all)[k + 1] = Sums(all)[k] + all[k + 1].value
  BY <1>1, SumsFact
<1>3. 0 \in good
  BY <1>2
<1>4. ASSUME NEW k \in Nat, k \in good PROVE k + 1 \in good
  <2> SUFFICES ASSUME k + 1 <= n PROVE Bounded(k + 1)
    OBVIOUS
  <2>1. Bounded(k) /\ k \in 0 .. n - 1 /\ k + 1 \in 1 .. n
    BY <1>1, <1>4
  <2>2. Sums(all)[k + 1] = Sums(all)[k] + all[k + 1].value
    BY <1>2, <2>1
  <2>3. /\ all[k + 1].value \in Nat
        /\ above => low <= all[k + 1].value
        /\ below => all[k + 1].value <= high
    BY <1>1, <2>1
  <2>4. (k + 1) * low = k * low + low /\ (k + 1) * high = k * high + high
    OBVIOUS
  <2>5. k * low \in Nat /\ k * high \in Nat
    OBVIOUS
  <2> HIDE DEF above, below
  <2>6. QED
    BY <2>1, <2>2, <2>3, <2>4, <2>5
<1>5. Nat \subseteq good
  <2> HIDE DEF good
  <2> QED
    BY <1>3, <1>4, SetInduction
<1>6. QED
  BY <1>1, <1>2, <1>5

\* The average of a window that is not empty is the natural number nearest to the quotient,
\* and not all the values lie on one side of it.
LEMMA AverageFact ==
  ASSUME NEW window \in Seq(Samples), Len(window) >= 1
  PROVE  /\ avg(window) \in Nat
         /\ 2 * (Len(window) * avg(window) - SampleSum(window)) \in -Len(window) .. Len(window)
         /\ \E i \in 1 .. Len(window) : window[i].value <= avg(window)
         /\ \E i \in 1 .. Len(window) : window[i].value >= avg(window)
<1> DEFINE n == Len(window)
           a == avg(window)
           sum == SampleSum(window)
<1>1. n \in Nat \ {0} /\ \A i \in 1 .. n : window[i].value \in Nat
  <2>1. n \in Nat /\ n >= 1 /\ window \in [1 .. n -> Samples]
    BY LenProperties
  <2> HIDE DEF n
  <2>2. \A i \in 1 .. n : window[i].value \in Nat
    BY <2>1, ValuesAssumption DEF Samples
  <2>3. QED
    BY <2>1, <2>2
<1>2. a = RoundHalfEven(sum, n)
  BY DEF avg, SampleSum
<1>3. sum \in Nat
  BY SumBounds
<1>4. a \in Nat /\ 2 * (n * a - sum) <= n /\ 2 * (sum - n * a) <= n
  <2> HIDE DEF a, n, sum
  <2>1. n \in Nat \ {0} /\ sum \in Nat /\ sum \in Int
    BY <1>1, <1>3
  <2>2. /\ RoundHalfEven(sum, n) \in Nat
        /\ 2 * (n * RoundHalfEven(sum, n) - sum) <= n
        /\ 2 * (sum - n * RoundHalfEven(sum, n)) <= n
    BY <2>1, RoundingError, RoundingIsNat, Zenon
  <2>3. QED
    BY <1>2, <2>2, Zenon
<1>5. n * a \in Nat /\ n * (a + 1) = n * a + n /\ n * (a - 1) = n * a - n
  <2> HIDE DEF a, n
  <2> QED
    BY <1>1, <1>4
<1>6. ASSUME \A i \in 1 .. n : a + 1 <= window[i].value PROVE FALSE
  <2>1. n * (a + 1) <= sum
    <3>1. a + 1 \in Nat
      BY <1>4
    <3> HIDE DEF a
    <3>2. QED
      BY <1>6, <3>1, SumBounds
  <2> HIDE DEF a, n, sum
  <2>2. QED
    BY <1>1, <1>3, <1>4, <1>5, <2>1
<1>7. ASSUME \A i \in 1 .. n : window[i].value <= a - 1 PROVE FALSE
  <2>1. a - 1 \in Nat
    BY <1>1, <1>4, <1>7
  <2>2. sum <= n * (a - 1)
    <3> HIDE DEF a
    <3> QED
      BY <1>7, <2>1, SumBounds
  <2> HIDE DEF a, n, sum
  <2>3. QED
    BY <1>1, <1>3, <1>4, <1>5, <2>2
<1> HIDE DEF a, n, sum
<1>8. \E i \in 1 .. n : window[i].value <= a
  BY <1>1, <1>4, <1>6
<1>9. \E i \in 1 .. n : window[i].value >= a
  BY <1>1, <1>4, <1>7
<1>10. 2 * (n * a - sum) \in -n .. n
  BY <1>1, <1>3, <1>4, <1>5
<1>11. QED
  BY <1>4, <1>8, <1>9, <1>10 DEF a, n, sum

LEMMA AverageOfOne ==
  ASSUME NEW window \in Seq(Samples), Len(window) = 1
  PROVE  avg(window) = window[1].value
<1>1. /\ avg(window) \in Nat
      /\ \E i \in 1 .. 1 : window[i].value <= avg(window)
      /\ \E i \in 1 .. 1 : window[i].value >= avg(window)
  <2>1. Len(window) >= 1
    OBVIOUS
  <2>2. QED
    BY <2>1, AverageFact
<1>2. window[1].value \in Nat
  <2>1. window \in [1 .. 1 -> Samples]
    BY LenProperties
  <2>2. window[1] \in Samples
    BY <2>1
  <2>3. QED
    BY <2>2, ValuesAssumption DEF Samples
<1>3. QED
  BY <1>1, <1>2

\* The abstract specification asks for the same sum.
LEMMA AbstractAverage ==
  ASSUME NEW window, NEW value,
         2 * (Len(window) * value - SampleSum(window)) \in -Len(window) .. Len(window)
  PROVE  Average!IsAverage(value, window)
BY Zenon DEF Average!IsAverage, Average!FoldLeft, Average!MapThenFoldSet, SampleSum, FoldLeft,
             MapThenFoldSet, Average!Max, Max

----------------------------------------------------------------------------
(* Sequences of samples that are in order *)

LEMMA LenIsNat ==
  ASSUME NEW window \in Seq(Samples)
  PROVE  /\ Len(window) \in Nat
         /\ DOMAIN window = 1 .. Len(window)
         /\ \A i \in 1 .. Len(window) : window[i] \in Samples /\ window[i].slot \in Nat
<1>1. Len(window) \in Nat /\ DOMAIN window = 1 .. Len(window)
        /\ window \in [1 .. Len(window) -> Samples]
  BY LenProperties
<1>2. QED
  BY <1>1, SlotsAssumption DEF Samples

LEMMA SpacedIsOrdered ==
  ASSUME NEW window \in Seq(Samples), NEW delta \in Nat, Spaced(window, delta)
  PROVE  \A i, j \in 1 .. Len(window) : i <= j => window[i].slot <= window[j].slot
<1> SUFFICES ASSUME NEW i \in 1 .. Len(window), NEW j \in 1 .. Len(window), i < j
             PROVE  window[i].slot <= window[j].slot
  BY LenIsNat
<1>1. window[j].slot - window[i].slot >= (j - i) * delta
  BY DEF Spaced
<1>2. (j - i) * delta >= 0
  <2>1. j - i \in Nat
    BY LenIsNat
  <2>2. QED
    BY <2>1
<1>3. (j - i) * delta \in Int /\ window[i].slot \in Nat /\ window[j].slot \in Nat
  BY LenIsNat
<1>4. QED
  <2> DEFINE product == (j - i) * delta
  <2> HIDE DEF product
  <2> QED
    BY <1>1, <1>2, <1>3 DEF product

LEMMA MostRecentIsLast ==
  ASSUME NEW window \in Seq(Samples), NEW delta \in Nat, Spaced(window, delta),
         Len(window) >= 1
  PROVE  most_recent_slot(window) = window[Len(window)].slot
<1> DEFINE highest == {i \in DOMAIN window :
                         \A j \in DOMAIN window : window[i].slot >= window[j].slot}
           n == Len(window)
<1>1. n \in Nat /\ DOMAIN window = 1 .. n
  BY LenIsNat
<1>2. n \in highest
  BY <1>1, SpacedIsOrdered, LenIsNat
<1>3. highest \in SUBSET Nat
  BY <1>1
<1>4. Min(highest) \in highest
  <2> HIDE DEF highest
  <2> QED
    BY <1>2, <1>3, LeastNatural DEF Min
<1>5. window[Min(highest)].slot = window[n].slot
  BY <1>1, <1>2, <1>4, LenIsNat
<1>6. QED
  BY <1>5 DEF most_recent_slot, get_most_recent_sample_idx

LEMMA OldestIsFirst ==
  ASSUME NEW window \in Seq(Samples), NEW delta \in Nat, Spaced(window, delta),
         Len(window) >= 1
  PROVE  get_oldest_sample_idx(window) = 1
<1> DEFINE lowest == {i \in DOMAIN window :
                        \A j \in DOMAIN window : window[i].slot <= window[j].slot}
<1>1. Len(window) \in Nat /\ DOMAIN window = 1 .. Len(window)
  BY LenIsNat
<1>2. 1 \in lowest
  BY <1>1, SpacedIsOrdered
<1>3. \A i \in lowest : i \in Nat /\ 1 <= i
  BY <1>1
<1>4. Min(lowest) = 1
  <2> HIDE DEF lowest
  <2> QED
    BY <1>2, <1>3 DEF Min
<1>5. QED
  BY <1>4 DEF get_oldest_sample_idx

\* Without its first element.
LEMMA DropFirst ==
  ASSUME NEW window \in Seq(Samples), Len(window) >= 1
  PROVE  /\ RemoveAt(window, 1) \in Seq(Samples)
         /\ Len(RemoveAt(window, 1)) = Len(window) - 1
         /\ \A i \in 1 .. Len(window) - 1 : RemoveAt(window, 1)[i] = window[i + 1]
<1> DEFINE rest == SubSeq(window, 2, Len(window))
<1>1. Len(window) \in Nat /\ \A i \in 2 .. Len(window) : window[i] \in Samples
  BY LenIsNat
<1>2. /\ rest \in Seq(Samples)
      /\ Len(rest) = IF 2 <= Len(window) THEN Len(window) - 2 + 1 ELSE 0
      /\ \A i \in 1 .. Len(window) - 2 + 1 : rest[i] = window[2 + i - 1]
  BY <1>1, SubSeqProperties
<1>3. RemoveAt(window, 1) = << >> \o rest
  <2>1. SubSeq(window, 1, 1 - 1) = << >>
    BY SubSeqEmpty
  <2>2. QED
    BY <2>1 DEF RemoveAt
<1>4. RemoveAt(window, 1) = rest
  BY <1>2, <1>3, ConcatEmptySeq
<1> HIDE DEF rest
<1>5. QED
  BY <1>1, <1>2, <1>4

\* Without the last element.
LEMMA DropLast ==
  ASSUME NEW window \in Seq(Samples), NEW sample \in Samples
  PROVE  SubSeq(Append(window, sample), 1, Len(window)) = window
<1> DEFINE longer == Append(window, sample)
           m == Len(window)
           front == SubSeq(longer, 1, m)
<1>1. m \in Nat /\ \A i \in 1 .. m : window[i] \in Samples
  BY LenIsNat
<1>2. \A i \in 1 .. m : longer[i] = window[i] /\ longer[i] \in Samples
  BY <1>1, AppendProperties
<1>3. /\ front \in Seq(Samples)
      /\ Len(front) = IF 1 <= m THEN m - 1 + 1 ELSE 0
      /\ \A i \in 1 .. m - 1 + 1 : front[i] = longer[1 + i - 1]
  <2> HIDE DEF longer, m
  <2> QED
    BY <1>1, <1>2, SubSeqProperties
<1>4. Len(front) = m /\ \A i \in 1 .. m : front[i] = window[i]
  <2> HIDE DEF longer, m, front
  <2> QED
    BY <1>1, <1>2, <1>3
<1>5. QED
  <2> HIDE DEF front
  <2> QED
    BY <1>3, <1>4, SeqEqual

----------------------------------------------------------------------------
(* One more sample *)

\* Appending to a window in order a sample that is far enough.
LEMMA AppendKeepsSpaced ==
  ASSUME NEW window \in Seq(Samples), NEW delta \in Nat, Spaced(window, delta),
         NEW sample \in Samples,
         Len(window) >= 1 => sample.slot - window[Len(window)].slot >= delta
  PROVE  Spaced(Append(window, sample), delta)
<1> DEFINE n == Len(window)
           longer == Append(window, sample)
<1>1. /\ n \in Nat
      /\ Len(longer) = n + 1
      /\ \A i \in 1 .. n : longer[i] = window[i] /\ window[i].slot \in Nat
      /\ longer[n + 1] = sample
      /\ sample.slot \in Nat
  <2>1. sample.slot \in Nat
    BY SlotsAssumption DEF Samples
  <2>2. n \in Nat /\ \A i \in 1 .. n : window[i].slot \in Nat
    BY LenIsNat
  <2>3. /\ Len(longer) = n + 1
        /\ \A i \in 1 .. n : longer[i] = window[i]
        /\ longer[n + 1] = sample
    BY AppendProperties
  <2>4. QED
    BY <2>1, <2>2, <2>3
<1> HIDE DEF n, longer
<1> SUFFICES ASSUME NEW i \in 1 .. n + 1, NEW j \in 1 .. n + 1, i < j
             PROVE  longer[j].slot - longer[i].slot >= (j - i) * delta
  BY <1>1 DEF Spaced, longer
<1>2. CASE j <= n
  <2>1. i \in 1 .. n /\ j \in 1 .. n
    BY <1>1, <1>2
  <2>2. window[j].slot - window[i].slot >= (j - i) * delta
    BY <2>1 DEF Spaced, n
  <2>3. QED
    BY <1>1, <2>1, <2>2
<1>3. CASE j = n + 1 /\ i = n
  <2>1. (j - i) * delta = delta
    BY <1>1, <1>3
  <2>2. QED
    BY <1>1, <1>3, <2>1 DEF n
<1>4. CASE j = n + 1 /\ i < n
  <2>1. window[n].slot - window[i].slot >= (n - i) * delta
    BY <1>1, <1>4 DEF Spaced, n
  <2>2. sample.slot - window[n].slot >= delta
    BY <1>1, <1>4 DEF n
  <2>3. (j - i) * delta = (n - i) * delta + delta
    BY <1>1, <1>4
  <2>4. (n - i) * delta \in Int
    BY <1>1
  <2>5. QED
    BY <1>1, <1>4, <2>1, <2>2, <2>3, <2>4
<1>5. QED
  BY <1>1, <1>2, <1>3, <1>4

LEMMA DropFirstKeepsSpaced ==
  ASSUME NEW window \in Seq(Samples), NEW delta \in Nat, Spaced(window, delta),
         Len(window) >= 1
  PROVE  Spaced(RemoveAt(window, 1), delta)
<1> DEFINE shorter == RemoveAt(window, 1)
<1>1. Len(window) \in Nat
  BY LenIsNat
<1>2. /\ Len(shorter) = Len(window) - 1
      /\ \A i \in 1 .. Len(window) - 1 : shorter[i] = window[i + 1]
  BY DropFirst
<1> HIDE DEF shorter
<1> SUFFICES ASSUME NEW i \in 1 .. Len(window) - 1, NEW j \in 1 .. Len(window) - 1, i < j
             PROVE  shorter[j].slot - shorter[i].slot >= (j - i) * delta
  BY <1>2 DEF Spaced, shorter
<1>3. i + 1 \in 1 .. Len(window) /\ j + 1 \in 1 .. Len(window) /\ i + 1 < j + 1
  BY <1>1
<1>4. window[j + 1].slot - window[i + 1].slot >= ((j + 1) - (i + 1)) * delta
  BY <1>3 DEF Spaced
<1>5. (j + 1) - (i + 1) = j - i
  BY <1>1
<1>6. QED
  BY <1>2, <1>4, <1>5

----------------------------------------------------------------------------
(* The buffer *)

LEMMA SampleIsTyped ==
  ASSUME Buffer
  PROVE  Sample \in Samples /\ Sample.slot = source.refreshed_slot /\ Sample.slot <= slot
BY SlotsAssumption DEF Buffer, Sample, SampleRecord, Samples

LEMMA InitBuffer == Init => Buffer
<1> SUFFICES ASSUME Init PROVE Buffer
  OBVIOUS
<1>1. slot \in InitSlot .. MaxSlot /\ slot \in Nat
  BY SlotsAssumption DEF Init
<1>2. source \in [fair_value : Values, refreshed_slot : 0 .. slot]
  BY DEF Init
<1>3. Sample \in Samples /\ Sample.slot <= slot
  BY <1>1, <1>2, SlotsAssumption DEF Sample, SampleRecord, Samples
<1>4. PICK input \in InitializeInputs :
        /\ input.sampling_size > 0
        /\ sampling_data = [min_slot_delta   |-> input.min_slot_delta,
                            max_samples_size |-> input.sampling_size,
                            samples          |-> <<Sample>>]
  BY DEF Init
<1>5. input.min_slot_delta \in Nat /\ input.sampling_size \in Nat \ {0}
  BY <1>4, InputsAssumption
<1>6. samples = <<Sample>> /\ recorded = <<Sample>> /\ samples \in Seq(Samples)
  BY <1>3, <1>4 DEF samples, Init
<1>7. Len(samples) = 1 /\ samples[1] = Sample
  BY <1>6
<1>8. Spaced(samples, sampling_data.min_slot_delta)
  BY <1>7 DEF Spaced
<1>9. EndOf(samples, recorded)
  BY <1>6, <1>7 DEF EndOf
<1>10. rate_state.refreshed_slot = samples[Len(samples)].slot
  <2>1. rate_state.refreshed_slot = most_recent_slot(samples)
    <3>1. rate_state = [fair_value     |-> avg(sampling_data.samples),
                        refreshed_slot |-> most_recent_slot(sampling_data.samples)]
      BY DEF Init
    <3>2. QED
      BY <3>1 DEF samples
  <2>2. sampling_data.min_slot_delta \in Nat
    BY <1>4, <1>5
  <2>3. samples \in Seq(Samples) /\ Len(samples) >= 1
    BY <1>6, <1>7
  <2>4. most_recent_slot(samples) = samples[Len(samples)].slot
    BY <1>8, <2>2, <2>3, MostRecentIsLast
  <2>5. QED
    BY <2>1, <2>4
<1>11. Len(samples) = Lesser(Len(recorded), sampling_data.max_samples_size)
  BY <1>4, <1>5, <1>6, <1>7 DEF Lesser
<1>12. QED
  BY <1>1, <1>2, <1>3, <1>4, <1>5, <1>6, <1>7, <1>8, <1>9, <1>10, <1>11 DEF Buffer

\* What try_add makes room in: the samples, but for the first one of a full buffer.
LEMMA EvictedIsEnd ==
  ASSUME Buffer
  PROVE  LET room == Evicted(sampling_data)
         IN  /\ room \in Seq(Samples)
             /\ Len(room) = IF Len(samples) = sampling_data.max_samples_size
                            THEN Len(samples) - 1 ELSE Len(samples)
             /\ Spaced(room, sampling_data.min_slot_delta)
             /\ EndOf(room, recorded)
             /\ Len(room) >= 1 => room[Len(room)] = samples[Len(samples)]
<1> DEFINE room == Evicted(sampling_data)
           n == Len(samples)
           m == Len(recorded)
<1>1. samples \in Seq(Samples) /\ sampling_data.min_slot_delta \in Nat /\ n >= 1
  BY DEF Buffer, samples
<1>2. n \in Nat /\ m \in Nat
  BY <1>1, LenIsNat DEF Buffer
<1>3. CASE n # sampling_data.max_samples_size
  <2>1. room = samples
    BY <1>3 DEF Evicted, samples
  <2>2. QED
    BY <1>1, <1>3, <2>1 DEF Buffer
<1>4. CASE n = sampling_data.max_samples_size
  <2>1. room = RemoveAt(samples, 1)
    BY <1>1, <1>4, OldestIsFirst DEF Buffer, Evicted, samples
  <2>2. /\ room \in Seq(Samples)
        /\ Len(room) = n - 1
        /\ \A i \in 1 .. n - 1 : room[i] = samples[i + 1]
    BY <1>1, <2>1, DropFirst
  <2>3. Spaced(room, sampling_data.min_slot_delta)
    BY <1>1, <2>1, DropFirstKeepsSpaced DEF Buffer
  <2> HIDE DEF room, n, m
  <2>4. EndOf(room, recorded)
    <3>1. n <= m /\ \A i \in 1 .. n : samples[i] = recorded[m - n + i]
      BY DEF Buffer, EndOf, n, m
    <3>2. \A i \in 1 .. n - 1 : m - n + (i + 1) = m - (n - 1) + i /\ i + 1 \in 1 .. n
      BY <1>2
    <3>3. \A i \in 1 .. n - 1 : room[i] = recorded[m - (n - 1) + i]
      BY <2>2, <3>1, <3>2
    <3>4. QED
      BY <1>2, <2>2, <3>1, <3>3 DEF EndOf, m
  <2>5. QED
    BY <1>1, <1>2, <1>4, <2>2, <2>3, <2>4 DEF room, n
<1>5. QED
  BY <1>3, <1>4

\* What refresh adds comes last.
LEMMA RefreshAppends ==
  ASSUME Buffer, Refresh
  PROVE  samples'[Len(samples')] = Sample
<1> DEFINE room   == Evicted(sampling_data)
           longer == Append(room, Sample)
<1>1. room \in Seq(Samples) /\ Sample \in Samples
  BY EvictedIsEnd, SampleIsTyped
<1>2. Len(longer) = Len(room) + 1 /\ longer[Len(room) + 1] = Sample
  <2> HIDE DEF room
  <2> QED
    BY <1>1, AppendProperties
<1>3. samples' = longer
  <2>1. sampling_data' = [sampling_data EXCEPT !.samples = longer]
    BY DEF Refresh, refresh
  <2>2. QED
    BY <2>1 DEF samples, Buffer
<1> HIDE DEF longer
<1>4. QED
  BY <1>2, <1>3

LEMMA RefreshKeepsBuffer ==
  ASSUME Buffer, Refresh
  PROVE  Buffer'
<1> DEFINE room   == Evicted(sampling_data)
           delta  == sampling_data.min_slot_delta
           n      == Len(room)
           longer == Append(room, Sample)
<1>1. Sample \in Samples /\ Sample.slot = source.refreshed_slot /\ Sample.slot <= slot
  BY SampleIsTyped
<1>2. /\ room \in Seq(Samples)
      /\ n = IF Len(samples) = sampling_data.max_samples_size
             THEN Len(samples) - 1 ELSE Len(samples)
      /\ Spaced(room, delta)
      /\ EndOf(room, recorded)
      /\ n >= 1 => room[n] = samples[Len(samples)]
  BY EvictedIsEnd
<1>3. /\ samples \in Seq(Samples) /\ Len(samples) \in Nat /\ n \in Nat
      /\ recorded \in Seq(Samples) /\ Len(recorded) \in Nat
      /\ delta \in Nat
      /\ sampling_data.max_samples_size \in Nat \ {0}
  BY <1>2, LenIsNat DEF Buffer, samples
<1>4. Sample.slot - samples[Len(samples)].slot >= delta
  <2>1. most_recent_slot(samples) = samples[Len(samples)].slot
    BY <1>3, MostRecentIsLast DEF Buffer
  <2>2. QED
    BY <1>1, <2>1 DEF Refresh, refresh, FarEnough, samples
<1>5. /\ longer \in Seq(Samples)
      /\ Len(longer) = n + 1
      /\ \A i \in 1 .. n : longer[i] = room[i]
      /\ longer[n + 1] = Sample
  BY <1>1, <1>2, AppendProperties
<1>6. Spaced(longer, delta)
  <2> HIDE DEF room, delta
  <2> QED
    BY <1>1, <1>2, <1>3, <1>4, AppendKeepsSpaced
<1>7. /\ recorded' \in Seq(Samples)
      /\ Len(recorded') = Len(recorded) + 1
      /\ \A i \in 1 .. Len(recorded) : recorded'[i] = recorded[i]
      /\ recorded'[Len(recorded) + 1] = Sample
  BY <1>1, <1>3, AppendProperties DEF Refresh
<1>8. /\ samples' = longer
      /\ sampling_data' = [sampling_data EXCEPT !.samples = longer]
      /\ rate_state'.refreshed_slot = most_recent_slot(longer)
      /\ UNCHANGED <<slot, source>>
  <2>1. sampling_data' = [sampling_data EXCEPT !.samples = longer]
    BY DEF Refresh, refresh
  <2>2. samples' = longer
    BY <2>1 DEF samples, Buffer
  <2>3. rate_state' = [fair_value |-> avg(longer), refreshed_slot |-> most_recent_slot(longer)]
    BY DEF Refresh, refresh
  <2>4. QED
    BY <2>1, <2>2, <2>3 DEF Refresh, refresh
<1> HIDE DEF room, n, longer
<1>9. EndOf(longer, recorded')
  <2>1. /\ n <= Len(recorded)
        /\ \A i \in 1 .. n : room[i] = recorded[Len(recorded) - n + i]
    BY <1>2 DEF EndOf, n
  <2>2. \A i \in 1 .. n : longer[i] = recorded'[Len(recorded') - (n + 1) + i]
    <3>1. \A i \in 1 .. n : /\ Len(recorded') - (n + 1) + i = Len(recorded) - n + i
                           /\ Len(recorded) - n + i \in 1 .. Len(recorded)
      BY <1>3, <1>7, <2>1
    <3>2. QED
      BY <1>5, <1>7, <2>1, <3>1
  <2>3. longer[n + 1] = recorded'[Len(recorded') - (n + 1) + (n + 1)]
    BY <1>3, <1>5, <1>7
  <2>4. \A i \in 1 .. n + 1 : longer[i] = recorded'[Len(recorded') - (n + 1) + i]
    <3>1. \A i \in 1 .. n + 1 : i \in 1 .. n \/ i = n + 1
      BY <1>3
    <3>2. QED
      BY <2>2, <2>3, <3>1
  <2>5. n + 1 <= Len(recorded')
    BY <1>3, <1>7, <2>1
  <2>6. QED
    BY <1>5, <2>4, <2>5 DEF EndOf
<1>10. Len(longer) = Lesser(Len(recorded'), sampling_data.max_samples_size)
  BY <1>2, <1>3, <1>5, <1>7 DEF Buffer, Lesser
<1>11. most_recent_slot(longer) = longer[Len(longer)].slot
  BY <1>3, <1>5, <1>6, MostRecentIsLast
<1>12. /\ sampling_data'.min_slot_delta = delta
       /\ sampling_data'.max_samples_size = sampling_data.max_samples_size
       /\ sampling_data' \in
            [min_slot_delta : Nat, max_samples_size : Nat \ {0}, samples : Seq(Samples)]
  BY <1>5, <1>8 DEF Buffer
<1>13. longer[Len(longer)].slot <= slot'
  BY <1>1, <1>5, <1>8
<1>14. QED
  BY <1>3, <1>5, <1>6, <1>7, <1>8, <1>9, <1>10, <1>11, <1>12, <1>13 DEF Buffer

\* The environment moves the source and time, and a slot is never in the future.
LEMMA OthersKeepBuffer ==
  ASSUME Buffer, slot' \in InitSlot .. MaxSlot, slot <= slot',
         source' \in [fair_value : Values, refreshed_slot : 0 .. slot'],
         UNCHANGED <<sampling_data, rate_state, recorded>>
  PROVE  Buffer'
<1>1. samples' = samples
  BY DEF samples
<1>2. samples[Len(samples)].slot \in Nat
  <2>1. samples \in Seq(Samples) /\ Len(samples) >= 1
    BY DEF Buffer, samples
  <2>2. QED
    BY <2>1, LenIsNat
<1>3. samples[Len(samples)].slot <= slot'
  BY <1>2, SlotsAssumption DEF Buffer
<1>4. QED
  BY <1>1, <1>3 DEF Buffer

LEMMA NextKeepsBuffer == Buffer /\ [Next]_vars => Buffer'
<1> SUFFICES ASSUME Buffer, [Next]_vars PROVE Buffer'
  OBVIOUS
<1>1. ASSUME NEW value \in Values, NEW refreshed_slot \in 0 .. slot,
             SourcePublishes(value, refreshed_slot)
      PROVE  Buffer'
  BY <1>1, SlotsAssumption, OthersKeepBuffer DEF SourcePublishes, Buffer
<1>2. CASE Tick
  BY <1>2, SlotsAssumption, OthersKeepBuffer DEF Tick, Buffer
<1>3. CASE UNCHANGED vars
  BY <1>3, SlotsAssumption, OthersKeepBuffer DEF vars, Buffer
<1>4. QED
  BY <1>1, <1>2, <1>3, RefreshKeepsBuffer DEF Next

----------------------------------------------------------------------------
(* The rate *)

\* The rate is the average of the window, with the slot of its last sample.
Published ==
  /\ rate_state = [fair_value |-> avg(samples), refreshed_slot |-> samples[Len(samples)].slot]
  /\ avg(samples) \in Nat

LEMMA InitPublished == Init => Published
<1> SUFFICES ASSUME Init PROVE Published
  OBVIOUS
<1>1. Buffer
  BY InitBuffer
<1>2. samples \in Seq(Samples) /\ Len(samples) >= 1
  BY <1>1 DEF Buffer, samples
<1>3. rate_state = [fair_value     |-> avg(samples),
                    refreshed_slot |-> most_recent_slot(samples)]
  BY DEF Init, samples
<1>4. rate_state.refreshed_slot = samples[Len(samples)].slot
  BY <1>1 DEF Buffer
<1>5. QED
  BY <1>2, <1>3, <1>4, AverageFact DEF Published

LEMMA NextKeepsPublished == Buffer /\ Published /\ [Next]_vars => Published'
<1> SUFFICES ASSUME Buffer, Published, [Next]_vars PROVE Published'
  OBVIOUS
<1>1. Buffer'
  BY NextKeepsBuffer
<1>2. samples' \in Seq(Samples) /\ Len(samples') >= 1
  BY <1>1 DEF Buffer, samples
<1>3. CASE Refresh
  <2>1. rate_state' = [fair_value     |-> avg(samples'),
                       refreshed_slot |-> most_recent_slot(samples')]
    <3> DEFINE longer == Append(Evicted(sampling_data), Sample)
    <3>1. sampling_data' = [sampling_data EXCEPT !.samples = longer]
      BY <1>3 DEF Refresh, refresh
    <3>2. samples' = longer
      BY <3>1 DEF samples, Buffer
    <3>3. rate_state' = [fair_value     |-> avg(longer),
                         refreshed_slot |-> most_recent_slot(longer)]
      BY <1>3 DEF Refresh, refresh
    <3> HIDE DEF longer
    <3>4. QED
      BY <3>2, <3>3
  <2>2. rate_state'.refreshed_slot = samples'[Len(samples')].slot
    BY <1>1 DEF Buffer
  <2>3. avg(samples') \in Nat
    BY <1>2, AverageFact
  <2>4. avg(samples)' = avg(samples')
    BY Zenon DEF avg, FoldLeft, MapThenFoldSet
  <2>5. QED
    BY <2>1, <2>2, <2>3, <2>4 DEF Published
<1>4. CASE UNCHANGED <<sampling_data, rate_state>>
  <2>1. samples' = samples
    BY <1>4 DEF samples
  <2>2. avg(samples)' = avg(samples')
    BY Zenon DEF avg, FoldLeft, MapThenFoldSet
  <2>3. QED
    BY <1>4, <2>1, <2>2 DEF Published
<1>5. QED
  BY <1>3, <1>4 DEF Next, SourcePublishes, Tick, vars

LEMMA Holds == Spec => [](Buffer /\ Published)
BY InitBuffer, InitPublished, NextKeepsBuffer, NextKeepsPublished, PTL DEF Spec

----------------------------------------------------------------------------

\* Whatever slots the source comes up with and whatever has been evicted, a window of n
\* samples spans at least n - 1 times min_slot_delta, for windows of any size.
THEOREM NoBurst == Spec => []NoSamplingBurst
<1>1. Buffer => NoSamplingBurst
  <2> SUFFICES ASSUME Buffer PROVE NoSamplingBurst
    OBVIOUS
  <2>1. samples \in Seq(Samples)
    BY DEF Buffer, samples
  <2>2. DOMAIN samples = 1 .. Len(samples)
    BY <2>1, LenIsNat
  <2>3. QED
    BY <2>2 DEF Buffer, Spaced, NoSamplingBurst, samples
<1>2. QED
  BY <1>1, InitBuffer, NextKeepsBuffer, PTL DEF Spec

LEMMA BufferHoldsWindow == Buffer => sampling_data.samples = Average!Window(recorded)
<1> SUFFICES ASSUME Buffer PROVE samples = Average!Window(recorded)
  BY DEF samples
<1> DEFINE n == Len(samples)
           m == Len(recorded)
           max == sampling_data.max_samples_size
           latest == SubSeq(recorded, m - max + 1, m)
<1>1. /\ samples \in Seq(Samples) /\ recorded \in Seq(Samples)
      /\ n \in Nat /\ m \in Nat /\ max \in Nat \ {0}
      /\ n <= m
      /\ n = Lesser(m, max)
      /\ \A i \in 1 .. n : samples[i] = recorded[m - n + i]
  BY LenIsNat DEF Buffer, EndOf, samples
<1>2. CASE m <= max
  <2>1. n = m
    BY <1>1, <1>2 DEF Lesser
  <2>2. \A i \in 1 .. n : samples[i] = recorded[i]
    BY <1>1, <2>1
  <2>3. samples = recorded
    BY <1>1, <2>1, <2>2, SeqEqual
  <2>4. QED
    BY <1>2, <2>3 DEF Average!Window
<1>3. CASE m > max
  <2>1. n = max
    BY <1>1, <1>3 DEF Lesser
  <2>2. \A i \in m - max + 1 .. m : recorded[i] \in Samples
    <3>1. m - max + 1 .. m \subseteq 1 .. m
      BY <1>1, <1>3
    <3>2. QED
      BY <1>1, <3>1, LenIsNat
  <2>3. /\ latest \in Seq(Samples)
        /\ Len(latest) = max
        /\ \A i \in 1 .. max : latest[i] = recorded[m - max + i]
    <3>1. /\ latest \in Seq(Samples)
          /\ Len(latest) = IF m - max + 1 <= m THEN m - (m - max + 1) + 1 ELSE 0
          /\ \A i \in 1 .. m - (m - max + 1) + 1 :
               latest[i] = recorded[(m - max + 1) + i - 1]
      <4> HIDE DEF m, max
      <4> QED
        BY <1>1, <2>2, SubSeqProperties
    <3>2. m - (m - max + 1) + 1 = max /\ m - max + 1 <= m
      BY <1>1
    <3>3. \A i \in 1 .. max : (m - max + 1) + i - 1 = m - max + i
      BY <1>1
    <3> HIDE DEF latest, m, max
    <3>4. QED
      BY <3>1, <3>2, <3>3
  <2>4. samples = latest
    <3> HIDE DEF latest
    <3> QED
      BY <1>1, <2>1, <2>3, SeqEqual
  <2>5. Average!Window(recorded) = latest
    <3>1. ~(m <= max)
      BY <1>1, <1>3
    <3>2. QED
      BY <3>1 DEF Average!Window, Average!Latest
  <2>6. QED
    BY <2>4, <2>5
<1>4. QED
  BY <1>1, <1>2, <1>3

\* The buffer holds exactly the latest samples ever taken, as many as it has room for: its
\* search for the oldest sample is an eviction from a sliding window, for any size.
THEOREM BufferIsWindow == Spec => [](sampling_data.samples = Average!Window(recorded))
BY BufferHoldsWindow, InitBuffer, NextKeepsBuffer, PTL DEF Spec

\* Type correctness: the buffer holds between one and max_samples_size samples, and the rate
\* is a decimal that is not negative with a slot that is not in the future.
THEOREM TypeCorrect == Spec => []TypeOK
<1>1. Buffer /\ Published => TypeOK
  <2> SUFFICES ASSUME Buffer, Published PROVE TypeOK
    OBVIOUS
  <2>1. samples \in Seq(Samples) /\ Len(samples) >= 1 /\ Len(samples) \in Nat
    BY LenIsNat DEF Buffer, samples
  <2>2. samples[Len(samples)].slot \in Nat
    BY <2>1, LenIsNat
  <2>3. recorded \in Seq(Samples) /\ Len(recorded) \in Nat
    BY LenIsNat DEF Buffer
  <2>4. Len(samples) \in 1 .. sampling_data.max_samples_size
    BY <2>1, <2>3 DEF Buffer, Lesser
  <2>5. rate_state.fair_value \in Nat /\ rate_state.refreshed_slot \in 0 .. slot
    BY <2>2, SlotsAssumption DEF Buffer, Published
  <2>6. QED
    BY <2>1, <2>4, <2>5 DEF Buffer, TypeOK, samples
<1>2. QED
  BY <1>1, Holds, PTL

\* The rate lies between two of the samples of its window: an average, rounded, does not
\* leave the range of what it averages.
THEOREM RateIsWithin == Spec => []RateWithinSamples
<1>1. Buffer /\ Published => RateWithinSamples
  <2> SUFFICES ASSUME Buffer, Published PROVE RateWithinSamples
    OBVIOUS
  <2>1. samples \in Seq(Samples) /\ Len(samples) >= 1
    BY DEF Buffer, samples
  <2>2. DOMAIN samples = 1 .. Len(samples)
    BY <2>1, LenIsNat
  <2>3. rate_state.fair_value = avg(samples)
    BY DEF Published
  <2>4. QED
    BY <2>1, <2>2, <2>3, AverageFact DEF RateWithinSamples, samples
<1>2. QED
  BY <1>1, Holds, PTL

\* Towards vyper-core the TWAP is a rate program: its slot is never in the future and never
\* goes back, however the slots of its source jump about.
THEOREM TwapIsRateProgram == Spec => ImplementsRateProgram
<1>1. Init => Rate!Init
  <2> SUFFICES ASSUME Init PROVE Rate!Init
    OBVIOUS
  <2>1. Buffer /\ Published
    BY InitBuffer, InitPublished
  <2>2. rate_state.refreshed_slot \in Nat
    BY <2>1, LenIsNat DEF Buffer, Published, samples
  <2>3. QED
    BY <2>1, <2>2, SlotsAssumption DEF Rate!Init, Buffer, Published
<1>2. Buffer /\ Published /\ Published' /\ Buffer' /\ [Next]_vars => [Rate!Next]_Rate!vars
  <2> SUFFICES ASSUME Buffer, Published, Buffer', Published', [Next]_vars
               PROVE  [Rate!Next]_Rate!vars
    OBVIOUS
  <2>1. CASE Refresh
    <3>1. samples \in Seq(Samples) /\ Len(samples) >= 1
      BY DEF Buffer, samples
    <3>2. samples' \in Seq(Samples) /\ Len(samples') >= 1
      BY DEF Buffer, samples
    <3>3. source.refreshed_slot >= rate_state.refreshed_slot
      <4>1. most_recent_slot(samples) = rate_state.refreshed_slot
        BY <3>1, MostRecentIsLast DEF Buffer
      <4>2. rate_state.refreshed_slot \in Nat /\ source.refreshed_slot \in Nat
        BY <3>1, LenIsNat, SlotsAssumption DEF Buffer
      <4>3. QED
        BY <2>1, <4>1, <4>2, SampleIsTyped DEF Refresh, refresh, FarEnough, samples
    <3>4. rate_state'.refreshed_slot = source.refreshed_slot
      <4>1. samples'[Len(samples')] = Sample
        BY <2>1, RefreshAppends
      <4>2. QED
        BY <4>1, SampleIsTyped DEF Published
    <3>5. slot' = slot /\ source.refreshed_slot <= slot
      BY <2>1, SampleIsTyped DEF Refresh, refresh
    <3>6. rate_state' = [fair_value     |-> rate_state'.fair_value,
                         refreshed_slot |-> rate_state'.refreshed_slot]
            /\ rate_state'.fair_value \in Nat
      BY DEF Published
    <3>7. /\ rate_state.refreshed_slot \in Nat
          /\ slot \in Nat
          /\ rate_state'.refreshed_slot \in Nat
      BY <3>1, <3>2, LenIsNat, SlotsAssumption DEF Buffer
    <3>8. QED
      BY <3>3, <3>4, <3>5, <3>6, <3>7 DEF Rate!Next, Rate!PublishRate
  <2>2. CASE rate_state' = rate_state /\ (slot' = slot + 1 \/ slot' = slot)
    BY <2>2 DEF Rate!Next, Rate!Tick, Rate!vars
  <2>3. QED
    BY <2>1, <2>2 DEF Next, SourcePublishes, Tick, vars
<1>3. QED
  BY <1>1, <1>2, NextKeepsBuffer, NextKeepsPublished, InitBuffer, InitPublished, PTL
     DEF Spec, ImplementsRateProgram, Rate!Spec

\* The rate is always the average of the latest samples taken, to the nearest decimal, with
\* the slot of the last one, and samples are far enough apart: the ring with its eviction
\* implements the sliding window, for windows of any size.
THEOREM TwapIsSlidingAverage == Spec => ImplementsSlidingAverage
<1>1. Init => Average!Init
  <2> SUFFICES ASSUME Init PROVE Average!Init
    OBVIOUS
  <2>1. Buffer /\ Published
    BY InitBuffer, InitPublished
  <2>2. recorded = <<Sample>> /\ samples = recorded
    BY DEF Init, samples
  <2>3. Sample \in Samples
    BY <2>1, SampleIsTyped
  <2>4. Len(recorded) = 1 /\ recorded[1] = Sample /\ recorded \in Seq(Samples)
    BY <2>2, <2>3
  <2>5. avg(recorded) = Sample.value
    BY <2>4, AverageOfOne
  <2>6. QED
    BY <2>1, <2>2, <2>4, <2>5 DEF Published, Average!Init
<1>2. Buffer' => (sampling_data.samples = Average!Window(recorded))'
  BY BufferHoldsWindow, PTL
<1>3. Buffer /\ Published /\ Published' /\ Buffer' /\ [Next]_vars
        => [Average!Record]_Average!vars
  <2> SUFFICES ASSUME Buffer, Published, Buffer', Published', [Next]_vars
               PROVE  [Average!Record]_Average!vars
    OBVIOUS
  <2>1. CASE Refresh
    <3> DEFINE m == Len(recorded)
    <3>1. /\ recorded \in Seq(Samples) /\ recorded' \in Seq(Samples)
          /\ m \in Nat /\ m >= 1
          /\ Sample \in Samples
          /\ recorded' = Append(recorded, Sample)
      <4>1. recorded \in Seq(Samples) /\ m >= 1
        BY DEF Buffer, EndOf
      <4>2. QED
        BY <2>1, <4>1, LenIsNat, SampleIsTyped DEF Buffer, Refresh
    <3>2. /\ Len(recorded') = m + 1
          /\ recorded'[m + 1] = Sample
          /\ \A i \in 1 .. m : recorded'[i] = recorded[i]
      BY <3>1, AppendProperties
    <3>3. Average!Front(recorded') = recorded
      <4> DEFINE front == SubSeq(recorded', 1, m)
      <4> HIDE DEF front
      <4>1. front = recorded
        BY <3>1, DropLast DEF front
      <4>2. m + 1 - 1 = m
        BY <3>1
      <4>3. QED
        BY <3>2, <4>1, <4>2 DEF Average!Front, front
    <3>4. Average!Last(recorded') = Sample /\ Average!Last(recorded) = samples[Len(samples)]
      <4>1. recorded[m] = samples[Len(samples)]
        <5>1. samples \in Seq(Samples) /\ Len(samples) \in Nat /\ Len(samples) >= 1
          BY LenIsNat DEF Buffer, samples
        <5>2. samples[Len(samples)] = recorded[m - Len(samples) + Len(samples)]
          BY <5>1 DEF Buffer, EndOf
        <5>3. QED
          BY <3>1, <5>1, <5>2
      <4>2. QED
        BY <3>2, <4>1 DEF Average!Last
    <3>5. Sample.slot - samples[Len(samples)].slot >= sampling_data.min_slot_delta
      <4>1. most_recent_slot(samples) = samples[Len(samples)].slot
        BY MostRecentIsLast DEF Buffer, samples
      <4>2. QED
        BY <2>1, <4>1, SampleIsTyped DEF Refresh, refresh, FarEnough, samples
    <3>6. UNCHANGED <<sampling_data.min_slot_delta, sampling_data.max_samples_size>>
      <4>1. sampling_data' = [sampling_data EXCEPT !.samples = sampling_data'.samples]
        BY <2>1 DEF Refresh, refresh, Buffer
      <4>2. QED
        BY <4>1 DEF Buffer
    <3>7. samples' = Average!Window(recorded')
      <4>1. (sampling_data.samples = Average!Window(recorded))'
        BY <1>2
      <4>2. QED
        BY <3>6, <4>1 DEF Average!Window, Average!Latest, samples
    <3>8. Average!IsAverage(rate_state'.fair_value, samples')
      <4>1. samples' \in Seq(Samples) /\ Len(samples') >= 1
        BY DEF Buffer, samples
      <4>2. rate_state'.fair_value = avg(samples')
        <5>1. avg(samples)' = avg(samples')
          BY Zenon DEF avg, FoldLeft, MapThenFoldSet
        <5>2. QED
          BY <5>1 DEF Published
      <4>3. 2 * (Len(samples') * avg(samples') - SampleSum(samples'))
              \in -Len(samples') .. Len(samples')
        BY <4>1, AverageFact
      <4>4. QED
        BY <4>2, <4>3, AbstractAverage
    <3>9. rate_state'.refreshed_slot = Sample.slot
      BY <2>1, RefreshAppends DEF Published
    <3>10. QED
      BY <3>2, <3>3, <3>4, <3>5, <3>6, <3>7, <3>8, <3>9
         DEF Average!Record, Average!Publishes
  <2>2. CASE UNCHANGED <<sampling_data, rate_state, recorded>>
    BY <2>2 DEF Average!vars
  <2>3. QED
    BY <2>1, <2>2 DEF Next, SourcePublishes, Tick, vars
<1>4. QED
  BY <1>1, <1>3, NextKeepsBuffer, NextKeepsPublished, InitBuffer, InitPublished, PTL
     DEF Spec, ImplementsSlidingAverage, Average!Spec

=============================================================================
