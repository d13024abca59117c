------------------------ MODULE RateSwitchboard_proofs ----------------------
(***************************************************************************)
(* Rate-switchboard for any accounts, any rounds and a vector of any length.  *)
(***************************************************************************)
EXTENDS RateSwitchboard, DecimalTheorems, SequenceTheorems

Rounds == [result : Results \union {OutOfRange}, round_open_slot : 0 .. slot]

\* The aggregators stored are the first so many, and the values behind them stay zero.
FirstAreStored(n) ==
  /\ n \in 1 .. MaxAggregators
  /\ switchboard_aggregators \in [Entries -> Accounts \union {None}]
  /\ fair_value \in FairValues
  /\ \A i \in Entries :
       /\ i < n => switchboard_aggregators[i] \in Accounts
       /\ i >= n => switchboard_aggregators[i] = None /\ fair_value[i] = 0

Stored ==
  /\ slot \in Nat
  /\ latest_confirmed_round \in [Accounts -> Rounds]
  /\ refreshed_slot \in 0 .. slot
  /\ \E n \in Nat : FirstAreStored(n)

----------------------------------------------------------------------------

LEMMA MinIsMember ==
  ASSUME NEW S \in SUBSET Nat, S # {}
  PROVE  Min(S) \in S
BY LeastNatural DEF Min

LEMMA RemainingAreSequences ==
  ASSUME NEW aggregators \in RemainingAccounts
  PROVE  /\ Len(aggregators) \in Nat
         /\ \A i \in 1 .. Len(aggregators) : aggregators[i] \in Accounts
<1>1. aggregators \in Seq(Accounts)
  BY BoundsAssumption DEF RemainingAccounts, SeqOf
<1>2. QED
  BY <1>1, LenProperties

LEMMA StoredAreCounted ==
  ASSUME NEW n \in Nat, FirstAreStored(n)
  PROVE  Cardinality({i \in Entries : switchboard_aggregators[i] # None}) = n
<1>1. {i \in Entries : switchboard_aggregators[i] # None} = 0 .. n - 1
  BY AccountsAssumption, BoundsAssumption DEF FirstAreStored, Entries
<1>2. Cardinality(0 .. n - 1) = IF 0 > n - 1 THEN 0 ELSE (n - 1) - 0 + 1
  BY FS_Interval
<1>3. Cardinality(0 .. n - 1) = n
  BY <1>2 DEF FirstAreStored
<1>4. QED
  BY <1>1, <1>3, Zenon

----------------------------------------------------------------------------
(* What the aggregators show together *)

LEMMA ShowingIsVectorOrNot ==
  (latest_confirmed_round \in [Accounts -> Rounds] /\ \E n \in Nat : FirstAreStored(n))
    => showing \in FairValues \union {OutOfRange}
<1> SUFFICES ASSUME latest_confirmed_round \in [Accounts -> Rounds],
                    \E n \in Nat : FirstAreStored(n), showing # OutOfRange
             PROVE  showing \in FairValues
  OBVIOUS
<1> DEFINE Result(i) == IF switchboard_aggregators[i] = None THEN 0
                        ELSE latest_confirmed_round[switchboard_aggregators[i]].result
<1>1. showing = [i \in Entries |-> Result(i)] /\ \A i \in Entries : Result(i) # OutOfRange
  BY DEF showing
<1>2. \A i \in Entries : Result(i) \in Results \union {0, OutOfRange}
  BY DEF FirstAreStored, Rounds
<1> HIDE DEF Result
<1>3. QED
  BY <1>1, <1>2 DEF FairValues

\* With the aggregators that are stored, all of them readable, set_data_from_aggregators
\* writes what they show.
LEMMA ReadsWhatIsShown ==
  ASSUME latest_confirmed_round \in [Accounts -> Rounds],
         NEW n \in Nat, n <= MaxAggregators,
         switchboard_aggregators \in [Entries -> Accounts \union {None}],
         NEW old, \A i \in Entries : i >= n => old[i] = 0,
         \A i \in Entries : i >= n => switchboard_aggregators[i] = None,
         NEW aggregators \in RemainingAccounts, Len(aggregators) = n,
         SameKeys(aggregators, switchboard_aggregators), Readable(aggregators)
  PROVE  /\ showing = NewFairValue(aggregators, old)
         /\ showing # OutOfRange
<1> DEFINE Result(i) == IF switchboard_aggregators[i] = None THEN 0
                        ELSE latest_confirmed_round[switchboard_aggregators[i]].result
<1>1. \A i \in Entries : i < n =>
        /\ switchboard_aggregators[i] = aggregators[i + 1]
        /\ switchboard_aggregators[i] # None
        /\ latest_confirmed_round[aggregators[i + 1]].result # OutOfRange
  <2> SUFFICES ASSUME NEW i \in Entries, i < n
               PROVE  /\ switchboard_aggregators[i] = aggregators[i + 1]
                      /\ switchboard_aggregators[i] # None
                      /\ latest_confirmed_round[aggregators[i + 1]].result # OutOfRange
    OBVIOUS
  <2>1. i + 1 \in 1 .. Len(aggregators) /\ (i + 1) - 1 = i
    BY BoundsAssumption DEF Entries
  <2>2. QED
    BY <2>1 DEF SameKeys, Readable
<1>2. \A i \in Entries :
        Result(i) = IF i < Len(aggregators)
                    THEN latest_confirmed_round[aggregators[i + 1]].result ELSE old[i]
  BY <1>1, BoundsAssumption DEF Entries
<1>3. OutOfRange # 0
  BY ResultsAssumption
<1>4. \A i \in Entries : Result(i) # OutOfRange
  BY <1>1, <1>3, BoundsAssumption DEF Entries
<1>5. showing = [i \in Entries |-> Result(i)]
  BY <1>4 DEF showing
<1>6. showing = NewFairValue(aggregators, old)
  BY <1>2, <1>5 DEF NewFairValue
<1>7. showing \in FairValues
  <2>1. \A i \in Entries : Result(i) \in Results \union {0}
    BY <1>4 DEF Rounds
  <2> HIDE DEF Result
  <2>2. QED
    BY <1>5, <2>1 DEF FairValues
<1>8. QED
  BY <1>6, <1>7, OutOfRangeAssumption

----------------------------------------------------------------------------
(* The refinement *)

LEMMA InitImplements == Init => Stored /\ Oracle!Init
<1> SUFFICES ASSUME Init PROVE Stored /\ Oracle!Init
  OBVIOUS
<1>1. slot \in Nat /\ slot = InitSlot
  BY BoundsAssumption DEF Init
<1>2. latest_confirmed_round \in [Accounts -> Rounds]
  BY <1>1 DEF Init, Rounds
<1>3. PICK aggregators \in RemainingAccounts :
        /\ Len(aggregators) \in 1 .. MaxAggregators
        /\ switchboard_aggregators =
             [i \in Entries |-> IF i < Len(aggregators) THEN aggregators[i + 1] ELSE None]
        /\ SameKeys(aggregators, switchboard_aggregators)
        /\ Readable(aggregators)
        /\ fair_value = NewFairValue(aggregators, [i \in Entries |-> 0])
        /\ refreshed_slot = OldestSlot(aggregators)
  BY DEF Init
<1> DEFINE n == Len(aggregators)
<1>4. n \in Nat /\ \A i \in 1 .. n : aggregators[i] \in Accounts
  BY <1>3, RemainingAreSequences
<1>5. \A i \in Entries : i < n => aggregators[i + 1] \in Accounts
  BY <1>4, BoundsAssumption DEF Entries
<1>6. switchboard_aggregators \in [Entries -> Accounts \union {None}]
  BY <1>3, <1>5
<1>7. \A i \in Entries :
        /\ i < n => switchboard_aggregators[i] \in Accounts
        /\ i >= n => switchboard_aggregators[i] = None
  BY <1>3, <1>4, <1>5, BoundsAssumption DEF Entries
<1>8. showing = fair_value /\ showing # OutOfRange
  <2> DEFINE zeros == [i \in Entries |-> 0]
  <2>1. \A i \in Entries : i >= n => zeros[i] = 0
    OBVIOUS
  <2> HIDE DEF zeros
  <2>2. showing = NewFairValue(aggregators, zeros) /\ showing # OutOfRange
    BY <1>2, <1>3, <1>4, <1>6, <1>7, <2>1, ReadsWhatIsShown
  <2>3. QED
    BY <1>3, <2>2 DEF zeros
<1>9. \E m \in Nat : FirstAreStored(m)
  <2>1. \A i \in Entries : i >= n => fair_value[i] = 0
    BY <1>3, <1>4, BoundsAssumption DEF NewFairValue, Entries
  <2>2. fair_value \in FairValues
    <3>1. \A i \in Entries : i < n =>
            /\ latest_confirmed_round[aggregators[i + 1]].result \in Results \union {OutOfRange}
            /\ latest_confirmed_round[aggregators[i + 1]].result # OutOfRange
      <4>1. \A i \in Entries : i < n => i + 1 \in 1 .. n
        BY <1>4, BoundsAssumption DEF Entries
      <4>2. QED
        BY <1>2, <1>3, <1>5, <4>1 DEF Rounds, Readable
    <3>2. QED
      BY <1>3, <3>1 DEF NewFairValue, FairValues
  <2>3. QED
    BY <1>3, <1>4, <1>6, <1>7, <2>1, <2>2 DEF FirstAreStored
<1>10. refreshed_slot \in 0 .. slot
  <2> DEFINE opened == {latest_confirmed_round[aggregators[i]].round_open_slot : i \in 1 .. n}
  <2>1. opened \in SUBSET (0 .. slot)
    BY <1>2, <1>4 DEF Rounds
  <2>2. 1 \in 1 .. n
    BY <1>3, <1>4
  <2>3. opened # {} /\ opened \in SUBSET Nat
    BY <1>1, <2>1, <2>2
  <2>4. refreshed_slot = Min(opened)
    BY <1>3 DEF OldestSlot
  <2> HIDE DEF opened
  <2>5. QED
    BY <2>1, <2>3, <2>4, MinIsMember
<1>11. Stored
  BY <1>1, <1>2, <1>9, <1>10 DEF Stored
<1>12. showing \in FairValues
  BY <1>2, <1>8, <1>9, ShowingIsVectorOrNot
<1>13. QED
  BY <1>1, <1>8, <1>10, <1>11, <1>12 DEF Oracle!Init, rate_state

\* A refresh that succeeds was handed the stored aggregators, all of them, in their order.
LEMMA RefreshPublishes ==
  ASSUME Stored, NEW aggregators \in RemainingAccounts, refresh(aggregators)
  PROVE  Stored' /\ Oracle!Publish
<1>1. PICK n \in Nat : FirstAreStored(n)
  BY DEF Stored
<1>2. Len(aggregators) = n
  BY <1>1, StoredAreCounted DEF refresh
<1>3. showing = NewFairValue(aggregators, fair_value) /\ showing # OutOfRange
  <2>1. /\ n <= MaxAggregators
        /\ switchboard_aggregators \in [Entries -> Accounts \union {None}]
        /\ \A i \in Entries : i >= n => fair_value[i] = 0
        /\ \A i \in Entries : i >= n => switchboard_aggregators[i] = None
    BY <1>1, BoundsAssumption DEF FirstAreStored
  <2>2. QED
    BY <1>2, <2>1, ReadsWhatIsShown DEF Stored, refresh
<1>4. /\ fair_value' = showing
      /\ refreshed_slot' = slot
      /\ UNCHANGED <<slot, latest_confirmed_round, switchboard_aggregators>>
  BY <1>3 DEF refresh, round_vars
<1>5. UNCHANGED showing
  BY <1>4 DEF showing
<1>6. showing \in FairValues
  BY <1>3, ShowingIsVectorOrNot DEF Stored
<1>7. FirstAreStored(n)'
  <2>1. \A i \in Entries : i >= n => fair_value'[i] = 0
    BY <1>1, <1>2, <1>3, <1>4, BoundsAssumption DEF NewFairValue, FirstAreStored, Entries
  <2>2. QED
    BY <1>1, <1>4, <1>6, <2>1 DEF FirstAreStored
<1>8. Stored'
  BY <1>4, <1>7 DEF Stored, Rounds
<1>9. QED
  BY <1>3, <1>4, <1>5, <1>8 DEF Oracle!Publish, rate_state

\* Whatever round an aggregator confirms, together they show a vector or nothing.
LEMMA ConfirmRoundShows ==
  ASSUME Stored, NEW aggregator \in Accounts, NEW result \in Results \union {OutOfRange},
         NEW opened \in 0 .. slot, ConfirmRound(aggregator, result, opened)
  PROVE  Stored' /\ Oracle!Show
<1>1. UNCHANGED <<slot, fair_value, refreshed_slot, switchboard_aggregators>>
  BY DEF ConfirmRound, data_vars
<1>2. latest_confirmed_round' \in [Accounts -> Rounds]
  BY DEF ConfirmRound, Stored, Rounds
<1>3. (latest_confirmed_round \in [Accounts -> Rounds] /\ \E n \in Nat : FirstAreStored(n))'
  BY <1>1, <1>2 DEF Stored, FirstAreStored, Rounds
<1>4. Stored'
  BY <1>1, <1>3 DEF Stored
<1>5. ((latest_confirmed_round \in [Accounts -> Rounds] /\ \E n \in Nat : FirstAreStored(n))
         => showing \in FairValues \union {OutOfRange})'
  BY ShowingIsVectorOrNot, PTL
<1>6. QED
  BY <1>1, <1>3, <1>4, <1>5 DEF Oracle!Show, rate_state

LEMMA NextImplements ==
  ASSUME Stored, [Next]_vars
  PROVE  Stored' /\ [Oracle!Next]_Oracle!vars
<1>1. CASE Tick
  <2>1. slot' = slot + 1 /\ UNCHANGED <<latest_confirmed_round, data_vars>>
    BY <1>1 DEF Tick
  <2>2. UNCHANGED <<showing, rate_state>>
    BY <2>1 DEF data_vars, showing, rate_state
  <2>3. slot' \in Nat /\ 0 .. slot \subseteq 0 .. slot'
    BY <2>1 DEF Stored
  <2>4. latest_confirmed_round' \in [Accounts -> Rounds']
    BY <2>1, <2>3 DEF Stored, Rounds
  <2>5. Stored'
    BY <2>1, <2>3, <2>4 DEF Stored, FirstAreStored, data_vars
  <2>6. QED
    BY <2>1, <2>2, <2>5 DEF Oracle!Next, Oracle!Tick
<1>2. CASE UNCHANGED vars
  <2>1. UNCHANGED <<slot, latest_confirmed_round, fair_value, refreshed_slot,
                    switchboard_aggregators>>
    BY <1>2 DEF vars, round_vars, data_vars
  <2>2. UNCHANGED <<slot, showing, rate_state>>
    BY <2>1 DEF showing, rate_state
  <2>3. Stored'
    BY <2>1 DEF Stored, FirstAreStored, Rounds
  <2>4. QED
    BY <2>2, <2>3 DEF Oracle!vars
<1>3. QED
  BY <1>1, <1>2, RefreshPublishes, ConfirmRoundShows DEF Next, Oracle!Next

\* The account shows one moment of all its aggregators, in their order, and the slot of it,
\* for any number of aggregators, in whatever order and number accounts are handed in and
\* whatever rounds are confirmed in between.
THEOREM SwitchboardIsOracleReader == Spec => ImplementsOracleReader
<1>1. QED
  BY InitImplements, NextImplements, PTL DEF Spec, ImplementsOracleReader, Oracle!Spec

=============================================================================
