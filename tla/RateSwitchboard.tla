---------------------------- MODULE RateSwitchboard -------------------------
(***************************************************************************)
(* The rate-switchboard program: copies the latest confirmed results of up to *)
(* ten Switchboard aggregators, given at initialization and handed in again,  *)
(* in the same order, at every refresh.                                      *)
(***************************************************************************)
EXTENDS Decimals, FiniteSetsExt, SequencesExt

CONSTANTS
  Accounts,           \* the accounts that may be handed in
  owner,              \* the program that owns each of them
  SWITCHBOARD_V2_DEVNET, SWITCHBOARD_V2_MAINNET,
  MaxAggregators,     \* the length of the fair value vector, 10 in the code
  Results,            \* bound: the results of rounds, decimals
  OutOfRange,         \* a result that does not convert to a Decimal
  None,               \* Option::None
  InitSlot, MaxSlot   \* bound: the slots considered

ASSUME AccountsAssumption ==
  DOMAIN owner = Accounts /\ None \notin Accounts
ASSUME ResultsAssumption == Results \subseteq Int /\ OutOfRange \notin Int
ASSUME BoundsAssumption ==
  MaxAggregators \in Nat \ {0} /\ InitSlot \in Nat /\ MaxSlot \in Nat

VARIABLES
  slot,                          \* Clock::get()?.slot
  latest_confirmed_round,        \* of each aggregator
  fair_value, refreshed_slot, switchboard_aggregators   \* RateState

round_vars == <<slot, latest_confirmed_round>>
data_vars  == <<fair_value, refreshed_slot, switchboard_aggregators>>
vars       == <<round_vars, data_vars>>

Entries == 0 .. MaxAggregators - 1

\* The remaining accounts of a transaction.
RemainingAccounts == SeqOf(Accounts, MaxAggregators + 1)

----------------------------------------------------------------------------

\* Mutant: takes the aggregators in any order.
SameKeysInAnyOrder(aggregators, stored) ==
  \A i \in 1 .. Len(aggregators) : \E j \in Entries : stored[j] = aggregators[i]

\* Each account handed in is the aggregator stored at its place.
SameKeys(aggregators, stored) ==
  \A i \in 1 .. Len(aggregators) : stored[i - 1] # None /\ stored[i - 1] = aggregators[i]

Readable(aggregators) ==
  \A i \in 1 .. Len(aggregators) : latest_confirmed_round[aggregators[i]].result # OutOfRange

\* set_data_from_aggregators: the values, and the slot of the oldest round among them.
\* With no aggregator there is no such slot, an error.
NewFairValue(aggregators, old) ==
  [i \in Entries |-> IF i < Len(aggregators)
                     THEN latest_confirmed_round[aggregators[i + 1]].result
                     ELSE old[i]]

OldestSlot(aggregators) ==
  Min({latest_confirmed_round[aggregators[i]].round_open_slot : i \in 1 .. Len(aggregators)})

----------------------------------------------------------------------------

\* initialize.
Init ==
  /\ slot = InitSlot
  /\ latest_confirmed_round \in [Accounts ->
       [result : Results \union {OutOfRange}, round_open_slot : 0 .. InitSlot]]
  /\ \E aggregators \in RemainingAccounts :
       /\ Len(aggregators) \in 1 .. MaxAggregators
       /\ \A i \in 1 .. Len(aggregators) :
            owner[aggregators[i]] \in {SWITCHBOARD_V2_DEVNET, SWITCHBOARD_V2_MAINNET}
       /\ switchboard_aggregators =
            [i \in Entries |-> IF i < Len(aggregators) THEN aggregators[i + 1] ELSE None]
       /\ SameKeys(aggregators, switchboard_aggregators)
       /\ Readable(aggregators)
       /\ fair_value = NewFairValue(aggregators, [i \in Entries |-> 0])
       /\ refreshed_slot = OldestSlot(aggregators)

\* refresh: the slot of the oldest round is computed, and replaced by the current one.
refresh(aggregators) ==
  /\ Len(aggregators) = Cardinality({i \in Entries : switchboard_aggregators[i] # None})
  /\ SameKeys(aggregators, switchboard_aggregators)
  /\ Readable(aggregators)
  /\ fair_value' = NewFairValue(aggregators, fair_value)
  /\ refreshed_slot' = slot
  /\ UNCHANGED <<round_vars, switchboard_aggregators>>

\* An aggregator confirms a round, opened after the one it showed.
ConfirmRound(aggregator, result, opened) ==
  /\ opened > latest_confirmed_round[aggregator].round_open_slot
  /\ latest_confirmed_round' = [latest_confirmed_round EXCEPT ![aggregator] =
       [result |-> result, round_open_slot |-> opened]]
  /\ UNCHANGED <<slot, data_vars>>

Tick ==
  /\ slot < MaxSlot
  /\ slot' = slot + 1
  /\ UNCHANGED <<latest_confirmed_round, data_vars>>

Next ==
  \/ \E aggregators \in RemainingAccounts : refresh(aggregators)
  \/ \E aggregator \in Accounts, result \in Results \union {OutOfRange},
        opened \in 0 .. slot : ConfirmRound(aggregator, result, opened)
  \/ Tick

Spec == Init /\ [][Next]_vars

----------------------------------------------------------------------------

\* What the stored aggregators show together, each in its place.
showing ==
  LET Result(i) == IF switchboard_aggregators[i] = None THEN 0
                   ELSE latest_confirmed_round[switchboard_aggregators[i]].result
  IN  IF \E i \in Entries : Result(i) = OutOfRange
      THEN OutOfRange
      ELSE [i \in Entries |-> Result(i)]

\* The account vyper-core reads.
rate_state == [fair_value |-> fair_value, refreshed_slot |-> refreshed_slot]

FairValues == [Entries -> Results \union {0}]

ASSUME OutOfRangeAssumption == OutOfRange \notin FairValues

Oracle == INSTANCE OracleReader WITH Unavailable <- OutOfRange

\* Whatever accounts a refresh is handed and whatever rounds are confirmed in between, the
\* account shows one moment of all its aggregators, in their order, and the slot of it.
ImplementsOracleReader == Oracle!Spec

=============================================================================
