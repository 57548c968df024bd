---------------------------- MODULE ValidatorSet ----------------------------
(***************************************************************************)
(* The set of validators and its rotation of proposers                     *)
(* (consensus/bor/valset/validator_set.go).  A set is a record: the        *)
(* validators by address, each with its VotingPower and ProposerPriority,  *)
(* the Proposer, and the cached totalVotingPower.  Addresses are numbers,  *)
(* so that their order is that of the list in the code.                    *)
(***************************************************************************)
EXTENDS Integers, FiniteSets, FiniteSetsExt, TLC

CONSTANTS MaxInt64,   \* the width of the arithmetic, scaled down
          None        \* a nil pointer

ASSUME ValidatorSetAssumption == MaxInt64 \in Nat /\ MaxInt64 >= 8 /\ None \notin Nat

MinInt64 == -MaxInt64 - 1
MaxTotalVotingPower == MaxInt64 \div 8
PriorityWindowSizeFactor == 2

InInt64(x) == MinInt64 <= x /\ x <= MaxInt64

\* Machine arithmetic wraps; division truncates.
Int64(x) == ((x - MinInt64) % (2 * (MaxInt64 + 1))) + MinInt64
Quotient(a, b) == IF a >= 0 THEN a \div b ELSE -((-a) \div b)

\* safeAddClip and safeSubClip.
Clip(x) == IF x > MaxInt64 THEN MaxInt64 ELSE IF x < MinInt64 THEN MinInt64 ELSE x

-----------------------------------------------------------------------------

Addresses(v) == DOMAIN v.Validators
Power(v, a) == v.Validators[a].VotingPower
Priority(v, a) == v.Validators[a].ProposerPriority
Priorities(v) == {Priority(v, a) : a \in Addresses(v)}
SumOf(v) == MapThenSumSet(LAMBDA a : Power(v, a), Addresses(v))

WithPriorities(v, f(_)) ==
    [v EXCEPT !.Validators = [a \in Addresses(v) |-> [v.Validators[a] EXCEPT !.ProposerPriority = f(a)]]]

\* TotalVotingPower computes the sum only when there is none.
TotalVotingPower(v) == IF v.totalVotingPower = 0 THEN SumOf(v) ELSE v.totalVotingPower

\* Cmp: the highest priority, the smallest address among equals.
MostPriority(v) ==
    Min({a \in Addresses(v) : Priority(v, a) = Max(Priorities(v))})

\* GetProposer, with findProposer when there is none.
GetProposer(v) == IF v.Proposer = None THEN MostPriority(v) ELSE v.Proposer

ComputeMaxMinPriorityDiff(v) == 
    LET diff == Int64(Max(Priorities(v)) - Min(Priorities(v))) IN IF diff < 0 THEN Int64(-diff) ELSE diff

\* RescalePriorities: divided by ceil(diff / diffMax), when outside the window.
RescalePriorities(v, diffMax) ==
    LET diff == ComputeMaxMinPriorityDiff(v)
        ratio == Quotient(Int64(diff + diffMax - 1), diffMax)
    IN  IF diffMax <= 0 \/ diff <= diffMax THEN v
        ELSE WithPriorities(v, LAMBDA a : Quotient(Priority(v, a), ratio))

\* The average of big integers rounds down.
AvgProposerPriority(v) ==
    MapThenSumSet(LAMBDA a : Priority(v, a), Addresses(v)) \div Cardinality(Addresses(v))

ShiftByAvgProposerPriority(v) ==
    WithPriorities(v, LAMBDA a : Clip(Priority(v, a) - AvgProposerPriority(v)))

Centred(v) ==
    ShiftByAvgProposerPriority(RescalePriorities(v, PriorityWindowSizeFactor * TotalVotingPower(v)))

\* Every priority grows by the voting power.
Grown(v) == WithPriorities(v, LAMBDA a : Clip(Priority(v, a) + Power(v, a)))

\* Mutant: the proposer pays nothing.
Unpaid(v, p) == v

\* The proposer pays the total.
Paid(v, p) ==
    WithPriorities(v, LAMBDA a : IF a = p THEN Clip(Priority(v, a) - TotalVotingPower(v)) ELSE Priority(v, a))

\* IncrementProposerPriority(1).
IncrementProposerPriority(v) ==
    LET w == Grown(Centred(v)) IN [Paid(w, MostPriority(w)) EXCEPT !.Proposer = MostPriority(w)]

-----------------------------------------------------------------------------

\* Mutant: a new validator starts like one that just waited.
NewPriorityZero(total) == 0

\* Mutant: shifted the other way.
NewPriorityShifted(total) == -(total + total * 8)

\* computeNewPriorities: a new validator starts at -1.125 times the total.
NewPriority(total) == -(total + total \div 8)

\* processChanges to updateValidators: the set with the changes (from addresses to
\* powers, 0 to remove) merged into it.  total is what verifyUpdates computed.
Merged(v, changes, total) ==
    LET deletes == {a \in DOMAIN changes : changes[a] = 0}
        updates == DOMAIN changes \ deletes
    IN  [v EXCEPT !.Validators =
            [a \in (Addresses(v) \cup updates) \ deletes |->
                [VotingPower |-> IF a \in updates THEN changes[a] ELSE Power(v, a),
                 ProposerPriority |-> IF a \in Addresses(v) THEN Priority(v, a) ELSE NewPriority(total)]]]

\* verifyUpdates: the cached total, with what the updates differ by.
UpdatedTotal(v, changes) ==
    TotalVotingPower(v)
      + MapThenSumSet(LAMBDA a : changes[a] - (IF a \in Addresses(v) THEN Power(v, a) ELSE 0),
                      {a \in DOMAIN changes : changes[a] # 0})

\* The errors found before anything changes: a power or a total above the limit, a
\* removal of a stranger, an empty result.
Refused(v, changes) ==
    \/ \E a \in DOMAIN changes : changes[a] > MaxTotalVotingPower
    \/ \E a \in DOMAIN changes \ Addresses(v) : changes[a] = 0
    \/ UpdatedTotal(v, changes) > MaxTotalVotingPower
    \/ DOMAIN changes \subseteq Addresses(v) /\ \A a \in Addresses(v) : a \in DOMAIN changes /\ changes[a] = 0

\* updateWithChangeSet.  A merged total above the limit leaves the cached one.
UpdateWithChangeSet(v, changes) ==
    LET w == Merged(v, changes, UpdatedTotal(v, changes))
    IN  IF Refused(v, changes) THEN v
        ELSE IF SumOf(w) > MaxTotalVotingPower THEN w
        ELSE Centred([w EXCEPT !.totalVotingPower = SumOf(w)])

NewValidatorSet(powers) ==
    IncrementProposerPriority(
        UpdateWithChangeSet([Validators |-> <<>>, Proposer |-> None, totalVotingPower |-> 0], powers))

=============================================================================
