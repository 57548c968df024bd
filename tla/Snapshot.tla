------------------------------ MODULE Snapshot ------------------------------
(***************************************************************************)
(* The snapshots of the validator set that bor verifies seals with         *)
(* (consensus/bor/snapshot.go and Bor.snapshot): computed by applying the  *)
(* headers of a chain to an earlier snapshot, kept in a cache that forgets *)
(* and, at checkpoints, on disk.  A block is the sequence of headers that  *)
(* leads to it, which is what its hash stands for.  A header has a signer  *)
(* and, at the end of a sprint, the powers of the validators in its extra  *)
(* data.                                                                   *)
(***************************************************************************)
EXTENDS ValidatorSet, Sequences, SequencesExt

CONSTANTS Setups,               \* records: length, lists, signers, reorgs, queries (of which blocks), rio
          Producers,            \* the selected producers of the span, after Rio
          Sprint,               \* blocks of a sprint
          checkpointInterval,
          Slack                 \* turns by which a share may be off

ASSUME SnapshotAssumption == Sprint > 0 /\ checkpointInterval > 0

VARIABLES budget,      \* the setup, with the reorganisations it has left
          genesis,     \* the validators of the first span
          chain,       \* the headers of the node's chain, with those it verifies
          history,     \* the validator set after each block of it, from genesis on, None after a bad seal
          recents,     \* the cache: from blocks to validator sets
          db           \* the snapshots on disk

vars == <<budget, genesis, chain, history, recents, db>>

-----------------------------------------------------------------------------

Overwritten(f, x, y) == (x :> y) @@ f

\* The validators of the set already have their new powers when the change set
\* reaches UpdateWithChangeSet; its error is only logged.
RePowered(v, newVals) ==
    [v EXCEPT !.Validators = [a \in Addresses(v) |->
        [v.Validators[a] EXCEPT !.VotingPower = IF a \in DOMAIN newVals THEN newVals[a] ELSE 0]]]

Changes(v, newVals) ==
    [a \in Addresses(v) \cup DOMAIN newVals |-> IF a \in DOMAIN newVals THEN newVals[a] ELSE 0]

getUpdatedValidatorSet(v, newVals) == UpdateWithChangeSet(RePowered(v, newVals), Changes(v, newVals))

IsSprintEnd(n) == (n + 1) % Sprint = 0

\* The checks of one header: its signer and the proposer are validators.
Authorized(v, header) == {header.signer, GetProposer(v)} \subseteq Addresses(v)

\* One header of Snapshot.apply: block n.  An error, None, stays one.
ApplyHeader(v, n, header) ==
    IF v = None \/ ~Authorized(v, header) THEN None
    ELSE IF IsSprintEnd(n) THEN IncrementProposerPriority(getUpdatedValidatorSet(v, header.validators))
    ELSE v

\* Snapshot.apply: the headers after the first from ones of block b.
Apply(v, b, from) ==
    FoldLeft(LAMBDA w, n : ApplyHeader(w, n, b[n]), v, [i \in 1..(Len(b) - from) |-> from + i])

\* Mutant: the proposer is not stored.
StoredWithoutProposer(v) == [Validators |-> v.Validators, Proposer |-> None]

\* Snapshot.store: the cached total has no name in JSON.
Stored(v) == [Validators |-> v.Validators, Proposer |-> v.Proposer]

\* loadSnapshot, which sums the powers again; an error is as if nothing were stored.
Loaded(s) == [Validators |-> s.Validators, Proposer |-> s.Proposer, totalVotingPower |-> SumOf(s)]
Loadable(s) == SumOf(s) <= MaxTotalVotingPower

\* Whether block n is of the Rio fork.
IsRio(n) == n >= budget.rio

Ancestor(b, n) == SubSeq(b, 1, n)

\* The place of an address in the list.
IndexOf(v, a) == Cardinality({b \in Addresses(v) : b < a})

\* Mutant: counted from the start of the list.
SuccessionNotWrapped(v, signer) ==
    LET p == IndexOf(v, GetProposer(v))
        i == IndexOf(v, signer)
    IN  IF i < p THEN p - i ELSE i - p

\* How many turns after the proposer the signer comes.
GetSignerSuccessionNumber(v, signer) ==
    LET p == IndexOf(v, GetProposer(v))
        i == IndexOf(v, signer)
    IN  (IF i < p THEN i + Cardinality(Addresses(v)) ELSE i) - p

Difficulty(v, signer) ==
    LET n == Cardinality(Addresses(v))
        p == IndexOf(v, GetProposer(v))
        i == IndexOf(v, signer)
    IN  n - ((IF i < p THEN i + n ELSE i) - p)

-----------------------------------------------------------------------------

Init == /\ budget \in Setups
        /\ genesis \in budget.lists
        /\ chain = <<>>
        /\ history = <<NewValidatorSet(genesis)>>
        /\ recents = <<>> /\ db = <<>>

\* A header follows, which need not be verified yet: Bor.snapshot also gets the
\* unverified parents of a batch.  Heimdall's powers stay far below the limit, with
\* those of the validators that leave counted too.
Extend(header) ==
    LET n == Len(chain) + 1
        v == Last(history)
    IN  /\ n <= budget.length
        /\ IF IsSprintEnd(n) /\ ~IsRio(n)
           THEN /\ header.validators # <<>>
                /\ v # None => ~Refused(RePowered(v, header.validators), Changes(v, header.validators))
           ELSE header.validators = <<>>
        /\ chain' = Append(chain, header)
        /\ history' = Append(history, IF IsRio(n) THEN NewValidatorSet(Producers) ELSE ApplyHeader(v, n, header))
        /\ UNCHANGED <<budget, genesis, recents, db>>

\* The chain goes back to an ancestor.
Reorg(n) ==
    /\ budget.reorgs > 0 /\ n < Len(chain)
    /\ budget' = [budget EXCEPT !.reorgs = @ - 1]
    /\ chain' = Ancestor(chain, n)
    /\ history' = SubSeq(history, 1, n + 1)
    /\ UNCHANGED <<genesis, recents, db>>

OnDisk(n) ==
    n % checkpointInterval = 0 /\ Ancestor(chain, n) \in DOMAIN db /\ Loadable(db[Ancestor(chain, n)])

Known(n) == Ancestor(chain, n) \in DOMAIN recents \/ OnDisk(n)

Found(n) == IF Ancestor(chain, n) \in DOMAIN recents THEN recents[Ancestor(chain, n)]
            ELSE Loaded(db[Ancestor(chain, n)])

\* The block the walk back from n ends at.
Start(n) == Max({m \in 0..n : m = 0 \/ Known(m)})

\* Bor.snapshot for a block before Rio whose parent is block n.  Either write to disk
\* may fail: the first before anything is cached, the second after it.
SnapshotBefore(n) ==
    LET start == Start(n)
        fresh == ~Known(start)
        base == IF fresh THEN NewValidatorSet(genesis) ELSE Found(start)
        block == Ancestor(chain, n)
        snap == Apply(base, block, start)
        db1 == IF fresh THEN Overwritten(db, <<>>, Stored(base)) ELSE db
        due == n > start /\ n % checkpointInterval = 0
    IN  \/ /\ fresh
           /\ UNCHANGED <<recents, db>>
        \/ /\ snap = None
           /\ db' = db1
           /\ UNCHANGED recents
        \/ /\ snap # None
           /\ recents' = Overwritten(recents, block, snap)
           /\ db' = IF due THEN Overwritten(db1, block, Stored(snap)) ELSE db1
        \/ /\ snap # None /\ due
           /\ recents' = Overwritten(recents, block, snap)
           /\ db' = db1

\* Bor.getVeBlopSnapshot for block n.
VeBlopSnapshot(n) ==
    /\ recents' = Overwritten(recents, Ancestor(chain, n), NewValidatorSet(Producers))
    /\ UNCHANGED db

\* A caller asks for the snapshot to verify block n, or to prepare it.
Query(n) ==
    /\ n \in budget.queries
    /\ IF ~IsRio(n) THEN SnapshotBefore(n - 1) ELSE n <= Len(chain) /\ VeBlopSnapshot(n)
    /\ UNCHANGED <<budget, genesis, chain, history>>

\* An entry of the cache expires.
Expire(b) ==
    /\ recents' = [c \in DOMAIN recents \ {b} |-> recents[c]]
    /\ UNCHANGED <<budget, genesis, chain, history, db>>

Restart ==
    /\ recents # <<>>
    /\ recents' = <<>>
    /\ UNCHANGED <<budget, genesis, chain, history, db>>

Next == \/ \E s \in budget.signers, vals \in budget.lists \cup {<<>>} : Extend([signer |-> s, validators |-> vals])
        \/ \E n \in 0..Len(chain) : Reorg(n)
        \/ \E n \in 1..(Len(chain) + 1) : Query(n)
        \/ \E b \in DOMAIN recents : Expire(b)
        \/ Restart

Spec == Init /\ [][Next]_vars

-----------------------------------------------------------------------------

Sets == {history[i] : i \in DOMAIN history} \ {None}

\* Wherever a snapshot was started from (the cache, a checkpoint on disk read back
\* after a restart, genesis), and whatever forks were visited in between, it is the
\* one that applying every header from genesis on gives, and there is none behind a
\* header with an unauthorized signer: what Bor.snapshot hands to seal verification
\* does not depend on the node's past.
SnapshotCanonical ==
    /\ \A b \in DOMAIN recents : IsPrefix(b, chain) => recents[b] = history[Len(b) + 1]
    /\ \A b \in DOMAIN db : IsPrefix(b, chain) => Loaded(db[b]) = history[Len(b) + 1]

\* No step of the arithmetic on a set leaves int64, from its merged validators on.
Exact(v) ==
    LET T == TotalVotingPower(v)
        r == RescalePriorities(v, PriorityWindowSizeFactor * T)
        s == ShiftByAvgProposerPriority(r)
        g == Grown(s)
    IN  /\ InInt64(Max(Priorities(v)) - Min(Priorities(v)) + PriorityWindowSizeFactor * T - 1)
        /\ \A a \in Addresses(v) :
              /\ InInt64(Priority(r, a) - AvgProposerPriority(r))
              /\ InInt64(Priority(s, a) + Power(s, a))
              /\ InInt64(Priority(g, a) - T)

\* With total powers up to an eighth of the range nothing is clipped and no difference
\* of priorities overflows, when a sprint's end updates a set and when it moves the
\* proposer, and the cached total that bounds them is the sum of the powers: the
\* comment on MaxTotalVotingPower leaves the proof to the reader.
NoClipping ==
    /\ \A v \in Sets : v.totalVotingPower = SumOf(v) /\ SumOf(v) <= MaxTotalVotingPower
    /\ \A n \in 1..Len(chain) :
          LET v == RePowered(history[n], chain[n].validators)
              changes == Changes(v, chain[n].validators)
              w == Merged(v, changes, UpdatedTotal(v, changes))
              x == [w EXCEPT !.totalVotingPower = SumOf(w)]
          IN  IsSprintEnd(n) /\ ~IsRio(n) /\ history[n] # None => Exact(x) /\ Exact(Centred(x))

\* No sprint end after block m changed a power; the ends that moved the proposer.
Steady(m) ==
    LET v == history[m + 1]
    IN  \A n \in (m + 1)..Len(chain) :
            /\ ~IsRio(n) /\ history[n + 1] # None
            /\ IsSprintEnd(n) => chain[n].validators = [a \in Addresses(v) |-> Power(v, a)]

Ends(m) == {n \in (m + 1)..Len(chain) : IsSprintEnd(n)}

\* While the powers stay as they are a validator proposes in proportion to its own:
\* however priorities stood before, its share of the sprints is never off by Slack
\* turns or more.
Proportional ==
    \A m \in 0..Len(chain) : history[m + 1] # None /\ Steady(m) =>
        \A a \in Addresses(history[m + 1]) :
            LET T == TotalVotingPower(history[m + 1])
                turns == Cardinality({n \in Ends(m) : history[n + 1].Proposer = a})
                due == Cardinality(Ends(m)) * Power(history[m + 1], a)
            IN  turns * T - due < Slack * T /\ due - turns * T < Slack * T

\* A validator that joins at the end of a sprint is not made its next proposer while
\* another stays, however powerful it is: leaving and coming back gains no turn.
NewcomerWaits ==
    \A n \in 1..Len(chain) :
        ~IsRio(n) /\ history[n + 1] # None /\ Addresses(history[n]) \cap Addresses(history[n + 1]) # {}
          => history[n + 1].Proposer \in Addresses(history[n])

\* In every set the signers have the difficulties 1 to the number of validators, each
\* once, the proposer the highest, and verifySeal's succession number ranks them the
\* same way: of two validators that sign the same block the one nearer its turn always
\* makes the heavier chain.
InTurnHeaviest ==
    \A v \in Sets :
        LET n == Cardinality(Addresses(v))
        IN  /\ v.Proposer \in Addresses(v)
            /\ {Difficulty(v, a) : a \in Addresses(v)} = 1..n
            /\ Difficulty(v, v.Proposer) = n
            /\ \A a \in Addresses(v) : GetSignerSuccessionNumber(v, a) = n - Difficulty(v, a)

=============================================================================
