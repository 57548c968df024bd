------------------------------ MODULE ForkRules ------------------------------
(***************************************************************************)
(* The rules by which a chain of headers is accepted: the checks of        *)
(* whitelist/service.go and milestone.go, and the fork choice of           *)
(* core/forkchoice.go.  A block stands for its hash; a chain is a sequence *)
(* of linked blocks.  The block tree is a constant.                        *)
(***************************************************************************)
EXTENDS MilestoneRules, Integers, SequencesExt

CONSTANTS Genesis,       \* the root of the tree
          parent,        \* the parent of every other block
          number,        \* the block numbers
          td,            \* total difficulty
          rank,          \* the order of the hashes
          Preserved      \* blocks mined here

Blocks == DOMAIN number

\* The chain from the genesis block to b.
ChainTo[b \in Blocks] == IF b = Genesis THEN <<b>> ELSE Append(ChainTo[parent[b]], b)

Ancestors(b) == Elements(ChainTo[b])

\* The block of that number on the chain that ends in b.
AtHeight(b, n) == IF n <= number[b] THEN ChainTo[b][n + 1] ELSE NoHash

\* GetBlocksFromHash, reversed: the last n blocks of the chain that ends in b,
\* fewer where the chain is shorter.
LastBlocks(b, n) == SubSeq(ChainTo[b], IF n > number[b] THEN 1 ELSE number[b] + 2 - n, number[b] + 1)

-----------------------------------------------------------------------------


\* splitChain: the part of the chain up to the current number.
PastChain(current, chain) ==
    LET first == number[Head(chain)]
    IN  IF current < first THEN <<>>
        ELSE IF Len(chain) = 1 \/ current >= number[Last(chain)] THEN chain
        ELSE SubSeq(chain, 1, current - first + 1)

\* isValidChain against an entry.
IsValidChain(current, chain, e) ==
    \/ ~e.doExist
    \/ number[Last(chain)] < e.Number /\ current < e.Number
    \/ /\ number[Last(chain)] >= e.Number
       /\ \A b \in Elements(PastChain(current, chain)) : number[b] = e.Number => b = e.Hash

\* IsReorgAllowed for the locked sprint.
IsReorgAllowed(chain, lk) ==
    /\ number[Last(chain)] > lk.Number
    /\ \A b \in Elements(chain) : number[b] = lk.Number => b = lk.Hash

\* IsFutureMilestoneCompatible looks at the last queued milestone that has a
\* block in the chain.
IsFutureMilestoneCompatible(chain, fut) ==
    \A i \in DOMAIN fut.Order, b \in Elements(chain) :
        \/ number[b] # fut.Order[i]
        \/ b = fut.List[fut.Order[i]]
        \/ \E j \in DOMAIN fut.Order, c \in Elements(chain) : j > i /\ number[c] = fut.Order[j]

\* milestone.IsValidChain
MilestoneAccepts(current, chain, m) ==
    /\ IsValidChain(current, chain, m.fin)
    /\ m.lock.Locked => IsReorgAllowed(chain, m.lock)
    /\ IsFutureMilestoneCompatible(chain, m.future)

-----------------------------------------------------------------------------

\* checkForkCorrectness uses the checkpoint only where it is the newer entry.
Newest(m, c) ==
    IF c.doExist /\ (~m.doExist \/ c.Number > m.Number) THEN c ELSE m

\* The chain starts too far above the last block known to be valid.
TooFar(chain, e, last, limit) ==
    LET known == IF last > e.Number THEN last ELSE e.Number
    IN  number[Head(chain)] > known + limit

\* The walk from the parent of the chain down to the whitelisted number: it
\* ends at the first block that is cached, missing, or has that number.
WalkEnd(chain, e, cached, stored) ==
    LET below == Ancestors(Head(chain)) \ {Head(chain)}
        ends  == {p \in below : p \in cached \/ p \notin stored \/ number[p] = e.Number}
    IN  CHOOSE p \in ends : \A q \in ends : number[q] <= number[p]

\* The blocks the walk leaves behind, and the chain itself.
Walked(chain, e, cached, stored) ==
    Elements(chain) \cup
        {p \in Ancestors(Head(chain)) : number[p] > number[WalkEnd(chain, e, cached, stored)]}

\* ReorgNeeded
ReorgNeeded(current, extern) ==
    \/ td[extern] > td[current]
    \/ /\ td[extern] = td[current]
       /\ \/ number[extern] < number[current]
          \/ /\ number[extern] = number[current]
             /\ current \notin Preserved
             /\ extern \in Preserved \/ rank[current] < rank[extern]

=============================================================================
