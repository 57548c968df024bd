------------------------------ MODULE Finality ------------------------------
(***************************************************************************)
(* Block import against the whitelist while milestones and checkpoints are *)
(* being whitelisted.  Three goroutines: the import of one chain of blocks *)
(* (core/blockchain.go, under chainmu), the milestone loop (eth/backend.go,*)
(* handler_bor.go, bor_checkpoint_verifier.go), which may rewind and       *)
(* reinsert blocks itself, and the checkpoint loop; besides votes over     *)
(* RPC.  Each step below is one critical section or one read of shared     *)
(* state.  Every stored block has its state; header and body verification  *)
(* succeed.  The database of the whitelist is left out (see Whitelist).    *)
(***************************************************************************)
EXTENDS ForkRules

CONSTANTS Milestones,      \* milestones in the order heimdall finalises them
          Checkpoints,     \* end blocks of the checkpoints
          Sources,         \* last blocks of the chains peers offer
          MaxImport,       \* bound on the length of an offered chain
          MaxVotes,        \* bound on votes
          MaxRounds,       \* bound on the rounds of the checkpoint loop
          TipOffset,       \* tipConfirmationOffset
          MaxRewindLen,    \* maxRewindLen
          ForkLimit,       \* maxForkCorrectnessLimit
          Word,            \* 2^64, scaled down
          MayLag,          \* heimdall may answer with an older milestone
          RewindMayFail    \* SetHead may return an error

ASSUME FinalityAssumption ==
    /\ Hashes = Blocks
    /\ NoHash \notin Blocks
    /\ number[Genesis] = 0
    /\ \A b \in Blocks \ {Genesis} :
          /\ parent[b] \in Blocks
          /\ number[b] = number[parent[b]] + 1
          /\ td[b] > td[parent[b]]
    /\ \A m \in Elements(Milestones) : number[m.hash] = m.end /\ m.start \in 1 .. m.end

VARIABLES stored,      \* blocks in the database
          head,        \* CurrentBlock
          mem,         \* the milestone service
          cp,          \* the checkpoint entry
          cache,       \* forkValidationCache
          lastValid,   \* lastValidForkBlock
          latest,      \* how many milestones heimdall has finalised
          imp,         \* the import in progress
          ms,          \* the milestone loop
          cl,          \* the checkpoint loop
          vote         \* the vote in progress, and how many began

chainVars == <<stored, head>>

entryVars == <<mem, cp>>

forkVars == <<cache, lastValid>>

vars == <<stored, head, mem, cp, cache, lastValid, latest, imp, ms, cl, vote>>

Canonical(n) == AtHeight(head, n)

Entry == Newest(mem.fin, cp)

\* A block at or above the entry descends from it.
Honours(b, e) == (e.doExist /\ number[b] >= e.Number) => e.Hash \in Ancestors(b)

\* History: whether the entries have not changed since the import began (steady)
\* and since its last check began (fresh), and whether no fork check was skipped
\* or relied on cached blocks of another fork (sound).
NoImport == [pc |-> "idle", by |-> "none", chain |-> <<>>, at |-> 0, entry |-> NoEntry,
             steady |-> TRUE, fresh |-> TRUE, sound |-> TRUE]

NoMilestone == [pc |-> "idle", m |-> 0, head |-> 0, to |-> 0, attested |-> FALSE,
                chain |-> <<>>, err |-> "none"]

NoCheckpoint == [pc |-> "idle", n |-> 0, b |-> NoHash, rounds |-> 0]

Init ==
    /\ stored = {Genesis} /\ head = Genesis
    /\ mem = [fin |-> NoEntry, lock |-> NoLock, future |-> NoFuture]
    /\ cp = NoEntry
    /\ cache = {} /\ lastValid = 0
    /\ latest = 0
    /\ imp = NoImport
    /\ ms = NoMilestone
    /\ cl = NoCheckpoint
    /\ vote = [b |-> NoHash, count |-> 0]

-----------------------------------------------------------------------------
(* Import.  imp.at is 0 for the check of the whole chain, i for the check  *)
(* of block i just before it is written.                                   *)

ChainMuFree == imp.pc = "idle"

\* An entry may change under an import.
EntryChanges ==
    LET same == ChainMuFree \/ UNCHANGED <<mem.fin, cp>>
    IN  imp' = [imp EXCEPT !.steady = @ /\ same, !.fresh = @ /\ same]

BeginImport(by, chain) ==
    /\ ChainMuFree
    /\ imp' = [NoImport EXCEPT !.pc = "checkpoint", !.by = by, !.chain = chain]

\* A peer offers the last n blocks of the chain to b.
Offer(b, n) ==
    /\ n <= number[b]
    /\ BeginImport("peer", LastBlocks(b, n))
    /\ UNCHANGED <<chainVars, entryVars, forkVars, latest, ms, cl, vote>>

PeerImport == \E b \in Sources, n \in 1 .. MaxImport : Offer(b, n)

\* The whole chain of the last milestone, as the downloader offers it.
Sync == Offer(Last(Milestones).hash, Last(Milestones).end)

\* What ValidateReorg is asked about.
Segment == IF imp.at = 0 THEN imp.chain ELSE <<imp.chain[imp.at]>>

Current == IF imp.at = 0 THEN number[head] ELSE number[imp.chain[imp.at]]

\* The import ends, and the milestone loop goes on if it was the caller.
EndImport(ok) ==
    /\ imp' = NoImport
    /\ ms' = IF imp.by = "milestone"
             THEN [ms EXCEPT !.pc = IF ok THEN "canonical" ELSE "purge"] ELSE ms

Goto(pc) == imp' = [imp EXCEPT !.pc = pc] /\ UNCHANGED ms

OnceAccepted == IF imp.at = 0 THEN "known" ELSE "write"

\* checkpoint.IsValidChain, then milestone.IsValidChain, each under its lock.
CheckCheckpoint ==
    /\ imp.pc = "checkpoint"
    /\ IF IsValidChain(Current, Segment, cp)
       THEN imp' = [imp EXCEPT !.pc = "milestone", !.fresh = TRUE] /\ UNCHANGED ms
       ELSE EndImport(FALSE)
    /\ UNCHANGED <<chainVars, entryVars, forkVars, latest, cl, vote>>

CheckMilestone ==
    /\ imp.pc = "milestone"
    /\ IF MilestoneAccepts(Current, Segment, mem) THEN Goto("entry") ELSE EndImport(FALSE)
    /\ UNCHANGED <<chainVars, entryVars, forkVars, latest, cl, vote>>

\* checkForkCorrectness reads the two entries and lastValidForkBlock ...
GetMilestone ==
    /\ imp.pc = "entry"
    /\ imp' = [imp EXCEPT !.pc = "newest", !.entry = mem.fin]
    /\ UNCHANGED <<chainVars, entryVars, forkVars, latest, ms, cl, vote>>

GetCheckpoint ==
    /\ imp.pc = "newest"
    /\ LET e == Newest(imp.entry, cp)
           far == e.doExist /\ TooFar(Segment, e, lastValid, ForkLimit)
       IN  imp' = IF ~e.doExist \/ far
                  THEN [imp EXCEPT !.pc = OnceAccepted, !.sound = @ /\ ~far]
                  ELSE [imp EXCEPT !.pc = "fork", !.entry = e]
    /\ UNCHANGED <<chainVars, entryVars, forkVars, latest, ms, cl, vote>>

\* ... and then walks back under the lock of the cache.
ForkCheck ==
    /\ imp.pc = "fork"
    /\ LET e    == imp.entry
           stop == WalkEnd(Segment, e, cache, stored)
       IN  IF number[Head(Segment)] <= e.Number
           THEN Goto(OnceAccepted) /\ UNCHANGED forkVars
           ELSE \/ /\ stop \in cache \/ (stop \in stored /\ stop = e.Hash)
                   /\ cache' = cache \cup Walked(Segment, e, cache, stored)
                   /\ lastValid' = number[Last(Segment)]
                   /\ imp' = [imp EXCEPT !.pc = OnceAccepted,
                                         !.sound = @ /\ \A b \in cache : Honours(b, e)]
                   /\ UNCHANGED ms
                \/ /\ stop \notin cache \cup stored
                   /\ Goto(OnceAccepted)
                   /\ UNCHANGED forkVars
                \/ /\ stop \in stored \ cache /\ stop # e.Hash
                   /\ EndImport(FALSE)
                   /\ UNCHANGED forkVars
    /\ UNCHANGED <<chainVars, entryVars, latest, cl, vote>>

\* Mutant: the first new block is taken without its parent.
MissingParentNever(b) == FALSE

\* ValidateBody refuses a block whose parent is not stored.
MissingParent(b) == parent[b] \notin stored

\* A known block that would not become the head is skipped; from the first that
\* would, the known blocks are made canonical without another check.
KnownBlocks ==
    LET ch == imp.chain
        Ignored(i) ==
            /\ ch[i] \in stored
            /\ ReorgNeeded(head, ch[i]) =>
                  number[ch[i]] <= number[head] /\ ch[i] = Canonical(number[ch[i]])
        First(P(_)) == CHOOSE i \in 1 .. Len(ch) + 1 :
                          (i <= Len(ch) => ~P(i)) /\ \A j \in 1 .. (i - 1) : P(j)
        Passed(i) == i < First(Ignored) \/ ch[i] \in stored
        new == First(Passed)
    IN  /\ imp.pc = "known"
        /\ head' = IF new > First(Ignored) THEN ch[new - 1] ELSE head
        /\ IF new > Len(ch) THEN EndImport(TRUE)
           ELSE IF MissingParent(ch[new]) THEN EndImport(FALSE)
           ELSE imp' = [imp EXCEPT !.pc = "checkpoint", !.at = new] /\ UNCHANGED ms
        /\ UNCHANGED <<stored, entryVars, forkVars, latest, cl, vote>>

\* writeBlockAndSetHead
WriteBlock ==
    LET b == imp.chain[imp.at]
    IN  /\ imp.pc = "write"
        /\ stored' = stored \cup {b}
        /\ head' = IF ReorgNeeded(head, b) THEN b ELSE head
        /\ IF imp.at = Len(imp.chain) THEN EndImport(TRUE)
           ELSE imp' = [imp EXCEPT !.pc = "checkpoint", !.at = @ + 1] /\ UNCHANGED ms
        /\ UNCHANGED <<entryVars, forkVars, latest, cl, vote>>

ImportStep ==
    CheckCheckpoint \/ CheckMilestone \/ GetMilestone \/ GetCheckpoint \/ ForkCheck
       \/ KnownBlocks \/ WriteBlock

-----------------------------------------------------------------------------
(* The milestone loop: fetch, borVerify, handleMilestone.                  *)

\* External: heimdall finalises the next milestone.
NewMilestone ==
    /\ latest < Len(Milestones)
    /\ latest' = latest + 1
    /\ UNCHANGED <<chainVars, entryVars, forkVars, imp, ms, cl, vote>>

Fetch ==
    /\ ms.pc = "idle"
    /\ \E k \in 1 .. latest :
          /\ MayLag \/ k = latest
          /\ ms' = [NoMilestone EXCEPT !.pc = "head", !.m = k]
    /\ UNCHANGED <<chainVars, entryVars, forkVars, latest, imp, cl, vote>>

M == Milestones[ms.m]

\* borVerify reads the head, then the canonical block at the end of the milestone.
ReadHead ==
    /\ ms.pc = "head"
    /\ ms' = IF number[head] < M.end THEN [ms EXCEPT !.pc = "unlock", !.err = "outOfSync"]
             ELSE [ms EXCEPT !.pc = "block", !.head = number[head]]
    /\ UNCHANGED <<chainVars, entryVars, forkVars, latest, imp, cl, vote>>

ReadBlock ==
    /\ ms.pc = "block"
    /\ ms' = IF Canonical(M.end) = NoHash THEN [ms EXCEPT !.pc = "unlock", !.err = "endBlock"]
             ELSE [ms EXCEPT !.pc = IF Canonical(M.end) = M.hash THEN "process" ELSE "anchor"]
    /\ UNCHANGED <<chainVars, entryVars, forkVars, latest, imp, cl, vote>>

\* findCommonAncestorWithFutureMilestones
CommonAncestor ==
    LET fut == mem.future
        matches == {i \in DOMAIN fut.Order :
                       fut.Order[i] < M.end /\ Canonical(fut.Order[i]) = fut.List[fut.Order[i]]}
        Lower(n, target) == IF n < M.end /\ n > 0 /\ n < target THEN n - 1 ELSE target
    IN  IF Canonical(M.end) = M.hash THEN [to |-> M.end, attested |-> TRUE]
        ELSE IF matches # {} THEN [to |-> fut.Order[Max(matches)], attested |-> TRUE]
        ELSE [to |-> FoldRight(Lower, fut.Order, M.start - 1), attested |-> FALSE]

\* Where to rewind: to the whitelisted milestone or to a queued one the local
\* chain agrees with, otherwise to a block nothing attests.
Target ==
    LET fin == mem.fin
    IN  IF fin.doExist /\ fin.Number < M.end /\ Canonical(fin.Number) = fin.Hash
        THEN [to |-> fin.Number, attested |-> TRUE]
        ELSE IF CommonAncestor.attested /\ CommonAncestor.to < M.end THEN CommonAncestor
        ELSE [to |-> IF fin.doExist THEN fin.Number ELSE CommonAncestor.to, attested |-> FALSE]

\* uint64 subtraction
Minus(a, b) == (a - b) % Word

\* Mutant: a target is not clamped.
ClampedNot(t) == t

\* Mutant: the window is one block too long.
ClampedWide(t) ==
    IF Minus(ms.head, t.to) >= MaxRewindLen
    THEN [to |-> Minus(ms.head, MaxRewindLen + 1), attested |-> FALSE] ELSE t

\* The target is kept within MaxRewindLen of the head; then it is not attested.
Clamped(t) ==
    IF Minus(ms.head, t.to) > MaxRewindLen
    THEN [to |-> Minus(ms.head, MaxRewindLen), attested |-> FALSE] ELSE t

\* A hash mismatch: where to rewind ...
Anchor ==
    /\ ms.pc = "anchor"
    /\ LET t == Clamped(Target)
       IN  ms' = [ms EXCEPT !.pc = "blocks", !.err = "mismatch", !.to = t.to, !.attested = t.attested]
    /\ UNCHANGED <<chainVars, entryVars, forkVars, latest, imp, cl, vote>>

\* ... the blocks of the milestone above that, where all of them are stored ...
CanonicalChain ==
    LET length == Minus(M.end, ms.to)
        blocks == IF M.hash \notin stored \/ length >= Word \div 2 THEN <<>>
                  ELSE LastBlocks(M.hash, length)
    IN  IF Len(blocks) = length THEN blocks ELSE <<>>

\* ... and whether to rewind: where there are blocks to go on with or the target
\* is attested.
Decide ==
    /\ ms.pc = "blocks"
    /\ LET rewinds == CanonicalChain # <<>>
                         \/ (ms.attested /\ Minus(ms.head, ms.to) <= MaxRewindLen)
       IN  ms' = [ms EXCEPT !.pc = IF rewinds THEN "rewind" ELSE "unlock", !.chain = CanonicalChain]
    /\ UNCHANGED <<chainVars, entryVars, forkVars, latest, imp, cl, vote>>

\* SetHead drops every block above the target, side chains included.
Rewind ==
    /\ ms.pc = "rewind"
    /\ ChainMuFree
    /\ \/ /\ head' = IF ms.to < number[head] THEN Canonical(ms.to) ELSE head
          /\ stored' = IF ms.to < number[head] THEN {b \in stored : number[b] <= ms.to} ELSE stored
          /\ ms' = [ms EXCEPT !.pc = IF ms.chain = <<>> THEN "purge" ELSE "insert"]
       \/ /\ RewindMayFail
          /\ ms' = [ms EXCEPT !.pc = "unlock"]
          /\ UNCHANGED chainVars
    /\ UNCHANGED <<entryVars, forkVars, latest, imp, cl, vote>>

\* insertFinalized: InsertChain, and SetCanonical where it succeeded.
InsertFinalized ==
    /\ ms.pc = "insert"
    /\ BeginImport("milestone", ms.chain)
    /\ ms' = [ms EXCEPT !.pc = "inserting"]
    /\ UNCHANGED <<chainVars, entryVars, forkVars, latest, cl, vote>>

SetCanonical ==
    /\ ms.pc = "canonical"
    /\ ChainMuFree
    /\ head' = Last(ms.chain)
    /\ ms' = [ms EXCEPT !.pc = "purge"]
    /\ UNCHANGED <<stored, entryVars, forkVars, latest, imp, cl, vote>>

\* PurgeMilestonesAfter: the entries, the cache, lastValidForkBlock.
PurgeEntries ==
    /\ ms.pc = "purge"
    /\ mem' = PurgedMem(mem, ms.to)
    /\ ms' = [ms EXCEPT !.pc = "clear"]
    /\ UNCHANGED <<chainVars, cp, forkVars, latest, cl, vote>>
    /\ EntryChanges

ClearCache ==
    /\ ms.pc = "clear"
    /\ cache' = {}
    /\ ms' = [ms EXCEPT !.pc = "cap"]
    /\ UNCHANGED <<chainVars, entryVars, lastValid, latest, imp, cl, vote>>

CapLastValid ==
    /\ ms.pc = "cap"
    /\ lastValid' = IF lastValid > ms.to THEN ms.to ELSE lastValid
    /\ ms' = [ms EXCEPT !.pc = "unlock"]
    /\ UNCHANGED <<chainVars, entryVars, cache, latest, imp, cl, vote>>

\* handleMilestone after an error: UnlockSprint, and the future list where the
\* chain is behind or disagrees.
UnlockSprint ==
    /\ ms.pc = "unlock"
    /\ mem' = [mem EXCEPT !.lock = Unlocked(@, M.end)]
    /\ ms' = IF ms.err = "endBlock" THEN NoMilestone ELSE [ms EXCEPT !.pc = "future"]
    /\ UNCHANGED <<chainVars, cp, forkVars, latest, imp, cl, vote>>

QueueMilestone ==
    /\ ms.pc = "future"
    /\ mem' = FutureMem(mem, M.end, M.hash)
    /\ ms' = NoMilestone
    /\ UNCHANGED <<chainVars, cp, forkVars, latest, imp, cl, vote>>

\* ProcessMilestone: the entry, then the cache.
ProcessMilestone ==
    /\ ms.pc = "process"
    /\ mem' = ProcessMem(mem, M.end, M.hash)
    /\ ms' = [ms EXCEPT !.pc = "reset"]
    /\ UNCHANGED <<chainVars, cp, forkVars, latest, cl, vote>>
    /\ EntryChanges

ResetCache ==
    /\ ms.pc = "reset"
    /\ cache' = {}
    /\ ms' = NoMilestone
    /\ UNCHANGED <<chainVars, entryVars, lastValid, latest, imp, cl, vote>>

MilestoneStep ==
    ReadHead \/ ReadBlock \/ Anchor \/ Decide \/ Rewind \/ InsertFinalized \/ SetCanonical
       \/ PurgeEntries \/ ClearCache \/ CapLastValid \/ UnlockSprint \/ QueueMilestone
       \/ ProcessMilestone \/ ResetCache

-----------------------------------------------------------------------------
(* The checkpoint loop: a checkpoint the local chain disagrees with, or has *)
(* not reached, is dropped.                                                 *)

VerifyCheckpoint ==
    /\ cl.pc = "idle" /\ cl.rounds < MaxRounds
    /\ \E b \in Checkpoints :
          /\ Canonical(number[b]) = b
          /\ cl' = [cl EXCEPT !.pc = "end", !.n = number[b], !.rounds = @ + 1]
    /\ UNCHANGED <<chainVars, entryVars, forkVars, latest, imp, ms, vote>>

\* The root hash agreed; the end block is read again.
ReadEndBlock ==
    /\ cl.pc = "end"
    /\ cl' = [cl EXCEPT !.pc = "process", !.b = Canonical(cl.n)]
    /\ UNCHANGED <<chainVars, entryVars, forkVars, latest, imp, ms, vote>>

ProcessCheckpoint ==
    /\ cl.pc = "process"
    /\ cp' = [doExist |-> TRUE, Number |-> cl.n, Hash |-> cl.b]
    /\ cl' = [cl EXCEPT !.pc = "reset"]
    /\ UNCHANGED <<chainVars, mem, forkVars, latest, ms, vote>>
    /\ EntryChanges

ResetCheckpointCache ==
    /\ cl.pc = "reset"
    /\ cache' = {}
    /\ cl' = [NoCheckpoint EXCEPT !.rounds = cl.rounds]
    /\ UNCHANGED <<chainVars, entryVars, lastValid, latest, imp, ms, vote>>

CheckpointStep == VerifyCheckpoint \/ ReadEndBlock \/ ProcessCheckpoint \/ ResetCheckpointCache

-----------------------------------------------------------------------------
(* GetVoteOnHash reads the local block, then takes the lock.               *)

BeginVote ==
    /\ vote.b = NoHash /\ vote.count < MaxVotes
    /\ \E n \in 1 .. number[head] :
          /\ Canonical(n + TipOffset) # NoHash
          /\ vote' = [b |-> Canonical(n), count |-> vote.count + 1]
    /\ UNCHANGED <<chainVars, entryVars, forkVars, latest, imp, ms, cl>>

EndVote ==
    /\ vote.b # NoHash
    /\ \/ \E id \in IDs : mem' = VotedMem(mem, id, number[vote.b], vote.b)
       \/ UNCHANGED mem
    /\ vote' = [vote EXCEPT !.b = NoHash]
    /\ UNCHANGED <<chainVars, cp, forkVars, latest, imp, ms, cl>>

-----------------------------------------------------------------------------

Next ==
    \/ PeerImport \/ Sync \/ ImportStep
    \/ NewMilestone \/ Fetch \/ MilestoneStep
    \/ CheckpointStep
    \/ BeginVote \/ EndVote

Spec == Init /\ [][Next]_vars

\* The loops keep running and get chainmu in turn; a peer keeps offering the
\* chain of the last milestone, and in the end no other chain is offered.
Fairness ==
    /\ WF_vars(ImportStep)
    /\ WF_vars(Fetch)
    /\ SF_vars(MilestoneStep)
    /\ SF_vars(Sync)
    /\ <>[][~PeerImport]_vars

FairSpec == Spec /\ Fairness

-----------------------------------------------------------------------------

\* The ancestors of a stored block are stored, through side chains, rewinds and
\* reinsertions: the walk of checkForkCorrectness for a chain whose parent is
\* stored meets no missing block, which it would accept blindly.
StoredClosed == \A b \in stored : Ancestors(b) \subseteq stored

Displaces == Entry.Hash \in Ancestors(head) /\ Entry.Hash \notin Ancestors(head')


\* What insertChain says of the check before a write: it prevents the race with
\* an entry whitelisted while the block was executing.
FreshCheckProtects ==
    [][(imp.pc = "write" /\ imp' # imp /\ imp.fresh /\ imp.sound)
          => ~Displaces]_vars

\* A rewind goes below the block the milestone disagrees with and stays within
\* MaxRewindLen of the head it was computed from.
RewindInWindow ==
    ms.pc = "rewind" => ms.to < M.end /\ ms.to <= ms.head /\ ms.head - ms.to <= MaxRewindLen

\* A rewind never drops the whitelisted milestone from the canonical chain.
RewindKeepsMilestone ==
    [][(ms.pc = "rewind" /\ ms' # ms /\ mem.fin.doExist /\ mem.fin.Hash \in Ancestors(head))
          => mem.fin.Hash \in Ancestors(head')]_vars


\* A lock at or below a finalised milestone is released.
StaleLockReleased ==
    \A k \in DOMAIN Milestones :
        LET Stale == mem.lock.Locked /\ mem.lock.Number <= Milestones[k].end
        IN  latest >= k /\ Stale ~> ~Stale

=============================================================================
