--------------------------- MODULE MilestoneRules ---------------------------
(***************************************************************************)
(* The milestone object of eth/downloader/whitelist/milestone.go as a      *)
(* value m, what each of its methods makes of it, and what the method      *)
(* leaves in the database d.  A method runs under the finality mutex, so   *)
(* to other goroutines it is one step; on disk it is a sequence of writes. *)
(*                                                                         *)
(*   m.fin     the whitelisted entry (finality.go)                         *)
(*   m.lock    the sprint locked by a vote, with the ids that hold it      *)
(*   m.future  milestones the local chain has not reached, in order of     *)
(*             arrival: FutureMilestoneOrder and FutureMilestoneList       *)
(*                                                                         *)
(* The database has one record per key.  A missing lock reads as NoLock    *)
(* and a missing list as NoFuture; doExist says whether an entry is there. *)
(***************************************************************************)
EXTENDS Naturals, Sequences

CONSTANTS Hashes,        \* block hashes
          NoHash,        \* common.Hash{}
          IDs,           \* milestone ids
          MaxCapacity    \* of the future list

Entries == [doExist : BOOLEAN, Number : Nat, Hash : Hashes \cup {NoHash}]

Locks == [Locked : BOOLEAN, Number : Nat, Hash : Hashes \cup {NoHash}, IDs : SUBSET IDs]

NoEntry == [doExist |-> FALSE, Number |-> 0, Hash |-> NoHash]

NoLock == [Locked |-> FALSE, Number |-> 0, Hash |-> NoHash, IDs |-> {}]

NoFuture == [Order |-> <<>>, List |-> <<>>]

Elements(s) == {s[i] : i \in DOMAIN s}

-----------------------------------------------------------------------------

\* Mutant: a lock on the last block of the milestone is kept.
UnlockedStrict(lk, n) ==
    IF n <= lk.Number THEN lk ELSE [lk EXCEPT !.Locked = FALSE, !.IDs = {}]

\* unlockSprintLocked
Unlocked(lk, n) ==
    IF n < lk.Number THEN lk ELSE [lk EXCEPT !.Locked = FALSE, !.IDs = {}]

\* Mutant: the release is not written.
UnlockedDiskKept(lk, n, disk) == disk

\* The lock record after unlockSprintLocked: not written on the early return.
UnlockedDisk(lk, n, disk) == IF n < lk.Number THEN disk ELSE Unlocked(lk, n)

\* The future list once dequeueFutureMilestone has run k times.
Dequeued(fut, k) ==
    LET gone == {fut.Order[i] : i \in 1 .. k}
    IN  IF k = 0 THEN fut
        ELSE [Order |-> SubSeq(fut.Order, k + 1, Len(fut.Order)),
              List  |-> [n \in DOMAIN fut.List \ gone |-> fut.List[n]]]

\* The loop of Process removes the head of the list while its index advances:
\* before round i it has removed i entries, so it looks at the entry that was
\* at position 2i.  It ends when the index is past the end of what is left, or
\* at an entry above the block.
LoopEnds(order, block, i) == 2 * i >= Len(order) \/ order[2 * i + 1] > block


Rounds(order, block) ==
    CHOOSE k \in 0 .. Len(order) :
        LoopEnds(order, block, k) /\ \A i \in 0 .. (k - 1) : ~LoopEnds(order, block, i)

\* milestone.Process overwrites the entry whatever its number.
ProcessMem(m, n, h) ==
    [fin    |-> [doExist |-> TRUE, Number |-> n, Hash |-> h],
     lock   |-> Unlocked(m.lock, n),
     future |-> Dequeued(m.future, Rounds(m.future.Order, n))]

\* The database after Process has written the entry and i dequeued lists, and
\* when it is done.
ProcessDisk(m, d, n, h, i) ==
    [d EXCEPT !.milestone = [doExist |-> TRUE, Number |-> n, Hash |-> h],
              !.future    = IF i = 0 THEN @ ELSE Dequeued(m.future, i)]

ProcessDone(m, d, n, h) ==
    [ProcessDisk(m, d, n, h, Rounds(m.future.Order, n)) EXCEPT
        !.lock = UnlockedDisk(m.lock, n, @)]

-----------------------------------------------------------------------------

\* Mutant: the ids of the sprint locked before stay; none is added.
VotedMemNoID(m, id, n, h) ==
    [m EXCEPT !.lock = [Locked |-> TRUE, Number |-> n, Hash |-> h,
                        IDs |-> Unlocked(@, @.Number).IDs]]

\* UnlockMutex(true, id, n, h) releases the lock and takes it for n.
VotedMem(m, id, n, h) ==
    [m EXCEPT !.lock = [Locked |-> TRUE, Number |-> n, Hash |-> h,
                        IDs |-> Unlocked(@, @.Number).IDs \cup {id}]]

\* RemoveMilestoneID
RemovedMem(m, id) ==
    [m EXCEPT !.lock.IDs = @ \ {id}, !.lock.Locked = @ /\ m.lock.IDs \ {id} # {}]

-----------------------------------------------------------------------------

\* Mutant: a second milestone for the same block is queued again.
EnqueuedTwice(fut, n, h) ==
    IF Len(fut.Order) < MaxCapacity
    THEN [Order |-> Append(fut.Order, n),
          List  |-> [k \in DOMAIN fut.List \cup {n} |-> IF k = n THEN h ELSE fut.List[k]]]
    ELSE fut

\* enqueueFutureMilestoneLocked, called while the list is below its capacity.
Enqueued(fut, n, h) ==
    IF Len(fut.Order) < MaxCapacity /\ n \notin DOMAIN fut.List
    THEN [Order |-> Append(fut.Order, n),
          List  |-> [k \in DOMAIN fut.List \cup {n} |-> IF k = n THEN h ELSE fut.List[k]]]
    ELSE fut

\* processFutureMilestoneLocked
FutureMem(m, n, h) ==
    [m EXCEPT !.future = Enqueued(@, n, h), !.lock = Unlocked(@, n)]

FutureQueued(m, d, n, h) ==
    [d EXCEPT !.future = IF Enqueued(m.future, n, h) = m.future THEN @
                         ELSE Enqueued(m.future, n, h)]

FutureDone(m, d, n, h) ==
    [FutureQueued(m, d, n, h) EXCEPT !.lock = UnlockedDisk(m.lock, n, @)]

-----------------------------------------------------------------------------

\* PurgeAfter drops what lies above the block: the entry, where memory or disk
\* is stale, the lock, and the tail of the future list.
StaleEntry(m, block) == m.fin.doExist /\ m.fin.Number > block

StaleLock(m, block) == m.lock.Locked /\ m.lock.Number > block

StaleFuture(m, block) == \E n \in Elements(m.future.Order) : n > block

Trimmed(fut, block) ==
    LET Keep(n) == n <= block
    IN  [Order |-> SelectSeq(fut.Order, Keep),
         List  |-> [n \in {k \in DOMAIN fut.List : k <= block} |-> fut.List[n]]]

PurgedMem(m, block) ==
    [fin    |-> IF StaleEntry(m, block) THEN NoEntry ELSE m.fin,
     lock   |-> IF StaleLock(m, block) THEN NoLock ELSE m.lock,
     future |-> IF StaleFuture(m, block) THEN Trimmed(m.future, block) ELSE m.future]

\* Mutant: only the entry in memory decides whether the database is cleaned.
StaleDiskMemoryOnly(m, d, block) == StaleEntry(m, block)

StaleDisk(m, d, block) ==
    (d.milestone.doExist /\ d.milestone.Number > block) \/ StaleEntry(m, block)

\* The database once the entry, then the lock, then the list has been purged.
PurgedEntry(m, d, block) ==
    [d EXCEPT !.milestone = IF StaleDisk(m, d, block) THEN NoEntry ELSE @]

PurgedLock(m, d, block) ==
    [PurgedEntry(m, d, block) EXCEPT !.lock = IF StaleLock(m, block) THEN NoLock ELSE @]

PurgedDone(m, d, block) ==
    [PurgedLock(m, d, block) EXCEPT
        !.future = IF StaleFuture(m, block) THEN Trimmed(m.future, block) ELSE @]

=============================================================================
