------------------------------ MODULE Whitelist ------------------------------
(***************************************************************************)
(* The whitelist service (eth/downloader/whitelist): the milestone and the *)
(* checkpoint kept in memory, their copies in the database, and restarts   *)
(* of the node, which rebuild memory from the database (NewService) also   *)
(* when the process died between two writes of one method.  Methods are    *)
(* called by the milestone and checkpoint loops, by voting and by the      *)
(* debug API, in any order.  A failed write is logged and ignored.         *)
(***************************************************************************)
EXTENDS MilestoneRules

CONSTANTS Numbers,        \* block numbers milestones and checkpoints end at
          MaxFailures,    \* bound on failed database writes
          MaxCrashes      \* bound on restarts

ASSUME WhitelistAssumption ==
    /\ Numbers \subseteq Nat \ {0}
    /\ NoHash \notin Hashes
    /\ MaxCapacity \in Nat
    /\ MaxFailures \in Nat
    /\ MaxCrashes \in Nat

VARIABLES mem,          \* the milestone object
          cp,           \* the checkpoint entry
          db,           \* the database
          failures,     \* writes that failed so far
          crashes,      \* restarts so far
          hidden,       \* entries a debug Purge took out of memory only
          top           \* history: no number above it came in since the last PurgeAfter

vars == <<mem, cp, db, failures, crashes, hidden, top>>

Keys == {"milestone", "checkpoint", "lock", "future"}

EmptyDB == [key \in Keys |->
               IF key = "lock" THEN NoLock ELSE IF key = "future" THEN NoFuture ELSE NoEntry]

-----------------------------------------------------------------------------

\* finality.Get: the database answers for an entry that is not in memory.
Get(e, disk) == IF e.doExist THEN e ELSE disk

\* NewService: an entry with an empty hash is ignored, and so is a lock that is
\* not held.
LoadEntry(disk) ==
    [disk EXCEPT !.doExist = @ /\ disk.Hash # NoHash]

LoadLock(disk) == [disk EXCEPT !.IDs = IF disk.Locked THEN @ ELSE {}]

LoadMilestone(d) ==
    [fin |-> LoadEntry(d.milestone), lock |-> LoadLock(d.lock), future |-> d.future]

Init ==
    /\ mem = LoadMilestone(EmptyDB)
    /\ cp = NoEntry
    /\ db = EmptyDB
    /\ failures = 0 /\ crashes = 0
    /\ hidden = {}
    /\ top = 0

\* The process dies with the database as d; the next one loads it.
RestartFrom(d) ==
    /\ crashes < MaxCrashes
    /\ crashes' = crashes + 1
    /\ db' = d
    /\ mem' = LoadMilestone(d)
    /\ cp' = LoadEntry(d.checkpoint)
    /\ hidden' = {}
    /\ UNCHANGED failures

\* One write of the method fails; the record keeps what it held before.
WriteFails(during, done) ==
    /\ failures < MaxFailures
    /\ failures' = failures + 1
    /\ \E key \in Keys, d \in during \cup {db} :
          done[key] # d[key] /\ db' = [done EXCEPT ![key] = d[key]]

\* A method that makes m and c of the two services, purges or restores the
\* entries hid says, and leaves done in the database.  A process that dies in
\* the method leaves one of the contents in during.
Method(m, c, hid, during, done) ==
    \/ /\ mem' = m /\ cp' = c /\ hidden' = hid
       /\ \/ db' = done /\ UNCHANGED failures
          \/ WriteFails(during, done)
       /\ UNCHANGED crashes
    \/ \E d \in during : RestartFrom(d)

MilestoneMethod(m, during, done) == Method(m, cp, hidden, during, done)

Raise(n) == top' = IF n > top THEN n ELSE top

-----------------------------------------------------------------------------

ProcessMilestone(n, h) ==
    /\ Method(ProcessMem(mem, n, h), cp, hidden \ {"milestone"},
              {ProcessDisk(mem, db, n, h, i) : i \in 0 .. Rounds(mem.future.Order, n)},
              ProcessDone(mem, db, n, h))
    /\ Raise(n)

ProcessCheckpoint(n, h) ==
    LET e == [doExist |-> TRUE, Number |-> n, Hash |-> h]
    IN  /\ Method(mem, e, hidden \ {"checkpoint"}, {}, [db EXCEPT !.checkpoint = e])
        /\ UNCHANGED top

ProcessFutureMilestone(n, h) ==
    /\ MilestoneMethod(FutureMem(mem, n, h), {FutureQueued(mem, db, n, h)},
                       FutureDone(mem, db, n, h))
    /\ Raise(n)

\* GetVoteOnHash once it has the local block, whose hash is h: it takes the
\* lock even where LockMutex refused it.
Vote(n, h, id) ==
    /\ MilestoneMethod(VotedMem(mem, id, n, h),
                       {[db EXCEPT !.lock = Unlocked(mem.lock, mem.lock.Number)]},
                       [db EXCEPT !.lock = VotedMem(mem, id, n, h).lock])
    /\ Raise(n)

\* The local block has another hash: the lock is written back as it stands.
VoteMismatch ==
    /\ MilestoneMethod(mem, {}, [db EXCEPT !.lock = mem.lock])
    /\ UNCHANGED top

UnlockSprint(n) ==
    /\ MilestoneMethod([mem EXCEPT !.lock = Unlocked(@, n)], {},
                       [db EXCEPT !.lock = UnlockedDisk(mem.lock, n, @)])
    /\ UNCHANGED top

RemoveMilestoneID(id) ==
    /\ MilestoneMethod(RemovedMem(mem, id), {}, [db EXCEPT !.lock = RemovedMem(mem, id).lock])
    /\ UNCHANGED top

\* The numbers above block are gone for good when no write ever failed.
PurgeAfter(block) ==
    /\ MilestoneMethod(PurgedMem(mem, block),
                       {PurgedEntry(mem, db, block), PurgedLock(mem, db, block)},
                       PurgedDone(mem, db, block))
    /\ top' = IF failures' = 0 /\ crashes' = crashes /\ block < top THEN block ELSE top

\* debug API: the entry leaves memory, not the database.
PurgeMilestone ==
    /\ Method([mem EXCEPT !.fin.doExist = FALSE], cp, hidden \cup {"milestone"}, {}, db)
    /\ UNCHANGED top

PurgeCheckpoint ==
    /\ Method(mem, [cp EXCEPT !.doExist = FALSE], hidden \cup {"checkpoint"}, {}, db)
    /\ UNCHANGED top

\* A restart, maybe after PurgeWhitelistedEntriesFromDb emptied the database
\* of the stopped node: a record it fails to delete stays.
Restart ==
    /\ \E gone \in SUBSET Keys :
           RestartFrom([key \in Keys |-> IF key \in gone THEN EmptyDB[key] ELSE db[key]])
    /\ UNCHANGED top

Next ==
    \/ \E n \in Numbers, h \in Hashes :
          \/ ProcessMilestone(n, h)
          \/ ProcessCheckpoint(n, h)
          \/ ProcessFutureMilestone(n, h)
          \/ \E id \in IDs : Vote(n, h, id)
    \/ \E n \in Numbers : UnlockSprint(n) \/ PurgeAfter(n)
    \/ \E id \in IDs : RemoveMilestoneID(id)
    \/ VoteMismatch
    \/ PurgeMilestone \/ PurgeCheckpoint
    \/ Restart

Spec == Init /\ [][Next]_vars

-----------------------------------------------------------------------------

\* A sprint is locked exactly as long as some milestone id holds the lock, in
\* memory and in the record a restart reads: votes, UnlockSprint, the removal of
\* ids, milestones and purges keep Locked and LockedMilestoneIDs together.
LockHasVoters ==
    \A lk \in {mem.lock, db.lock} : lk.Locked <=> lk.IDs # {}

\* The queue of future milestones and the map of their hashes list the same
\* blocks, each once, and never more than MaxCapacity, in memory and on disk.
FutureConsistent ==
    \A fut \in {mem.future, db.future} :
        /\ Elements(fut.Order) = DOMAIN fut.List
        /\ \A i, j \in DOMAIN fut.Order : fut.Order[i] = fut.Order[j] => i = j
        /\ Len(fut.Order) <= MaxCapacity

Agrees(e, disk, isHidden) == IF e.doExist THEN disk = e ELSE disk.doExist => isHidden

\* As long as no write failed, a restart rebuilds from the database the state
\* that memory holds: every method that changes the entry, the lock or the
\* future list also persists it.  Only an entry a debug Purge hid comes back.
RestartExact ==
    failures = 0 =>
        /\ LoadLock(db.lock) = mem.lock
        /\ db.future = mem.future
        /\ Agrees(mem.fin, LoadEntry(db.milestone), "milestone" \in hidden)
        /\ Agrees(cp, LoadEntry(db.checkpoint), "checkpoint" \in hidden)

AtMost(m, b) ==
    /\ m.fin.doExist => m.fin.Number <= b
    /\ m.lock.Locked => m.lock.Number <= b
    /\ \A n \in Elements(m.future.Order) : n <= b

\* After PurgeAfter(b) nothing above b comes back, from memory, from the
\* fallback of Get to the database or from a restart, until a milestone or a
\* vote above b arrives.
PurgeIsFinal ==
    /\ AtMost([mem EXCEPT !.fin = Get(mem.fin, db.milestone)], top)
    /\ AtMost(LoadMilestone(db), top)

Sorted(s) == \A i, j \in DOMAIN s : i < j => s[i] < s[j]


=============================================================================
