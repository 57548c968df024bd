--------------------------- MODULE WhitelistProofs ---------------------------
(***************************************************************************)
(* A restart of the whitelist service rebuilds what memory held, for any   *)
(* block numbers, hashes, ids and capacity, and any order of method calls, *)
(* failed writes and crashes inside a method.                              *)
(***************************************************************************)
EXTENDS Whitelist, TLAPS

\* Entries and locks as the methods leave them: an entry has a hash, a lock has
\* ids exactly while it is held.
WellFormedEntry(e) == e \in Entries /\ (e.doExist => e.Hash \in Hashes)

WellFormedLock(lk) == lk \in Locks /\ (lk.Locked <=> lk.IDs # {})

\* The shape of the two records and of their fields.
Shape ==
    /\ mem = [fin |-> mem.fin, lock |-> mem.lock, future |-> mem.future]
    /\ db = [key \in Keys |-> db[key]]
    /\ WellFormedEntry(mem.fin) /\ WellFormedEntry(cp)
    /\ WellFormedEntry(db.milestone) /\ WellFormedEntry(db.checkpoint)
    /\ WellFormedLock(mem.lock) /\ WellFormedLock(db.lock)
    /\ failures \in Nat

\* What memory and the database have in common while no write has failed.
InStep ==
    failures = 0 =>
        /\ db.lock = mem.lock
        /\ db.future = mem.future
        /\ Agrees(mem.fin, db.milestone, "milestone" \in hidden)
        /\ Agrees(cp, db.checkpoint, "checkpoint" \in hidden)

IInv == Shape /\ InStep

-----------------------------------------------------------------------------

\* Loading a well-formed entry, or a well-formed lock, gives it back.
LEMMA LoadEntryExact ==
    ASSUME NEW e, WellFormedEntry(e)
    PROVE  LoadEntry(e) = e
  BY WhitelistAssumption DEF WellFormedEntry, LoadEntry, Entries

LEMMA LoadLockExact ==
    ASSUME NEW lk, WellFormedLock(lk)
    PROVE  LoadLock(lk) = lk
  BY DEF WellFormedLock, LoadLock, Locks

\* Releasing a lock keeps it well-formed, and writing the release leaves in the
\* record what memory holds.
LEMMA UnlockedWellFormed ==
    ASSUME NEW lk, NEW n \in Nat, WellFormedLock(lk)
    PROVE  WellFormedLock(Unlocked(lk, n))
  BY DEF WellFormedLock, Unlocked, Locks

LEMMA UnlockedDiskFollows ==
    ASSUME NEW lk, NEW n, NEW disk
    PROVE  /\ disk = lk => UnlockedDisk(lk, n, disk) = Unlocked(lk, n)
           /\ UnlockedDisk(lk, n, disk) \in {disk, Unlocked(lk, n)}
  BY DEF UnlockedDisk, Unlocked

LEMMA EmptyWellFormed == WellFormedEntry(NoEntry) /\ WellFormedLock(NoLock)
  BY DEF WellFormedEntry, WellFormedLock, NoEntry, NoLock, Entries, Locks

\* A database of the right shape.
GoodDB(d) ==
    /\ d = [key \in Keys |-> d[key]]
    /\ WellFormedEntry(d.milestone) /\ WellFormedEntry(d.checkpoint)
    /\ WellFormedLock(d.lock)

\* The process that starts on a well-formed database is in step with it.
LEMMA RestartInStep ==
    ASSUME NEW d, GoodDB(d), RestartFrom(d), failures \in Nat
    PROVE  IInv'
  <1>1. mem' = [fin |-> d.milestone, lock |-> d.lock, future |-> d.future]
    BY LoadEntryExact, LoadLockExact DEF GoodDB, RestartFrom, LoadMilestone
  <1>2. cp' = d.checkpoint /\ db' = d /\ hidden' = {} /\ failures' = failures
    BY LoadEntryExact DEF GoodDB, RestartFrom
  <1> QED
    BY <1>1, <1>2 DEF IInv, Shape, InStep, Agrees, GoodDB

\* What a method has to show to preserve IInv.
LEMMA MethodInStep ==
    ASSUME IInv,
           NEW m, NEW c, NEW hid, NEW during, NEW done,
           m = [fin |-> m.fin, lock |-> m.lock, future |-> m.future],
           WellFormedEntry(m.fin), WellFormedLock(m.lock), WellFormedEntry(c),
           GoodDB(done), \A d \in during : GoodDB(d),
           failures = 0 => /\ done.lock = m.lock
                           /\ done.future = m.future
                           /\ Agrees(m.fin, done.milestone, "milestone" \in hid)
                           /\ Agrees(c, done.checkpoint, "checkpoint" \in hid),
           Method(m, c, hid, during, done)
    PROVE  IInv'
  <1>1. CASE \E d \in during : RestartFrom(d)
    BY <1>1, RestartInStep DEF IInv, Shape
  <1>2. CASE mem' = m /\ cp' = c /\ hidden' = hid /\ db' = done /\ UNCHANGED failures
    BY <1>2 DEF IInv, Shape, InStep, GoodDB
  <1>3. CASE mem' = m /\ cp' = c /\ hidden' = hid /\ WriteFails(during, done)
    <2>1. PICK key \in Keys, d \in during \cup {db} : db' = [done EXCEPT ![key] = d[key]]
      BY <1>3 DEF WriteFails
    <2>2. GoodDB(d)
      BY <2>1 DEF IInv, Shape, GoodDB
    <2>3. GoodDB(db')
      BY <2>1, <2>2 DEF GoodDB, Keys
    <2>4. failures' \in Nat /\ failures' # 0
      BY <1>3 DEF WriteFails, IInv, Shape
    <2> QED
      BY <1>3, <2>3, <2>4 DEF IInv, Shape, InStep, GoodDB
  <1> QED
    BY <1>1, <1>2, <1>3 DEF Method

-----------------------------------------------------------------------------

\* The parts of IInv a method starts from.
LEMMA Current ==
    ASSUME IInv
    PROVE  /\ GoodDB(db)
           /\ mem = [fin |-> mem.fin, lock |-> mem.lock, future |-> mem.future]
           /\ WellFormedEntry(mem.fin) /\ WellFormedEntry(cp) /\ WellFormedLock(mem.lock)
  BY DEF IInv, Shape, GoodDB

\* Each method preserves IInv.
LEMMA ProcessMilestoneInStep ==
    ASSUME IInv, NEW n \in Numbers, NEW h \in Hashes, ProcessMilestone(n, h)
    PROVE  IInv'
  <1> DEFINE m == ProcessMem(mem, n, h)
             k == Rounds(mem.future.Order, n)
             e == [doExist |-> TRUE, Number |-> n, Hash |-> h]
             during == {ProcessDisk(mem, db, n, h, i) : i \in 0 .. k}
             done == ProcessDone(mem, db, n, h)
  <1> USE Current
  <1>1. n \in Nat
    BY WhitelistAssumption
  <1>2. WellFormedEntry(e)
    BY <1>1 DEF WellFormedEntry, Entries
  <1>3. /\ m = [fin |-> m.fin, lock |-> m.lock, future |-> m.future]
        /\ m.fin = e
        /\ m.lock = Unlocked(mem.lock, n)
        /\ m.future = Dequeued(mem.future, k)
    BY DEF ProcessMem
  <1>4. WellFormedLock(m.lock)
    BY <1>1, <1>3, UnlockedWellFormed
  <1>5. ASSUME NEW i
        PROVE  LET d == ProcessDisk(mem, db, n, h, i)
               IN  /\ GoodDB(d)
                   /\ d.milestone = e /\ d.lock = db.lock /\ d.checkpoint = db.checkpoint
                   /\ d.future = IF i = 0 THEN db.future ELSE Dequeued(mem.future, i)
    BY <1>2 DEF ProcessDisk, GoodDB, Keys
  <1>6. /\ done = [ProcessDisk(mem, db, n, h, k) EXCEPT !.lock = UnlockedDisk(mem.lock, n, db.lock)]
        /\ WellFormedLock(UnlockedDisk(mem.lock, n, db.lock))
    BY <1>4, <1>3, <1>5, UnlockedDiskFollows DEF ProcessDone, GoodDB
  <1>7. /\ GoodDB(done)
        /\ done.milestone = e /\ done.checkpoint = db.checkpoint
        /\ done.lock = UnlockedDisk(mem.lock, n, db.lock)
        /\ done.future = IF k = 0 THEN db.future ELSE Dequeued(mem.future, k)
    <2> DEFINE d == ProcessDisk(mem, db, n, h, k)
               lk == UnlockedDisk(mem.lock, n, db.lock)
               fut == IF k = 0 THEN db.future ELSE Dequeued(mem.future, k)
    <2>1. /\ GoodDB(d) /\ d.milestone = e /\ d.checkpoint = db.checkpoint /\ d.future = fut
          /\ done = [d EXCEPT !.lock = lk] /\ WellFormedLock(lk)
      BY <1>5, <1>6
    <2> HIDE DEF d, lk, fut, e, done
    <2>2. /\ GoodDB(done) /\ done.milestone = e /\ done.checkpoint = db.checkpoint
          /\ done.lock = lk /\ done.future = fut
      BY <2>1 DEF GoodDB, Keys
    <2> QED
      BY <2>2 DEF lk, fut
  <1>8. failures = 0 => done.future = m.future
    <2>1. mem.future = Dequeued(mem.future, 0)
      BY DEF Dequeued
    <2> QED
      BY <1>7, <1>3, <2>1 DEF IInv, InStep
  <1>9. failures = 0 => /\ done.lock = m.lock
                        /\ Agrees(m.fin, done.milestone, "milestone" \in hidden \ {"milestone"})
                        /\ Agrees(cp, done.checkpoint, "checkpoint" \in hidden \ {"milestone"})
    BY <1>7, <1>3, UnlockedDiskFollows DEF IInv, InStep, Agrees
  <1>10. Method(m, cp, hidden \ {"milestone"}, during, done)
    BY DEF ProcessMilestone
  <1>11. \A d \in during : GoodDB(d)
    BY <1>5
  <1> HIDE DEF m, k, e, during, done
  <1> QED
    BY <1>2, <1>3, <1>4, <1>7, <1>8, <1>9, <1>10, <1>11, MethodInStep

LEMMA ProcessCheckpointInStep ==
    ASSUME IInv, NEW n \in Numbers, NEW h \in Hashes, ProcessCheckpoint(n, h)
    PROVE  IInv'
  <1> DEFINE e == [doExist |-> TRUE, Number |-> n, Hash |-> h]
             done == [db EXCEPT !.checkpoint = e]
  <1> USE Current
  <1>1. WellFormedEntry(e)
    BY WhitelistAssumption DEF WellFormedEntry, Entries
  <1>2. GoodDB(done) /\ done.checkpoint = e /\ \A key \in Keys \ {"checkpoint"} : done[key] = db[key]
    BY <1>1 DEF GoodDB, Keys
  <1>3. done.lock = db.lock /\ done.future = db.future /\ done.milestone = db.milestone
    BY <1>2 DEF Keys
  <1>4. failures = 0 => /\ done.lock = mem.lock /\ done.future = mem.future
                        /\ Agrees(mem.fin, done.milestone, "milestone" \in hidden \ {"checkpoint"})
                        /\ Agrees(e, done.checkpoint, "checkpoint" \in hidden \ {"checkpoint"})
    BY <1>2, <1>3 DEF IInv, InStep, Agrees
  <1>5. Method(mem, e, hidden \ {"checkpoint"}, {}, done)
    BY DEF ProcessCheckpoint
  <1> HIDE DEF e, done
  <1> QED
    BY <1>1, <1>2, <1>4, <1>5, MethodInStep

\* A method that changes only the lock, from mem.lock to lk, and writes disk.
LEMMA LockMethodInStep ==
    ASSUME IInv, NEW lk, NEW during, NEW disk,
           WellFormedLock(lk), WellFormedLock(disk),
           failures = 0 => disk = lk,
           \A d \in during : GoodDB(d),
           MilestoneMethod([mem EXCEPT !.lock = lk], during, [db EXCEPT !.lock = disk])
    PROVE  IInv'
  <1> DEFINE m == [mem EXCEPT !.lock = lk]
             done == [db EXCEPT !.lock = disk]
  <1> USE Current
  <1>1. /\ m = [fin |-> m.fin, lock |-> m.lock, future |-> m.future]
        /\ m.fin = mem.fin /\ m.lock = lk /\ m.future = mem.future
    OBVIOUS
  <1>2. /\ GoodDB(done) /\ done.lock = disk
        /\ done.milestone = db.milestone /\ done.checkpoint = db.checkpoint
        /\ done.future = db.future
    BY DEF GoodDB, Keys
  <1>3. failures = 0 => /\ done.lock = m.lock /\ done.future = m.future
                        /\ Agrees(m.fin, done.milestone, "milestone" \in hidden)
                        /\ Agrees(cp, done.checkpoint, "checkpoint" \in hidden)
    BY <1>1, <1>2 DEF IInv, InStep
  <1>4. Method(m, cp, hidden, during, done)
    BY DEF MilestoneMethod
  <1> HIDE DEF m, done
  <1> QED
    BY <1>1, <1>2, <1>3, <1>4, MethodInStep

LEMMA VoteInStep ==
    ASSUME IInv, NEW n \in Numbers, NEW h \in Hashes, NEW id \in IDs, Vote(n, h, id)
    PROVE  IInv'
  <1> DEFINE lk == [Locked |-> TRUE, Number |-> n, Hash |-> h,
                    IDs |-> Unlocked(mem.lock, mem.lock.Number).IDs \cup {id}]
             free == Unlocked(mem.lock, mem.lock.Number)
             during == {[db EXCEPT !.lock = free]}
  <1> USE Current
  <1>1. VotedMem(mem, id, n, h) = [mem EXCEPT !.lock = lk] /\ VotedMem(mem, id, n, h).lock = lk
    BY DEF VotedMem
  <1>2. WellFormedLock(free)
    BY UnlockedWellFormed DEF WellFormedLock, Locks
  <1>3. WellFormedLock(lk)
    BY <1>2, WhitelistAssumption DEF WellFormedLock, Locks
  <1>4. \A d \in during : GoodDB(d)
    BY <1>2 DEF GoodDB, Keys
  <1>5. MilestoneMethod([mem EXCEPT !.lock = lk], during, [db EXCEPT !.lock = lk])
    BY <1>1 DEF Vote
  <1> HIDE DEF lk, free, during
  <1> QED
    BY <1>3, <1>4, <1>5, LockMethodInStep

LEMMA VoteMismatchInStep ==
    ASSUME IInv, VoteMismatch
    PROVE  IInv'
  <1> USE Current
  <1>1. mem = [mem EXCEPT !.lock = mem.lock]
    OBVIOUS
  <1>2. MilestoneMethod([mem EXCEPT !.lock = mem.lock], {}, [db EXCEPT !.lock = mem.lock])
    BY <1>1 DEF VoteMismatch
  <1> QED
    BY <1>2, LockMethodInStep

LEMMA UnlockSprintInStep ==
    ASSUME IInv, NEW n \in Numbers, UnlockSprint(n)
    PROVE  IInv'
  <1> USE Current
  <1>1. WellFormedLock(Unlocked(mem.lock, n))
    BY UnlockedWellFormed, WhitelistAssumption
  <1>2. WellFormedLock(UnlockedDisk(mem.lock, n, db.lock))
    BY <1>1, UnlockedDiskFollows DEF GoodDB
  <1>3. failures = 0 => UnlockedDisk(mem.lock, n, db.lock) = Unlocked(mem.lock, n)
    BY UnlockedDiskFollows DEF IInv, InStep
  <1>4. MilestoneMethod([mem EXCEPT !.lock = Unlocked(mem.lock, n)], {},
                        [db EXCEPT !.lock = UnlockedDisk(mem.lock, n, db.lock)])
    BY DEF UnlockSprint
  <1> QED
    BY <1>1, <1>2, <1>3, <1>4, LockMethodInStep

LEMMA RemoveMilestoneIDInStep ==
    ASSUME IInv, NEW id \in IDs, RemoveMilestoneID(id)
    PROVE  IInv'
  <1> DEFINE rest == mem.lock.IDs \ {id}
             lk == [mem.lock EXCEPT !.IDs = rest, !.Locked = @ /\ rest # {}]
  <1> USE Current
  <1>1. RemovedMem(mem, id) = [mem EXCEPT !.lock = lk] /\ RemovedMem(mem, id).lock = lk
    BY DEF RemovedMem, WellFormedLock, Locks
  <1>2. WellFormedLock(lk)
    BY DEF WellFormedLock, Locks
  <1>3. MilestoneMethod([mem EXCEPT !.lock = lk], {}, [db EXCEPT !.lock = lk])
    BY <1>1 DEF RemoveMilestoneID
  <1> HIDE DEF lk
  <1> QED
    BY <1>2, <1>3, LockMethodInStep

LEMMA ProcessFutureMilestoneInStep ==
    ASSUME IInv, NEW n \in Numbers, NEW h \in Hashes, ProcessFutureMilestone(n, h)
    PROVE  IInv'
  <1> DEFINE fut == Enqueued(mem.future, n, h)
             lk == Unlocked(mem.lock, n)
             disk == UnlockedDisk(mem.lock, n, db.lock)
             m == FutureMem(mem, n, h)
             queued == FutureQueued(mem, db, n, h)
             done == FutureDone(mem, db, n, h)
  <1> USE Current
  <1>1. /\ m = [fin |-> m.fin, lock |-> m.lock, future |-> m.future]
        /\ m.fin = mem.fin /\ m.lock = lk /\ m.future = fut
    <2>1. m = [mem EXCEPT !.future = fut, !.lock = lk]
      BY DEF FutureMem
    <2> HIDE DEF m, fut, lk
    <2> QED
      BY <2>1
  <1>2. WellFormedLock(lk)
    BY UnlockedWellFormed, WhitelistAssumption
  <1>3. WellFormedLock(disk) /\ (failures = 0 => disk = lk)
    BY <1>2, UnlockedDiskFollows DEF GoodDB, IInv, InStep
  <1>4. /\ GoodDB(queued)
        /\ queued.milestone = db.milestone /\ queued.checkpoint = db.checkpoint
        /\ queued.lock = db.lock
        /\ queued.future = IF fut = mem.future THEN db.future ELSE fut
    BY DEF FutureQueued, GoodDB, Keys
  <1>5. done = [queued EXCEPT !.lock = disk]
    BY <1>4 DEF FutureDone
  <1>6. /\ GoodDB(done)
        /\ done.milestone = db.milestone /\ done.checkpoint = db.checkpoint
        /\ done.lock = disk /\ done.future = queued.future
    BY <1>3, <1>4, <1>5 DEF GoodDB, Keys
  <1>7. failures = 0 => /\ done.lock = m.lock /\ done.future = m.future
                        /\ Agrees(m.fin, done.milestone, "milestone" \in hidden)
                        /\ Agrees(cp, done.checkpoint, "checkpoint" \in hidden)
    BY <1>1, <1>3, <1>4, <1>6 DEF IInv, InStep
  <1>8. Method(m, cp, hidden, {queued}, done)
    BY DEF ProcessFutureMilestone, MilestoneMethod
  <1> HIDE DEF m, queued, done, lk, disk
  <1> QED
    BY <1>1, <1>2, <1>4, <1>6, <1>7, <1>8, MethodInStep

LEMMA PurgeAfterInStep ==
    ASSUME IInv, NEW n \in Numbers, PurgeAfter(n)
    PROVE  IInv'
  <1> DEFINE m == PurgedMem(mem, n)
             d1 == PurgedEntry(mem, db, n)
             d2 == PurgedLock(mem, db, n)
             done == PurgedDone(mem, db, n)
             entry == IF StaleDisk(mem, db, n) THEN NoEntry ELSE db.milestone
             lk == IF StaleLock(mem, n) THEN NoLock ELSE db.lock
             fut == IF StaleFuture(mem, n) THEN Trimmed(mem.future, n) ELSE db.future
  <1> USE Current, EmptyWellFormed
  <1>1. /\ m = [fin |-> m.fin, lock |-> m.lock, future |-> m.future]
        /\ m.fin = IF StaleEntry(mem, n) THEN NoEntry ELSE mem.fin
        /\ m.lock = IF StaleLock(mem, n) THEN NoLock ELSE mem.lock
        /\ m.future = IF StaleFuture(mem, n) THEN Trimmed(mem.future, n) ELSE mem.future
    BY DEF PurgedMem
  <1>2. /\ GoodDB(d1) /\ d1.milestone = entry /\ d1.checkpoint = db.checkpoint
        /\ d1.lock = db.lock /\ d1.future = db.future
    BY DEF PurgedEntry, GoodDB, Keys
  <1>3. /\ GoodDB(d2) /\ d2.milestone = entry /\ d2.checkpoint = db.checkpoint
        /\ d2.lock = lk /\ d2.future = db.future
    BY <1>2 DEF PurgedLock, GoodDB, Keys
  <1>4. /\ GoodDB(done) /\ done.milestone = entry /\ done.checkpoint = db.checkpoint
        /\ done.lock = lk /\ done.future = fut
    BY <1>3 DEF PurgedDone, GoodDB, Keys
  <1>5. WellFormedEntry(m.fin) /\ WellFormedLock(m.lock)
    BY <1>1
  <1>6. failures = 0 => /\ done.lock = m.lock /\ done.future = m.future
                        /\ Agrees(cp, done.checkpoint, "checkpoint" \in hidden)
    BY <1>1, <1>4 DEF IInv, InStep
  <1>7. failures = 0 => Agrees(m.fin, done.milestone, "milestone" \in hidden)
    <2> SUFFICES ASSUME failures = 0
                 PROVE  Agrees(m.fin, entry, "milestone" \in hidden)
      BY <1>4
    <2>1. Agrees(mem.fin, db.milestone, "milestone" \in hidden)
      BY DEF IInv, InStep
    <2>2. CASE StaleEntry(mem, n)
      BY <1>1, <2>2 DEF Agrees, StaleDisk, NoEntry
    <2>3. CASE ~StaleEntry(mem, n)
      BY <1>1, <2>1, <2>3 DEF Agrees, StaleDisk, StaleEntry, NoEntry
    <2> QED
      BY <2>2, <2>3
  <1>8. Method(m, cp, hidden, {d1, d2}, done)
    BY DEF PurgeAfter, MilestoneMethod
  <1> HIDE DEF m, d1, d2, done, entry, lk, fut
  <1> QED
    BY <1>1, <1>2, <1>3, <1>4, <1>5, <1>6, <1>7, <1>8, MethodInStep

\* The debug purges hide an entry.
LEMMA PurgeInStep ==
    ASSUME IInv, PurgeMilestone \/ PurgeCheckpoint
    PROVE  IInv'
  <1> DEFINE e == [mem.fin EXCEPT !.doExist = FALSE]
             m == [mem EXCEPT !.fin = e]
             c == [cp EXCEPT !.doExist = FALSE]
  <1> USE Current
  <1>1. WellFormedEntry(e) /\ e.doExist = FALSE
    BY DEF WellFormedEntry, Entries
  <1>2. /\ m = [fin |-> m.fin, lock |-> m.lock, future |-> m.future]
        /\ m.fin = e /\ m.lock = mem.lock /\ m.future = mem.future
        /\ WellFormedLock(m.lock)
    <2> HIDE DEF e
    <2> QED
      OBVIOUS
  <1>3. WellFormedEntry(c) /\ c.doExist = FALSE
    BY DEF WellFormedEntry, Entries
  <1> HIDE DEF e, m, c
  <1>4. CASE PurgeMilestone
    <2>1. failures = 0 => /\ db.lock = m.lock /\ db.future = m.future
                          /\ Agrees(m.fin, db.milestone, "milestone" \in hidden \cup {"milestone"})
                          /\ Agrees(cp, db.checkpoint, "checkpoint" \in hidden \cup {"milestone"})
      BY <1>1, <1>2 DEF IInv, InStep, Agrees
    <2>2. Method(m, cp, hidden \cup {"milestone"}, {}, db)
      BY <1>4 DEF PurgeMilestone, m, e
    <2> QED
      BY <1>1, <1>2, <2>1, <2>2, MethodInStep
  <1>5. CASE PurgeCheckpoint
    <2>1. failures = 0 => /\ db.lock = mem.lock /\ db.future = mem.future
                          /\ Agrees(mem.fin, db.milestone, "milestone" \in hidden \cup {"checkpoint"})
                          /\ Agrees(c, db.checkpoint, "checkpoint" \in hidden \cup {"checkpoint"})
      BY <1>3 DEF IInv, InStep, Agrees
    <2>2. Method(mem, c, hidden \cup {"checkpoint"}, {}, db)
      BY <1>5 DEF PurgeCheckpoint, c
    <2> QED
      BY <1>3, <2>1, <2>2, MethodInStep
  <1> QED
    BY <1>4, <1>5

LEMMA RestartKeepsInStep ==
    ASSUME IInv, Restart
    PROVE  IInv'
  <1>1. PICK gone \in SUBSET Keys :
            RestartFrom([key \in Keys |-> IF key \in gone THEN EmptyDB[key] ELSE db[key]])
    BY DEF Restart
  <1> DEFINE d == [key \in Keys |-> IF key \in gone THEN EmptyDB[key] ELSE db[key]]
  <1>2. /\ d = [key \in Keys |-> d[key]]
        /\ d.milestone = IF "milestone" \in gone THEN NoEntry ELSE db.milestone
        /\ d.checkpoint = IF "checkpoint" \in gone THEN NoEntry ELSE db.checkpoint
        /\ d.lock = IF "lock" \in gone THEN NoLock ELSE db.lock
    BY DEF EmptyDB, Keys
  <1>3. GoodDB(d)
    BY <1>2, Current, EmptyWellFormed DEF GoodDB
  <1> HIDE DEF d
  <1> QED
    BY <1>1, <1>3, RestartInStep DEF d, IInv, Shape

-----------------------------------------------------------------------------

\* IInv is an invariant: it holds of an empty database, and each method and each
\* restart preserves it.
THEOREM WhitelistInductive == Spec => []IInv
  <1>1. Init => IInv
    <2> SUFFICES ASSUME Init
                 PROVE  IInv
      OBVIOUS
    <2>1. /\ EmptyDB = [key \in Keys |-> EmptyDB[key]]
          /\ EmptyDB.milestone = NoEntry /\ EmptyDB.checkpoint = NoEntry /\ EmptyDB.lock = NoLock
      BY DEF EmptyDB, Keys
    <2>2. mem = [fin |-> NoEntry, lock |-> NoLock, future |-> EmptyDB.future]
      BY <2>1, EmptyWellFormed, LoadEntryExact, LoadLockExact DEF Init, LoadMilestone
    <2>3. cp = NoEntry /\ db = EmptyDB /\ failures = 0 /\ NoEntry.doExist = FALSE
      BY DEF Init, NoEntry
    <2> QED
      BY <2>1, <2>2, <2>3, EmptyWellFormed DEF IInv, Shape, InStep, Agrees
  <1>2. IInv /\ [Next]_vars => IInv'
    <2> SUFFICES ASSUME IInv, [Next]_vars
                 PROVE  IInv'
      OBVIOUS
    <2>1. CASE UNCHANGED vars
      BY <2>1 DEF vars, IInv, Shape, InStep
    <2>2. CASE Next
      BY <2>2, ProcessMilestoneInStep, ProcessCheckpointInStep, ProcessFutureMilestoneInStep,
         VoteInStep, VoteMismatchInStep, UnlockSprintInStep, RemoveMilestoneIDInStep,
         PurgeAfterInStep, PurgeInStep, RestartKeepsInStep DEF Next
    <2> QED
      BY <2>1, <2>2
  <1> QED
    BY <1>1, <1>2, PTL DEF Spec

\* While every write succeeds, what NewService loads from the database is what
\* memory holds, wherever the process stops.
THEOREM RestartExactHolds == Spec => []RestartExact
  <1>1. IInv => RestartExact
    BY LoadEntryExact, LoadLockExact DEF IInv, Shape, InStep, RestartExact, Agrees
  <1> QED
    BY <1>1, WhitelistInductive, PTL

\* A sprint is locked, in memory and on disk, exactly while an id holds it, even
\* after failed writes and crashes inside a method.
THEOREM LockHasVotersHolds == Spec => []LockHasVoters
  <1>1. IInv => LockHasVoters
    BY DEF IInv, Shape, WellFormedLock, LockHasVoters
  <1> QED
    BY <1>1, WhitelistInductive, PTL

=============================================================================
