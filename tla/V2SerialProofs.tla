--------------------------- MODULE V2SerialProofs ---------------------------
(***************************************************************************)
(* Proof that settlement applies the serial execution of the block: what   *)
(* validation accepts, and what a re-execution reads unvalidated, is what  *)
(* a serial execution of the published states reads.                       *)
(***************************************************************************)
EXTENDS V2ReadProofs

-----------------------------------------------------------------------------
(***************************************************************************)
(* What the stores answer when everything below the reader is finalized.   *)
(***************************************************************************)

\* The serial observation of i depends on the outcomes before i only.
LEMMA SerialObsLocal ==
    ASSUME NEW i \in Tx, NEW rq, NEW f, NEW g, DOMAIN f = Tx, DOMAIN g = Tx,
           \A j \in 0 .. (i - 1) : f[j] = g[j]
    PROVE  SerialObs(rq, i, Outs(f)) = SerialObs(rq, i, Outs(g))
<1>1. \A j \in 0 .. (i - 1) : j \in Tx
  BY TransactionsAssumption DEF Tx, TransactionsAssumption
<1>2. \A j \in 0 .. (i - 1) : Outs(f)[j] = Outs(g)[j]
  BY <1>1, Zenon DEF Outs
<1> DEFINE D(o) == [j \in 0 .. (i - 1) |-> PublishedDelta(o[j], rq.cell)]
           C(o) == [j \in 0 .. (i - 1) |-> Published(o[j], rq.cell)]
<1>3. D(Outs(f)) = D(Outs(g)) /\ C(Outs(f)) = C(Outs(g))
  BY <1>2, Zenon
<1>4. ASSUME NEW o
      PROVE  SerialObs(rq, i, o) =
                IF rq.cell \in Addrs THEN SumDeltas(D(o))
                ELSE Interpret(rq, LastIn(C(o)),
                               IF LastIn(C(o)) = -1 THEN Nil ELSE C(o)[LastIn(C(o))])
  BY Zenon DEF SerialObs
<1> HIDE DEF D, C
<1> QED BY <1>3, <1>4, Zenon

\* LastIn of a column whose last entry is w.
LEMMA LastInColumn ==
    ASSUME NEW i \in Tx, NEW col, DOMAIN col = 0 .. (i - 1)
    PROVE  /\ (\A j \in 0 .. (i - 1) : col[j] = Nil) => LastIn(col) = -1
           /\ \A w \in 0 .. (i - 1) :
                col[w] # Nil /\ (\A j \in 0 .. (i - 1) : col[j] # Nil => j <= w) => LastIn(col) = w
<1>1. i \in Nat
  BY TransactionsAssumption DEF Tx, TransactionsAssumption
<1>2. (\A j \in 0 .. (i - 1) : col[j] = Nil) => LastIn(col) = -1
  BY Zenon DEF LastIn
<1>3. ASSUME NEW w \in 0 .. (i - 1), col[w] # Nil, \A j \in 0 .. (i - 1) : col[j] # Nil => j <= w
      PROVE  LastIn(col) = w
  <2> DEFINE S == {j \in 0 .. (i - 1) : col[j] # Nil}
  <2>1. LastIn(col) = Max(S)
    BY <1>3, Zenon DEF LastIn
  <2>2. S \in SUBSET (0 .. (i - 1)) /\ w \in S /\ \A j \in S : j <= w
    BY <1>3, Zenon
  <2> HIDE DEF S
  <2>3. Max(S) \in S /\ \A y \in S : Max(S) >= y
    BY <1>1, <2>2, MaxIndex, Zenon
  <2>5. Max(S) \in 0 .. (i - 1) /\ Max(S) <= w /\ Max(S) >= w
    BY <2>2, <2>3, Zenon
  <2>4. Max(S) \in Int /\ w \in Int /\ Max(S) <= w /\ Max(S) >= w
    BY <1>1, <2>5
  <2> QED BY <2>1, <2>4
<1> QED BY <1>2, <1>3, Zenon

\* When every earlier transaction is finalized the stores answer a read as the
\* serial execution of the published states does.
LEMMA StoreSerial ==
    ASSUME EstimateInv, ContentInv, ~cancelled, NEW i \in Tx, NEW rq \in Requests,
           \A j \in 0 .. (i - 1) : finalized[j]
    PROVE  /\ rq.cell \in Addrs => ReadDelta(rq.cell, i) = SerialObs(rq, i, Outs(states))
           /\ rq.cell \in Keys =>
                LET r == ReadVersionFull(rq.cell, i)
                IN  /\ ~r.est
                    /\ \/ /\ r = NotFound
                          /\ SerialObs(rq, i, Outs(states)) = Interpret(rq, -1, Nil)
                       \/ /\ r.found /\ r.writer \in 0 .. (i - 1) /\ r.val # Nil
                          /\ r.inc = incarnations[r.writer]
                          /\ r.val = Published(states[r.writer].out, rq.cell)
                          /\ SerialObs(rq, i, Outs(states)) = Interpret(rq, r.writer, r.val)
<1>1. \A j \in 0 .. (i - 1) : j \in Tx
  BY TransactionsAssumption DEF Tx, TransactionsAssumption
<1>2. StoreTypeOK /\ DOMAIN states = Tx
  BY Zenon DEF EstimateInv, TypeInv, TypeOK, PDBTypeOK
<1>3. \A j \in 0 .. (i - 1) : Outs(states)[j] = states[j].out
  BY <1>1, <1>2, Zenon DEF Outs
<1>4. ASSUME rq.cell \in Addrs PROVE ReadDelta(rq.cell, i) = SerialObs(rq, i, Outs(states))
  <2>1. \A j \in 0 .. (i - 1) : bals[rq.cell][j] = PublishedDelta(Outs(states)[j], rq.cell)
    <3> SUFFICES ASSUME NEW j \in 0 .. (i - 1)
                 PROVE  bals[rq.cell][j] = PublishedDelta(Outs(states)[j], rq.cell)
      BY Zenon
    <3>1. j \in Tx /\ finalized[j] /\ Outs(states)[j] = states[j].out
      BY <1>1, <1>3, Zenon
    <3>2. bals[rq.cell][j] = PublishedDelta(states[j].out, rq.cell)
      BY <1>4, <3>1, FinalCells, Zenon
    <3> QED BY <3>1, <3>2, Zenon
  <2> DEFINE D == [j \in 0 .. (i - 1) |-> bals[rq.cell][j]]
             E == [j \in 0 .. (i - 1) |-> PublishedDelta(Outs(states)[j], rq.cell)]
  <2>2. D = E
    BY <2>1, Zenon
  <2>3. ReadDelta(rq.cell, i) = SumDeltas(D) /\ SerialObs(rq, i, Outs(states)) = SumDeltas(E)
    BY <1>4, Zenon DEF ReadDelta, SerialObs
  <2> HIDE DEF D, E
  <2> QED BY <2>2, <2>3, Zenon
<1>5. ASSUME rq.cell \in Keys
      PROVE  LET r == ReadVersionFull(rq.cell, i)
             IN  /\ ~r.est
                 /\ \/ /\ r = NotFound
                       /\ SerialObs(rq, i, Outs(states)) = Interpret(rq, -1, Nil)
                    \/ /\ r.found /\ r.writer \in 0 .. (i - 1) /\ r.val # Nil
                       /\ r.inc = incarnations[r.writer]
                       /\ r.val = Published(states[r.writer].out, rq.cell)
                       /\ SerialObs(rq, i, Outs(states)) = Interpret(rq, r.writer, r.val)
  <2> DEFINE k   == rq.cell
             r   == ReadVersionFull(k, i)
             col == [j \in 0 .. (i - 1) |-> Published(Outs(states)[j], k)]
  <2>1. k \notin Addrs
    BY <1>5, TransactionsAssumption, Zenon DEF TransactionsAssumption
  <2>2. \A j \in 0 .. (i - 1) : mv[k][j] = EntryOf(states[j], incarnations[j], k, FALSE)
    BY <1>1, <1>5, FinalCells, Zenon
  <2>3. \A j \in 0 .. (i - 1) : col[j] = Published(states[j].out, k)
    BY <1>3, Zenon
  <2>4. SerialObs(rq, i, Outs(states))
          = Interpret(rq, LastIn(col), IF LastIn(col) = -1 THEN Nil ELSE col[LastIn(col)])
    BY <2>1, Zenon DEF SerialObs
  <2>5. DOMAIN col = 0 .. (i - 1)
    BY Zenon
  <2> HIDE DEF col
  <2>6. \A j \in 0 .. (i - 1) : /\ mv[k][j].there <=> col[j] # Nil
                                /\ mv[k][j].there => /\ mv[k][j].inc = incarnations[j]
                                                     /\ mv[k][j].val = col[j]
                                                     /\ ~mv[k][j].est
    <3> SUFFICES ASSUME NEW j \in 0 .. (i - 1)
                 PROVE  /\ mv[k][j].there <=> col[j] # Nil
                        /\ mv[k][j].there => /\ mv[k][j].inc = incarnations[j]
                                             /\ mv[k][j].val = col[j]
                                             /\ ~mv[k][j].est
      BY Zenon
    <3>1. CASE col[j] = Nil
      <4>1. mv[k][j] = Absent
        BY <2>2, <2>3, <3>1, Zenon DEF EntryOf
      <4>2. ~mv[k][j].there
        BY <4>1 DEF Absent
      <4> QED BY <3>1, <4>2, Zenon
    <3>2. CASE col[j] # Nil
      <4>1. mv[k][j] = [there |-> TRUE, inc |-> incarnations[j], val |-> states[j].out.writes[k], est |-> FALSE]
        BY <2>2, <2>3, <3>2, Zenon DEF EntryOf
      <4>2. states[j].out.writes[k] = col[j]
        BY <2>3, <3>2, Zenon DEF Published
      <4> QED BY <3>2, <4>1, <4>2
    <3> QED BY <3>1, <3>2, Zenon
  <2>7. CASE r = NotFound /\ \A j \in 0 .. (i - 1) : ~mv[k][j].there
    <3>1. LastIn(col) = -1
      BY <2>5, <2>6, <2>7, LastInColumn, Zenon
    <3>2. ~r.est
      BY <2>7 DEF NotFound
    <3> QED BY <2>4, <2>7, <3>1, <3>2, Zenon
  <2>8. ASSUME NEW w \in 0 .. (i - 1),
               mv[k][w].there,
               \A j \in 0 .. (i - 1) : mv[k][j].there => j <= w,
               r = [found |-> TRUE, writer |-> w, inc |-> mv[k][w].inc,
                    val |-> mv[k][w].val, est |-> mv[k][w].est]
        PROVE  /\ ~r.est /\ r.found /\ r.writer \in 0 .. (i - 1) /\ r.val # Nil
               /\ r.inc = incarnations[r.writer]
               /\ r.val = Published(states[r.writer].out, rq.cell)
               /\ SerialObs(rq, i, Outs(states)) = Interpret(rq, r.writer, r.val)
    <3>1. LastIn(col) = w
      BY <2>5, <2>6, <2>8, LastInColumn, Zenon
    <3>2. r.found /\ r.writer = w /\ r.inc = mv[k][w].inc /\ r.val = mv[k][w].val /\ r.est = mv[k][w].est
      BY <2>8
    <3>3. ~r.est
      BY <2>6, <2>8, <3>2, Zenon
    <3>4. r.inc = incarnations[w] /\ r.val = col[w] /\ col[w] # Nil
      BY <2>6, <2>8, <3>2, Zenon
    <3>5. w # -1
      OBVIOUS
    <3> HIDE DEF r
    <3> QED BY <2>3, <2>4, <3>1, <3>2, <3>3, <3>4, <3>5, Zenon
  <2> QED BY <1>2, <1>5, <2>7, <2>8, LatestEntry, TransactionsAssumption, Zenon
<1> QED BY <1>4, <1>5, Zenon

\* A recorded read that validation accepts is the serial one.
LEMMA ValidateSound ==
    ASSUME EstimateInv, ContentInv, ~cancelled, NEW i \in Tx,
           \A j \in 0 .. (i - 1) : finalized[j],
           NEW d, DescInv(d, i), ReadMatches(d, i)
    PROVE  Obs(d) = SerialObs(d.rq, i, Outs(states))
<1> DEFINE rq == d.rq
           r  == ReadVersionFull(rq.cell, i)
           so == SerialObs(rq, i, Outs(states))
<1>1. rq \in Requests /\ rq.cell \in Keys \cup Addrs /\ rq.after \in -1 .. (N - 1)
  BY Zenon DEF DescInv, Requests, Cells
<1>2. CASE rq.cell \in Addrs
  BY <1>1, <1>2, StoreSerial, Zenon DEF ReadMatches, Obs
<1>3. CASE rq.cell \in Keys
  <2>1. rq.cell \notin Addrs
    BY <1>3, TransactionsAssumption, Zenon DEF TransactionsAssumption
  <2>2. ~r.est /\ StoreReadMatches(d, r) /\ Obs(d) = Interpret(rq, d.writer, d.val)
    BY <1>1, <1>3, <2>1, StoreSerial, Zenon DEF ReadMatches, Obs
  <2>3. \/ r = NotFound /\ so = Interpret(rq, -1, Nil)
        \/ /\ r.found /\ r.writer \in 0 .. (i - 1) /\ r.val # Nil
           /\ r.inc = incarnations[r.writer]
           /\ r.val = Published(states[r.writer].out, rq.cell)
           /\ so = Interpret(rq, r.writer, r.val)
    BY <1>1, <1>3, StoreSerial, Zenon
  <2>4. \/ d.writer = -1 /\ d.inc = 0 /\ d.val = Default(rq) /\ ~d.exact
        \/ /\ d.writer \in 0 .. (i - 1) /\ d.val # Nil
           /\ d.exact <=> (rq.cell \in Markers \/ rq.after >= 0)
           /\ d.inc = incarnations[d.writer] => Published(pdb[d.writer].out, rq.cell) = d.val
    BY <1>3, Zenon DEF DescInv
  <2>5. \/ r.writer = d.writer /\ r.inc = d.inc
        \/ ~d.exact /\ r.found /\ d.val # Nil /\ r.val = d.val
        \/ ~r.found /\ d.val = Nil
    BY <2>2, Zenon DEF StoreReadMatches
  <2>6. /\ rq.cell \notin Markers => Default(rq) # Nil
        /\ rq.cell \in Markers => Default(rq) = Nil
    BY <1>3, TransactionsAssumption, Zenon DEF Default, TransactionsAssumption
  <2>7. ASSUME NEW w \in 0 .. (i - 1) PROVE states[w] = pdb[w]
    <3>1. w \in Tx
      BY TransactionsAssumption DEF Tx, TransactionsAssumption
    <3>2. pc[w] = "done" /\ PublishInv(w)
      BY <3>1, FinalThreadDone, Zenon DEF EstimateInv, QueueInv
    <3> QED BY <3>2, Zenon DEF PublishInv
  <2>8. i \in Int /\ (-1 \notin 0 .. (i - 1)) /\ rq.after \in Int
    BY <1>1, TransactionsAssumption DEF Tx, TransactionsAssumption
  <2>9. NotFound.writer = -1 /\ ~NotFound.found
    BY Zenon DEF NotFound
  <2> HIDE DEF r, so, rq
  <2>10. CASE r = NotFound
    <3>1. d.writer = -1
      BY <2>4, <2>5, <2>6, <2>9, <2>10, Zenon
    <3>2. so = Interpret(rq, -1, Nil)
      BY <2>3, <2>8, <2>9, <2>10, Zenon
    <3>3. d.val = Default(rq)
      BY <2>4, <2>8, <3>1, Zenon
    <3> QED BY <2>2, <3>1, <3>2, <3>3 DEF Interpret, so, rq
  <2>11. CASE r # NotFound /\ r.writer = d.writer /\ r.inc = d.inc
    <3>1. r.val = d.val
      BY <2>3, <2>4, <2>7, <2>8, <2>11, Zenon
    <3> QED BY <2>2, <2>3, <2>11, <3>1, Zenon DEF so, rq
  <2>12. CASE r # NotFound /\ ~d.exact /\ d.val # Nil /\ r.val = d.val
    <3>1. rq.cell \notin Markers /\ (d.writer = -1 \/ rq.after < 0)
      BY <2>4, <2>6, <2>8, <2>12
    <3>2. so = Interpret(rq, r.writer, r.val) /\ r.writer \in 0 .. (i - 1)
      BY <2>3, <2>12, Zenon
    <3>3. CASE d.writer = -1
      <4>1. d.val = Default(rq)
        BY <2>4, <2>8, <3>3, Zenon
      <4>2. rq.after >= 0 => r.val = Zero
        BY <2>12, <3>1, <4>1, Zenon DEF Default
      <4>3. r.writer > -1 /\ r.writer # -1 /\ rq.after >= -1
        BY <1>1, <2>8, <3>2 DEF rq
      <4> QED BY <2>2, <2>8, <2>12, <3>1, <3>2, <3>3, <4>1, <4>2, <4>3 DEF Interpret, so, rq
    <3>4. CASE rq.after < 0 /\ d.writer # -1
      <4>1. d.writer > rq.after /\ r.writer > rq.after /\ r.writer # -1
        BY <2>4, <2>8, <3>2, <3>4
      <4> QED BY <2>2, <2>12, <3>1, <3>2, <3>4, <4>1, Zenon DEF Interpret, so, rq
    <3> QED BY <3>1, <3>3, <3>4, Zenon
  <2> QED BY <2>3, <2>5, <2>10, <2>11, <2>12, Zenon
<1> QED BY <1>1, <1>2, <1>3, Zenon

-----------------------------------------------------------------------------
(***************************************************************************)
(* Serial equivalence.  A finalized run, and as much as has been read of a *)
(* re-execution, is the serial run over the published states.              *)
(***************************************************************************)

SerialReads(i, s) == \A d \in s.reads : Obs(d) = SerialObs(d.rq, i, Outs(states))

SerialInv(i) ==
    ~cancelled => /\ finalized[i] => SerialReads(i, states[i])
                  /\ incarnations[i] = 1 => SerialReads(i, pdb[i])

FullInv == EstimateInv /\ ContentInv /\ \A i \in Tx : LogInv(i) /\ SerialInv(i)

\* Everything before a finalized or re-executed transaction is finalized.
LEMMA BelowFinal ==
    ASSUME EstimateInv, ~cancelled, NEW i \in Tx, finalized[i] \/ incarnations[i] = 1,
           NEW j \in 0 .. (i - 1)
    PROVE  j \in Tx /\ finalized[j]
<1>1. j \in Tx /\ j < i /\ j \in Int /\ i \in Int /\ vi \in Int
  BY TransactionsAssumption DEF EstimateInv, TypeInv, TypeOK, Tx, TransactionsAssumption
<1>2. ThreadInv(i) /\ OrderInv(i) /\ OrderInv(j)
  BY <1>1, Zenon DEF EstimateInv, ControlInv
<1>3. i < vi
  <2>1. CASE finalized[i]
    BY <1>1, <1>2, <2>1 DEF OrderInv
  <2>2. CASE incarnations[i] = 1
    BY <1>1, <2>2 DEF EstimateInv, TypeInv
  <2> QED BY <2>1, <2>2, Zenon
<1>4. j < vi - 1
  BY <1>1, <1>3
<1> QED BY <1>1, <1>2, <1>4 DEF OrderInv

\* Only the validator finalizes a transaction or raises its incarnation.
LEMMA StatusStep ==
    ASSUME [Next]_vars
    PROVE  /\ finalized' = finalized \/ FinishReexec \/ ValidatePass
           /\ incarnations' = incarnations \/ LaunchReexec
<1> USE DEF ctxVars
<1>1. CASE \E i \in Tx : Execute(i)
  BY <1>1, Zenon DEF Execute, PassPrev, PassChain, AbortExecute, Return, Read, Finish, Flush,
              FlushEnd, Cleanup, CleanupEnd
<1>2. CASE FinishReexec \/ ValidatePass
  <2>1. incarnations' = incarnations
    BY <1>2, Zenon DEF FinishReexec, ValidatePass
  <2> QED BY <1>2, <2>1, Zenon
<1>3. CASE LaunchReexec
  <2>1. finalized' = finalized
    BY <1>3, Zenon DEF LaunchReexec
  <2> QED BY <1>3, <2>1, Zenon
<1>4. CASE ValidateFail \/ Mark \/ ValidationDrained \/ ValidationCancelled \/ ValidationPanics
  BY <1>4, Zenon DEF ValidateFail, Mark, ValidationDrained, ValidationCancelled, ValidationPanics
<1>5. CASE Dispatch \/ DispatchStops \/ TakeTask \/ Settle \/ Cancel \/ ReturnResult \/ UNCHANGED vars
  BY <1>5, Zenon DEF Dispatch, DispatchStops, TakeTask, Settle, Cancel, ReturnResult, vars
<1> QED BY <1>1, <1>2, <1>3, <1>4, <1>5, Zenon DEF Next, Validator

\* The published state of a finalized transaction does not change.
LEMMA FinalStateKept ==
    ASSUME EstimateInv, ~cancelled, [Next]_vars, NEW j \in Tx, finalized[j]
    PROVE  states'[j] = states[j] /\ pdb'[j] = pdb[j]
<1>1. pc[j] = "done" /\ j < vi /\ PublishInv(j) /\ vi \in Int /\ j \in Int
  BY FinalThreadDone, TransactionsAssumption
     DEF EstimateInv, QueueInv, TypeInv, TypeOK, Tx, TransactionsAssumption
<1>2. states[j] = pdb[j]
  BY <1>1, Zenon DEF PublishInv
<1>3. ~Read(j) /\ ~Finish(j) /\ j # vi
  BY <1>1 DEF Read, Finish
<1> QED BY <1>2, <1>3, RunStep

\* Serial observations stay serial: what is below is finalized.
LEMMA SerialReadsKept ==
    ASSUME EstimateInv, ~cancelled, [Next]_vars, NEW i \in Tx,
           \A j \in 0 .. (i - 1) : finalized[j],
           NEW s, SerialReads(i, s)
    PROVE  SerialReads(i, s)'
<1>1. \A j \in 0 .. (i - 1) : j \in Tx
  BY TransactionsAssumption DEF Tx, TransactionsAssumption
<1>2. \A j \in 0 .. (i - 1) : states'[j] = states[j]
  BY <1>1, FinalStateKept, Zenon
<1>3. DOMAIN states = Tx /\ DOMAIN states' = Tx
  <2>1. TypeInv /\ TypeInv'
    BY TypeStep, TransactionsAssumption, V2Assumption, Zenon DEF EstimateInv
  <2> QED BY <2>1, Zenon DEF TypeInv, TypeOK, PDBTypeOK
<1>4. \A rq : SerialObs(rq, i, Outs(states')) = SerialObs(rq, i, Outs(states))
  BY <1>2, <1>3, SerialObsLocal
<1>5. \A d \in s.reads : Obs(d) = SerialObs(d.rq, i, Outs(states'))
  BY <1>4, Zenon DEF SerialReads
<1> QED BY <1>5, Zenon DEF SerialReads, Outs

\* A read of a re-execution is the serial one.
LEMMA ReexecRead ==
    ASSUME EstimateInv, ContentInv, ~cancelled, NEW i \in Tx, NEW rq \in Requests, NEW l,
           \A j \in 0 .. (i - 1) : finalized[j]
    PROVE  /\ rq.cell \in Addrs =>
                Obs(BalanceRead(rq, l, i)) = SerialObs(rq, i, Outs(states))
           /\ rq.cell \in Keys =>
                Obs(StoreRead(rq, l, ReadVersionFull(rq.cell, i))) = SerialObs(rq, i, Outs(states))
<1>1. CASE rq.cell \in Addrs
  <2>1. rq.cell \notin Keys
    BY <1>1, TransactionsAssumption, Zenon DEF TransactionsAssumption
  <2>2. Obs(BalanceRead(rq, l, i)) = ReadDelta(rq.cell, i)
    BY <1>1, Zenon DEF Obs, BalanceRead
  <2> QED BY <1>1, <2>1, <2>2, StoreSerial, Zenon
<1>2. CASE rq.cell \in Keys
  <2>1. rq.cell \notin Addrs
    BY <1>2, TransactionsAssumption, Zenon DEF TransactionsAssumption
  <2>2. PICK r : r = ReadVersionFull(rq.cell, i)
    BY Zenon
  <2>3. PICK so : so = SerialObs(rq, i, Outs(states))
    BY Zenon
  <2>4. PICK d : d = StoreRead(rq, l, r)
    BY Zenon
  <2>5. /\ ~r.est
        /\ \/ r = NotFound /\ so = Interpret(rq, -1, Nil)
           \/ r.found /\ so = Interpret(rq, r.writer, r.val)
    BY <1>2, <2>2, <2>3, StoreSerial, Zenon
  <2>6. d.rq = rq
    BY <2>4, StoreReadFields
  <2>7. Obs(d) = Interpret(rq, d.writer, d.val)
    BY <2>1, <2>6, Zenon DEF Obs
  <2>8. CASE r = NotFound /\ so = Interpret(rq, -1, Nil)
    <3>1. d.writer = -1 /\ d.val = Default(rq)
      BY <2>4, <2>8, StoreReadFields
    <3>2. Obs(d) = so
      BY <2>7, <2>8, <3>1, Zenon DEF Interpret
    <3> QED BY <2>1, <2>2, <2>3, <2>4, <3>2, Zenon
  <2>9. CASE r.found /\ so = Interpret(rq, r.writer, r.val)
    <3>1. d.writer = r.writer /\ d.val = r.val
      BY <2>4, <2>5, <2>9, StoreReadFields
    <3> QED BY <2>1, <2>2, <2>3, <2>4, <2>7, <2>9, <3>1, Zenon
  <2> QED BY <2>5, <2>8, <2>9, Zenon
<1> QED BY <1>1, <1>2, Zenon

\* Every step keeps finalized runs and re-executions serial.
LEMMA SerialStep ==
    ASSUME FullInv, [Next]_vars, NEW i \in Tx
    PROVE  SerialInv(i)'
<1>1. EstimateInv /\ ContentInv /\ LogInv(i) /\ SerialInv(i) /\ TypeInv /\ ControlInv /\ TypeOK
  BY Zenon DEF FullInv, EstimateInv, TypeInv
<1> SUFFICES ASSUME ~cancelled'
             PROVE  /\ finalized'[i] => SerialReads(i, states[i])'
                    /\ incarnations'[i] = 1 => SerialReads(i, pdb[i])'
  BY Zenon DEF SerialInv
<1>2. ~cancelled
  BY <1>1, CancelMonotone, Zenon
<1>3. DOMAIN pdb = Tx /\ DOMAIN states = Tx
  BY <1>1, Zenon DEF TypeOK, PDBTypeOK
<1>4. ASSUME NEW s, SerialReads(i, s), \A j \in 0 .. (i - 1) : finalized[j]
      PROVE  /\ states'[i] = s => SerialReads(i, states[i])'
             /\ pdb'[i] = s => SerialReads(i, pdb[i])'
  <2>1. SerialReads(i, s)'
    BY <1>1, <1>2, <1>4, SerialReadsKept, Zenon
  <2> QED BY <2>1, Zenon DEF SerialReads
<1>5. ASSUME finalized'[i] PROVE SerialReads(i, states[i])'
  <2>1. CASE finalized[i]
    <3>1. states'[i] = states[i] /\ SerialReads(i, states[i])
      BY <1>1, <1>2, <2>1, FinalStateKept, Zenon DEF SerialInv
    <3>2. \A j \in 0 .. (i - 1) : finalized[j]
      BY <1>1, <1>2, <2>1, BelowFinal, Zenon
    <3>3. PICK s : s = states[i]
      BY Zenon
    <3> QED BY <1>4, <3>1, <3>2, <3>3, Zenon
  <2>2. CASE FinishReexec /\ ~finalized[i]
    <3>1. i = FirstPending /\ reexecDone[i] = "closed" /\ states' = states
      <4>1. finalized' = [finalized EXCEPT ![FirstPending] = TRUE] /\ finalized \in [Tx -> BOOLEAN]
        BY <1>1, <2>2, Zenon DEF FinishReexec, TypeOK
      <4> QED BY <1>5, <2>2, <4>1, Zenon DEF FinishReexec
    <3>2. incarnations[i] = 1 /\ pc[i] = "done" /\ PublishInv(i)
      BY <1>1, <3>1, Zenon DEF ControlInv, ThreadInv, EstimateInv, QueueInv
    <3>3. states[i] = pdb[i] /\ SerialReads(i, states[i])
      BY <1>1, <1>2, <3>2, Zenon DEF PublishInv, SerialInv
    <3>4. \A j \in 0 .. (i - 1) : finalized[j]
      BY <1>1, <1>2, <3>2, BelowFinal, Zenon
    <3>5. PICK s : s = states[i]
      BY Zenon
    <3> QED BY <1>4, <3>1, <3>3, <3>4, <3>5, Zenon
  <2>3. CASE ValidatePass /\ ~finalized[i]
    <3>1. i = vi /\ Validate(states[vi], vi) /\ states' = states /\ Pending = {}
      <4>1. finalized' = [finalized EXCEPT ![vi] = TRUE] /\ finalized \in [Tx -> BOOLEAN]
        BY <1>1, <2>3, Zenon DEF ValidatePass, TypeOK
      <4> QED BY <1>5, <2>3, <4>1, Zenon DEF ValidatePass
    <3>2. \A j \in 0 .. (i - 1) : finalized[j]
      <4> SUFFICES ASSUME NEW j \in 0 .. (i - 1) PROVE finalized[j]
        BY Zenon
      <4>1. j \in Tx /\ j < i
        BY TransactionsAssumption DEF Tx, TransactionsAssumption
      <4> QED BY <1>1, <3>1, <4>1, FirstNotFinal, Zenon
    <3>3. ASSUME NEW d \in states[i].reads PROVE Obs(d) = SerialObs(d.rq, i, Outs(states))
      <4>1. ReadMatches(d, i)
        BY <3>1, <3>3, Zenon DEF Validate
      <4>2. DescInv(d, i)
        BY <1>1, <1>2, <3>3, Zenon DEF LogInv
      <4> QED BY <1>1, <1>2, <3>2, <4>1, <4>2, ValidateSound, Zenon
    <3>4. SerialReads(i, states[i])
      BY <3>3, Zenon DEF SerialReads
    <3>5. PICK s : s = states[i]
      BY Zenon
    <3> QED BY <1>4, <3>1, <3>2, <3>4, <3>5, Zenon
  <2> QED BY <1>5, <2>1, <2>2, <2>3, StatusStep, Zenon
<1>6. ASSUME incarnations'[i] = 1 PROVE SerialReads(i, pdb[i])'
  <2>1. CASE LaunchReexec /\ i = vi
    <3>1. pdb'[i] = NewPDB(Prog(i), incarnations[vi] + 1)
      BY <1>3, <2>1, Zenon DEF LaunchReexec
    <3>2. pdb'[i].reads = {}
      BY <3>1 DEF NewPDB
    <3> QED BY <3>2, Zenon DEF SerialReads
  <2>2. CASE ~(LaunchReexec /\ i = vi)
    <3>1. incarnations[i] = 1
      <4>1. CASE incarnations' = incarnations
        BY <1>6, <4>1, Zenon
      <4>2. CASE LaunchReexec
        <5>1. i # vi /\ incarnations' = [incarnations EXCEPT ![vi] = @ + 1]
          BY <2>2, <4>2, Zenon DEF LaunchReexec
        <5>2. incarnations \in [Tx -> 0 .. 1]
          BY <1>1, Zenon DEF TypeOK
        <5> QED BY <1>6, <5>1, <5>2, Zenon
      <4> QED BY <4>1, <4>2, StatusStep, Zenon
    <3>2. SerialReads(i, pdb[i])
      BY <1>1, <1>2, <3>1, Zenon DEF SerialInv
    <3>3. \A j \in 0 .. (i - 1) : finalized[j]
      BY <1>1, <1>2, <3>1, BelowFinal, Zenon
    <3>4. CASE pdb'[i] = pdb[i]
      <4>1. PICK s : s = pdb[i]
        BY Zenon
      <4> QED BY <1>4, <3>2, <3>3, <3>4, <4>1, Zenon
    <3>5. CASE Finish(i)
      <4>1. pdb'[i].reads = pdb[i].reads
        BY <1>3, <3>5, Zenon DEF Finish
      <4>2. PICK s : s = pdb'[i]
        BY Zenon
      <4>3. SerialReads(i, s)
        BY <3>2, <4>1, <4>2 DEF SerialReads
      <4> QED BY <1>4, <3>3, <4>2, <4>3, Zenon
    <3>6. CASE Read(i)
      <4> DEFINE rq == NextRead(Prog(i), pdb[i].loc)
      <4>1. rq \in Requests
        <5>1. Prog(i) \in Programs
          BY <1>1, V2Assumption, Zenon DEF TypeOK, Prog, V2Assumption
        <5> QED BY <3>6, <5>1, TransactionsAssumption, Zenon DEF Read, TransactionsAssumption
      <4>2. PICK d : d = IF rq.cell \in Addrs
                         THEN BalanceRead(rq, pdb[i].loc, i)
                         ELSE StoreRead(rq, pdb[i].loc, ReadVersionFull(rq.cell, i))
        BY Zenon
      <4>3. pdb'[i].reads = pdb[i].reads \cup {d}
        BY <1>3, <3>6, <4>2, Zenon DEF Read
      <4>4. d.rq = rq
        BY <4>2, Zenon DEF BalanceRead, StoreRead
      <4>5. Obs(d) = SerialObs(rq, i, Outs(states))
        <5>1. rq.cell \in Addrs \/ rq.cell \in Keys
          BY <4>1, Zenon DEF Requests, Cells
        <5> HIDE DEF rq
        <5> QED BY <1>1, <1>2, <3>3, <4>1, <4>2, <5>1, ReexecRead, Zenon
      <4>6. PICK s : s = pdb'[i]
        BY Zenon
      <4> HIDE DEF rq
      <4>7. SerialReads(i, s)
        BY <3>2, <4>3, <4>4, <4>5, <4>6, Zenon DEF SerialReads
      <4> QED BY <1>4, <3>3, <4>6, <4>7, Zenon
    <3> QED BY <1>1, <2>2, <3>4, <3>5, <3>6, RunStep, Zenon
  <2> QED BY <2>1, <2>2, Zenon
<1> QED BY <1>5, <1>6, Zenon

\* The whole inductive invariant is an invariant of the executor.
LEMMA FullInvariant == Spec => []FullInv
<1>1. Init => \A i \in Tx : LogInv(i) /\ SerialInv(i)
  <2> SUFFICES ASSUME Init, NEW i \in Tx PROVE LogInv(i) /\ SerialInv(i)
    BY Zenon
  <2>1. finalized[i] = FALSE /\ incarnations[i] = 0
    BY Zenon DEF Init
  <2> QED BY <2>1, LogInit DEF SerialInv
<1>2. FullInv /\ [Next]_vars => (\A i \in Tx : LogInv(i) /\ SerialInv(i))'
  BY LogStep, SerialStep, Zenon DEF FullInv
<1> QED BY <1>1, <1>2, StoreInvariant, PTL DEF Spec, FullInv

\* Serial equivalence, for every block, every number of workers and every
\* scheduling: without a cancellation, the n-th settlement is transaction n - 1,
\* and its state is the one that transaction reaches when it runs over the
\* outcomes settled before it.
THEOREM SettledSerialHolds == Spec => []SettledSerial
<1>1. FullInv => SettledSerial
  <2> SUFFICES ASSUME FullInv, ~cancelled, NEW n \in DOMAIN settled
               PROVE  settled[n] = n - 1 /\ SerialRun(n - 1, applied[n - 1], Outs(applied))
    BY Zenon DEF SettledSerial
  <2>1. TypeOK /\ SettledInv /\ ExactInv /\ EstimateInv /\ ContentInv
    BY Zenon DEF FullInv, EstimateInv, TypeInv, QueueInv
  <2>2. \A m \in DOMAIN settled : /\ settled[m] = m - 1 /\ settled[m] \in Tx
                                  /\ finalized[m - 1] /\ applied[m - 1] = states[m - 1]
    <3>1. \A m \in DOMAIN settled : settled[m] = m - 1
      BY <2>1, Zenon DEF ExactInv
    <3>2. \A m \in DOMAIN settled : settled[m] \in Tx
      BY <2>1 DEF TypeOK
    <3> QED BY <2>1, <3>1, <3>2, Zenon DEF SettledInv
  <2>3. PICK i : i = n - 1
    BY Zenon
  <2>4. i \in Tx /\ finalized[i] /\ applied[i] = states[i] /\ settled[n] = i
    BY <2>2, <2>3, Zenon
  <2>5. \A j \in 0 .. (i - 1) : applied[j] = states[j]
    <3> SUFFICES ASSUME NEW j \in 0 .. (i - 1) PROVE applied[j] = states[j]
      BY Zenon
    <3>1. j + 1 \in DOMAIN settled /\ (j + 1) - 1 = j
      <4>1. DOMAIN settled = 1 .. Len(settled) /\ Len(settled) \in Nat
        BY <2>1 DEF TypeOK
      <4>2. n \in 1 .. Len(settled)
        BY <4>1, Zenon
      <4> QED BY <2>3, <4>1, <4>2
    <3> QED BY <2>2, <3>1, Zenon
  <2>6. DOMAIN applied = Tx /\ DOMAIN states = Tx
    BY <2>1, Zenon DEF TypeOK, PDBTypeOK
  <2>7. \A rq : SerialObs(rq, i, Outs(applied)) = SerialObs(rq, i, Outs(states))
    BY <2>4, <2>5, <2>6, SerialObsLocal
  <2>8. RunInv(Prog(i), states[i]) /\ SerialReads(i, states[i])
    BY <2>4, Zenon DEF FullInv, LogInv, SerialInv
  <2>9. states[i].done
    <3>1. pc[i] = "done" /\ PublishInv(i)
      BY <2>1, <2>4, FinalThreadDone, Zenon DEF EstimateInv, QueueInv
    <3> QED BY <3>1, Zenon DEF PublishInv
  <2>10. SerialRun(i, states[i], Outs(applied))
    BY <2>7, <2>8, <2>9, Zenon DEF SerialRun, RunInv, SerialReads
  <2> QED BY <2>3, <2>4, <2>10, Zenon
<1> QED BY <1>1, FullInvariant, PTL

=============================================================================
