-------------------------- MODULE V2ExecutorProofs --------------------------
(***************************************************************************)
(* Proofs about V2Executor, for every block, every number of transactions, *)
(* workers, keys and addresses, and every transaction automaton.           *)
(***************************************************************************)
EXTENDS V2Executor, WellFoundedInduction, TLAPS

-----------------------------------------------------------------------------
(***************************************************************************)
(* The latest entry of a column.                                           *)
(***************************************************************************)

\* A non-empty set of indices below n has a greatest element, which is what
\* the binary search in the store finds.
LEMMA MaxIndex ==
    ASSUME NEW n \in Nat, NEW S \in SUBSET (0 .. (n - 1)), S # {}
    PROVE  Max(S) \in S /\ \A y \in S : Max(S) >= y
<1> DEFINE R == {ss \in Nat \X Nat : ss[1] < ss[2]}
           T == {n - x : x \in S}
<1>1. IsWellFoundedOn(R, Nat)
  BY NatLessThanWellFounded, Zenon DEF OpToRel
<1>2. T \subseteq Nat /\ T # {}
  <2>1. \A x \in S : n - x \in Nat
    OBVIOUS
  <2>2. PICK x \in S : TRUE
    BY Zenon
  <2>3. n - x \in T
    BY <2>2, Zenon
  <2> QED BY <2>1, <2>3, Zenon
<1>3. PICK t \in T : \A y \in T : ~ (<<y, t>> \in R)
  <2> HIDE DEF R, T
  <2> QED BY <1>1, <1>2, WFMin, Zenon
<1>4. PICK x \in S : t = n - x
  BY Zenon
<1>5. \A y \in S : x >= y
  <2> SUFFICES ASSUME NEW y \in S PROVE x >= y
    BY Zenon
  <2>1. n - y \in T /\ n - y \in Nat /\ t \in Nat
    BY <1>2, Zenon
  <2>2. ~ (n - y < t)
    BY <1>3, <2>1, Zenon
  <2> QED BY <1>4, <2>2
<1> QED BY <1>4, <1>5, Zenon DEF Max

\* A non-empty set of naturals has a least element.
LEMMA MinIndex ==
    ASSUME NEW S \in SUBSET Nat, S # {}
    PROVE  Min(S) \in S
<1> DEFINE R == {ss \in Nat \X Nat : ss[1] < ss[2]}
<1>1. IsWellFoundedOn(R, Nat)
  BY NatLessThanWellFounded, Zenon DEF OpToRel
<1>2. PICK x \in S : \A y \in S : ~ (<<y, x>> \in R)
  <2> HIDE DEF R
  <2> QED BY <1>1, WFMin, Zenon
<1>3. \A y \in S : x <= y
  <2> SUFFICES ASSUME NEW y \in S PROVE x <= y
    BY Zenon
  <2>1. x \in Nat /\ y \in Nat
    BY Zenon
  <2>2. ~ (y < x)
    BY <1>2, <2>1, Zenon
  <2> QED BY <2>1, <2>2
<1> QED BY <1>3, Zenon DEF Min

\* ReadVersionFull finds nothing, or the entry of the latest earlier writer.
LEMMA LatestEntry ==
    ASSUME TransactionsAssumption, StoreTypeOK, NEW k \in Keys, NEW i \in Tx
    PROVE  \/ /\ ReadVersionFull(k, i) = NotFound
              /\ \A j \in 0 .. (i - 1) : ~mv[k][j].there
           \/ \E w \in 0 .. (i - 1) :
                /\ mv[k][w].there
                /\ \A j \in 0 .. (i - 1) : mv[k][j].there => j <= w
                /\ ReadVersionFull(k, i) =
                        [found |-> TRUE, writer |-> w, inc |-> mv[k][w].inc,
                         val |-> mv[k][w].val, est |-> mv[k][w].est]
<1> DEFINE col == [j \in 0 .. (i - 1) |-> mv[k][j]]
           S   == {j \in 0 .. (i - 1) : mv[k][j].there}
<1>1. i \in Nat
  BY DEF TransactionsAssumption, Tx
<1>2. CASE S = {}
  BY <1>2, Zenon DEF ReadVersionFull, LatestOf
<1>3. CASE S # {}
  <2>1. Max(S) \in S /\ \A y \in S : Max(S) >= y
    BY <1>1, <1>3, MaxIndex, Zenon
  <2>2. {j \in DOMAIN col : col[j].there} = S
    BY Zenon
  <2>3. ~ \A j \in DOMAIN col : ~col[j].there
    BY <1>3, Zenon
  <2>4. ReadVersionFull(k, i) = [found |-> TRUE, writer |-> Max(S), inc |-> col[Max(S)].inc,
                                 val |-> col[Max(S)].val, est |-> col[Max(S)].est]
    BY <2>2, <2>3, Zenon DEF ReadVersionFull, LatestOf
  <2>5. Max(S) \in 0 .. (i - 1) /\ col[Max(S)] = mv[k][Max(S)] /\ mv[k][Max(S)].there
    BY <2>1, Zenon
  <2>6. \A j \in 0 .. (i - 1) : mv[k][j].there => j <= Max(S)
    BY <2>1, <1>1, Zenon
  <2> HIDE DEF S, col
  <2> QED BY <2>4, <2>5, <2>6, Zenon
<1> QED BY <1>2, <1>3, Zenon

\* The version a read finds is a version of the block.
LEMMA EntryType ==
    ASSUME TransactionsAssumption, StoreTypeOK, NEW k \in Keys, NEW i \in Tx
    PROVE  /\ ReadVersionFull(k, i).writer \in -1 .. (N - 1)
           /\ ReadVersionFull(k, i).inc \in 0 .. 1
<1>1. CASE ReadVersionFull(k, i) = NotFound
  BY <1>1 DEF NotFound, TransactionsAssumption
<1>2. CASE ReadVersionFull(k, i) # NotFound
  <2>1. PICK w \in 0 .. (i - 1) :
            ReadVersionFull(k, i) = [found |-> TRUE, writer |-> w, inc |-> mv[k][w].inc,
                                     val |-> mv[k][w].val, est |-> mv[k][w].est]
    BY <1>2, LatestEntry, Zenon
  <2>2. w \in Tx
    BY DEF Tx, TransactionsAssumption
  <2>3. mv[k][w] \in Entries
    BY <2>2 DEF StoreTypeOK
  <2> QED BY <2>1, <2>2, <2>3 DEF Entries, Tx, TransactionsAssumption
<1> QED BY <1>1, <1>2, Zenon

\* Every operation on the stores keeps their types.
LEMMA StoreOps ==
    ASSUME StoreTypeOK, NEW i \in Tx
    PROVE  /\ \A k \in Keys, n \in 0 .. 1, v \in Values \cup {Nil} :
                WriteInc(k, i, n, v) /\ UNCHANGED bals => StoreTypeOK'
           /\ \A k \in Keys : MarkEstimate(k, i) /\ UNCHANGED bals => StoreTypeOK'
           /\ \A k \in Keys : CleanupEstimate(k, i) /\ UNCHANGED bals => StoreTypeOK'
           /\ \A a \in Addrs, d \in Deltas :
                WriteDelta(a, i, d) /\ UNCHANGED mv => StoreTypeOK'
           /\ \A a \in Addrs : ZeroDeltaAt(a, i) /\ UNCHANGED mv => StoreTypeOK'
           /\ \A a \in Addrs : DeleteSingle(a, i) /\ UNCHANGED mv => StoreTypeOK'
<1>1. Absent \in Entries /\ ZeroDelta \in Deltas
  BY DEF Absent, Entries, ZeroDelta, Deltas
<1>2. ASSUME NEW k \in Keys, NEW e \in Entries, mv' = [mv EXCEPT ![k][i] = e], UNCHANGED bals
      PROVE  StoreTypeOK'
  BY <1>2, Zenon DEF StoreTypeOK
<1>3. ASSUME NEW a \in Addrs, NEW d \in Deltas, bals' = [bals EXCEPT ![a][i] = d], UNCHANGED mv
      PROVE  StoreTypeOK'
  BY <1>3, Zenon DEF StoreTypeOK
<1>4. ASSUME NEW k \in Keys, NEW n \in 0 .. 1, NEW v \in Values \cup {Nil},
             WriteInc(k, i, n, v), UNCHANGED bals
      PROVE  StoreTypeOK'
  <2>1. [there |-> TRUE, inc |-> n, val |-> v, est |-> FALSE] \in Entries
    BY Zenon DEF Entries
  <2> QED BY <1>2, <1>4, <2>1, Zenon DEF WriteInc
<1>5. ASSUME NEW k \in Keys, MarkEstimate(k, i), UNCHANGED bals
      PROVE  StoreTypeOK'
  <2> DEFINE e == mv[k][i]
  <2>1. e \in Entries
    BY Zenon DEF StoreTypeOK
  <2>2. [e EXCEPT !.est = TRUE] \in Entries
    BY <2>1, Zenon DEF Entries
  <2>3. (IF e.there THEN [e EXCEPT !.est = TRUE] ELSE e) \in Entries
    BY <2>1, <2>2, Zenon
  <2>4. mv' = [mv EXCEPT ![k][i] = IF e.there THEN [e EXCEPT !.est = TRUE] ELSE e]
    BY <1>5, Zenon DEF MarkEstimate, StoreTypeOK
  <2> QED BY <1>2, <1>5, <2>3, <2>4, Zenon
<1>6. ASSUME NEW k \in Keys, CleanupEstimate(k, i), UNCHANGED bals
      PROVE  StoreTypeOK'
  <2> DEFINE e == mv[k][i]
  <2>1. e \in Entries
    BY Zenon DEF StoreTypeOK
  <2>2. (IF e.there /\ e.est THEN Absent ELSE e) \in Entries
    BY <2>1, <1>1, Zenon
  <2>3. mv' = [mv EXCEPT ![k][i] = IF e.there /\ e.est THEN Absent ELSE e]
    BY <1>6, Zenon DEF CleanupEstimate, StoreTypeOK
  <2> QED BY <1>2, <1>6, <2>2, <2>3, Zenon
<1>7. ASSUME NEW a \in Addrs, NEW d \in Deltas, WriteDelta(a, i, d), UNCHANGED mv
      PROVE  StoreTypeOK'
  <2> DEFINE b == bals[a][i]
  <2>1. [add |-> b.add + d.add, sub |-> b.sub + d.sub] \in Deltas
    BY DEF StoreTypeOK, Deltas
  <2>2. bals' = [bals EXCEPT ![a][i] = [add |-> b.add + d.add, sub |-> b.sub + d.sub]]
    BY <1>7, Zenon DEF WriteDelta, StoreTypeOK
  <2> QED BY <1>3, <1>7, <2>1, <2>2, Zenon
<1>8. ASSUME NEW a \in Addrs, ZeroDeltaAt(a, i) \/ DeleteSingle(a, i), UNCHANGED mv
      PROVE  StoreTypeOK'
  BY <1>1, <1>3, <1>8, Zenon DEF ZeroDeltaAt, DeleteSingle
<1> QED BY <1>4, <1>5, <1>6, <1>7, <1>8, Zenon

-----------------------------------------------------------------------------
(***************************************************************************)
(* Type correctness.  The bound on incarnations needs that transactions    *)
(* the validator has not passed are still in their first incarnation.      *)
(***************************************************************************)

TypeInv ==
    /\ TypeOK
    /\ vpc = "mark" => vi < N
    /\ \A j \in Tx : j >= vi => incarnations[j] = 0

\* NewParallelStateDB gives a well-formed state.
LEMMA FreshPDB ==
    ASSUME NEW p, NEW n \in 0 .. 1
    PROVE  IsPDB(NewPDB(p, n))
<1>1. NoOutcome \in Outcomes
  BY Zenon DEF NoOutcome, Outcomes, Statuses, Deltas, ZeroDelta
<1> QED BY <1>1, Zenon DEF IsPDB, NewPDB

\* Replacing one state keeps the others well-formed.
LEMMA PDBUpdate ==
    ASSUME NEW f, PDBTypeOK(f), NEW i \in Tx, NEW s, IsPDB(s)
    PROVE  PDBTypeOK([f EXCEPT ![i] = s])
BY Zenon DEF PDBTypeOK

\* The type invariant holds when the goroutines start.
LEMMA TypeInit ==
    ASSUME TransactionsAssumption, V2Assumption, Init
    PROVE  TypeInv
<1>2. PDBTypeOK(pdb) /\ PDBTypeOK(states) /\ PDBTypeOK(applied)
  <2>1. ASSUME NEW i \in Tx PROVE IsPDB(NewPDB(Prog(i), 0))
    BY FreshPDB
  <2> QED BY <2>1, Zenon DEF Init, PDBTypeOK
<1>3. StoreTypeOK
  BY DEF Init, StoreInit, StoreTypeOK, Absent, Entries, ZeroDelta, Deltas
<1>4. /\ block \in Blocks /\ cancelled \in BOOLEAN /\ dispatched \in BOOLEAN
      /\ returned \in BOOLEAN /\ vpc = "loop"
  BY Zenon DEF Init
<1>6. nextTask \in 0 .. N /\ vi \in 0 .. N
  BY DEF Init, TransactionsAssumption
<1>7. taskCh \in Seq(Tx) /\ chSettle \in Seq(Tx) /\ settled \in Seq(Tx)
  BY DEF Init
<1>5. /\ pc \in [Tx -> {"idle", "queued", "cleanup", "done"} \cup Running]
      /\ todo \in [Tx -> SUBSET Cells]
      /\ incarnations = [i \in Tx |-> 0]
      /\ vfailed \in [Tx -> BOOLEAN] /\ finalized \in [Tx -> BOOLEAN]
      /\ execDone \in [Tx -> BOOLEAN]
      /\ reexecDone \in [Tx -> {"nil", "open", "closed"}]
  BY Zenon DEF Init
<1> QED BY <1>2, <1>3, <1>4, <1>5, <1>6, <1>7 DEF TypeInv, TypeOK

\* The re-execution finishReexec waits for is one that is pending.
LEMMA FirstPendingIsPending ==
    ASSUME TransactionsAssumption, Pending # {}
    PROVE  FirstPending \in Pending /\ FirstPending \in Tx
<1>1. Pending \subseteq Tx /\ Pending \in SUBSET Nat
  BY DEF Pending, Tx, TransactionsAssumption
<1>2. Min(Pending) \in Pending
  BY <1>1, MinIndex, Zenon
<1> QED BY <1>1, <1>2, Zenon DEF FirstPending

\* Only these steps change a run: a read, its end, and the launch of a
\* re-execution (execute, dispatchReexec).
LEMMA PdbStep ==
    ASSUME [Next]_vars
    PROVE  pdb' = pdb \/ LaunchReexec \/ \E i \in Tx : Read(i) \/ Finish(i)
BY Zenon DEF Next, vars, execVars, Dispatch, DispatchStops, TakeTask, Execute, PassPrev, PassChain,
       AbortExecute, Return, Flush, FlushEnd, Cleanup, CleanupEnd, Validator, FinishReexec,
       ValidatePass, ValidateFail, Mark, ValidationDrained, ValidationCancelled,
       ValidationPanics, Settle, Cancel, ReturnResult

\* Only the end of execute() publishes a state.
LEMMA StatesStep ==
    ASSUME [Next]_vars
    PROVE  states' = states \/ \E i \in Tx : Return(i, states[i]) \/ Return(i, pdb[i])
BY Zenon DEF Next, vars, ctxVars, Dispatch, DispatchStops, TakeTask, Execute, PassPrev, PassChain,
       AbortExecute, Read, Finish, Flush, FlushEnd, Cleanup, CleanupEnd, Validator,
       FinishReexec, ValidatePass, ValidateFail, Mark, LaunchReexec, ValidationDrained,
       ValidationCancelled, ValidationPanics, Settle, Cancel, ReturnResult

\* Only settlement applies a state.
LEMMA AppliedStep ==
    ASSUME [Next]_vars
    PROVE  applied' = applied \/ Settle
BY Zenon DEF Next, vars, settleVars, Dispatch, DispatchStops, TakeTask, Execute, PassPrev, PassChain,
       AbortExecute, Return, Read, Finish, Flush, FlushEnd, Cleanup, CleanupEnd, Validator,
       FinishReexec, ValidatePass, ValidateFail, Mark, LaunchReexec, ValidationDrained,
       ValidationCancelled, ValidationPanics, Cancel, ReturnResult

\* Only these steps choose cells to handle, or handle one.
LEMMA TodoStep ==
    ASSUME [Next]_vars
    PROVE  \/ todo' = todo \/ ValidateFail \/ Mark
           \/ \E i \in Tx : Finish(i) \/ Flush(i) \/ Cleanup(i) \/ \E s : Return(i, s)
BY Zenon DEF Next, vars, execVars, Dispatch, DispatchStops, TakeTask, Execute, PassPrev, PassChain,
       AbortExecute, Read, FlushEnd, CleanupEnd, Validator, FinishReexec, ValidatePass,
       LaunchReexec, ValidationDrained, ValidationCancelled, ValidationPanics, Settle,
       Cancel, ReturnResult

\* Only a flush, a cleanup and the marking of ESTIMATEs write to the stores.
LEMMA StoreStep ==
    ASSUME [Next]_vars
    PROVE  UNCHANGED storeVars \/ Mark \/ \E i \in Tx : Flush(i) \/ Cleanup(i)
BY Zenon DEF Next, vars, Dispatch, DispatchStops, TakeTask, Execute, PassPrev, PassChain,
       AbortExecute, Return, Read, Finish, FlushEnd, CleanupEnd, Validator, FinishReexec,
       ValidatePass, ValidateFail, LaunchReexec, ValidationDrained, ValidationCancelled,
       ValidationPanics, Settle, Cancel, ReturnResult

\* The part of the type invariant about control.
ControlType ==
    /\ block \in Blocks /\ cancelled \in BOOLEAN /\ returned \in BOOLEAN
    /\ nextTask \in 0 .. N /\ dispatched \in BOOLEAN /\ taskCh \in Seq(Tx)
    /\ pc \in [Tx -> {"idle", "queued", "cleanup", "done"} \cup Running]
    /\ incarnations \in [Tx -> 0 .. 1]
    /\ vfailed \in [Tx -> BOOLEAN] /\ finalized \in [Tx -> BOOLEAN]
    /\ execDone \in [Tx -> BOOLEAN]
    /\ reexecDone \in [Tx -> {"nil", "open", "closed"}]
    /\ vi \in 0 .. N /\ vpc \in {"loop", "mark", "ended", "panicked"}
    /\ chSettle \in Seq(Tx) /\ settled \in Seq(Tx)
    /\ vpc = "mark" => vi < N
    /\ \A j \in Tx : j >= vi => incarnations[j] = 0

StateType == PDBTypeOK(pdb) /\ PDBTypeOK(states) /\ PDBTypeOK(applied)

TodoType == todo \in [Tx -> SUBSET Cells]

\* The parts of the type invariant.
LEMMA TypeParts ==
    TypeInv <=> ControlType /\ StateType /\ TodoType /\ StoreTypeOK
BY Zenon DEF TypeInv, TypeOK, ControlType, StateType, TodoType

\* Every step keeps the types of the control state.
LEMMA ControlTypeStep ==
    ASSUME TransactionsAssumption, ControlType, [Next]_vars
    PROVE  ControlType'
<1> USE DEF ControlType, taskVars, execVars, ctxVars, valVars, settleVars
<1>1. CASE Dispatch
  <2>1. nextTask \in Tx /\ nextTask' \in 0 .. N
    BY <1>1 DEF Dispatch, TransactionsAssumption, Tx
  <2>2. taskCh' \in Seq(Tx) /\ dispatched' \in BOOLEAN
    BY <1>1, <2>1 DEF Dispatch
  <2>3. pc' \in [Tx -> {"idle", "queued", "cleanup", "done"} \cup Running]
    BY <1>1, <2>1, Zenon DEF Dispatch
  <2> QED BY <1>1, <2>1, <2>2, <2>3, Zenon DEF Dispatch
<1>2. CASE DispatchStops
  BY <1>2, Zenon DEF DispatchStops
<1>3. CASE TakeTask
  BY <1>3 DEF TakeTask, FirstPC, Running
<1>4. ASSUME NEW i \in Tx, PassPrev(i) \/ PassChain(i) PROVE ControlType'
  BY <1>4 DEF PassPrev, PassChain, Running
<1>5. ASSUME NEW i \in Tx, NEW s, Return(i, s) PROVE ControlType'
  BY <1>5, Zenon DEF Return
<1>6. ASSUME NEW i \in Tx, AbortExecute(i) \/ FlushEnd(i) PROVE ControlType'
  BY <1>5, <1>6, Zenon DEF AbortExecute, FlushEnd
<1>7. ASSUME NEW i \in Tx, Read(i) PROVE ControlType'
  BY <1>7, Zenon DEF Read
<1>8. ASSUME NEW i \in Tx, Finish(i) PROVE ControlType'
  BY <1>8, Zenon DEF Finish, Running
<1>9. ASSUME NEW i \in Tx, Flush(i) \/ Cleanup(i) PROVE ControlType'
  BY <1>9, Zenon DEF Flush, Cleanup
<1>10. ASSUME NEW i \in Tx, CleanupEnd(i) PROVE ControlType'
  BY <1>10, Zenon DEF CleanupEnd
<1>11. CASE FinishReexec
  <2>1. FirstPending \in Tx
    BY <1>11, FirstPendingIsPending, Zenon DEF FinishReexec
  <2> QED BY <1>11, <2>1 DEF FinishReexec
<1>12. CASE ValidatePass
  <2>1. vi \in Tx /\ vi' = vi + 1 /\ vi' \in 0 .. N /\ vpc' \in {"loop", "ended"}
    BY <1>12 DEF ValidatePass, NextIteration, Tx, TransactionsAssumption
  <2>2. finalized' \in [Tx -> BOOLEAN] /\ chSettle' \in Seq(Tx)
    BY <1>12, <2>1 DEF ValidatePass
  <2> QED BY <1>12, <2>1, <2>2 DEF ValidatePass, Tx
<1>13. CASE ValidateFail
  BY <1>13, Zenon DEF ValidateFail
<1>14. CASE Mark
  BY <1>14, Zenon DEF Mark
<1>15. CASE LaunchReexec
  <2>1. vi \in Tx /\ incarnations[vi] = 0
    BY <1>15 DEF LaunchReexec, Tx, TransactionsAssumption
  <2>2. pc' \in [Tx -> {"idle", "queued", "cleanup", "done"} \cup Running]
    BY <1>15, Zenon DEF LaunchReexec, FirstPC, Running
  <2>3. /\ vi' = vi + 1 /\ vi' \in 0 .. N /\ vpc' \in {"loop", "ended"}
        /\ incarnations' = [incarnations EXCEPT ![vi] = 1]
    BY <1>15, <2>1 DEF LaunchReexec, NextIteration, Tx, TransactionsAssumption
  <2>4. vfailed' \in [Tx -> BOOLEAN] /\ reexecDone' \in [Tx -> {"nil", "open", "closed"}]
    BY <1>15, <2>1, Zenon DEF LaunchReexec
  <2> QED BY <1>15, <2>1, <2>2, <2>3, <2>4 DEF LaunchReexec, Tx
<1>16. CASE ValidationDrained \/ ValidationCancelled \/ ValidationPanics
  BY <1>16, Zenon DEF ValidationDrained, ValidationCancelled, ValidationPanics
<1>17. CASE Settle
  BY <1>17 DEF Settle
<1>18. CASE Cancel
  BY <1>18, Zenon DEF Cancel
<1>19. CASE ReturnResult
  BY <1>19, Zenon DEF ReturnResult
<1>20. CASE UNCHANGED vars
  BY <1>20, Zenon DEF vars
<1> HIDE DEF ControlType
<1> QED
  BY <1>1, <1>2, <1>3, <1>4, <1>6, <1>7, <1>8, <1>9, <1>10, <1>11, <1>12, <1>13,
     <1>14, <1>15, <1>16, <1>17, <1>18, <1>19, <1>20, Zenon
  DEF Next, Execute, Validator

\* A run, its outcome included, has its type after one more read and after the
\* end of the run.
LEMMA RunTypeStep ==
    ASSUME TransactionsAssumption, V2Assumption, TypeInv, NEW i \in Tx, Read(i) \/ Finish(i)
    PROVE  PDBTypeOK(pdb)'
<1>t. IsPDB(pdb[i]) /\ PDBTypeOK(pdb) /\ StoreTypeOK /\ block \in Blocks
  BY Zenon DEF TypeInv, TypeOK, PDBTypeOK
<1>1. CASE Read(i)
  <2> DEFINE s  == pdb[i]
             rq == NextRead(Prog(i), s.loc)
             r  == ReadVersionFull(rq.cell, i)
             d  == IF rq.cell \in Addrs THEN BalanceRead(rq, s.loc, i)
                                        ELSE StoreRead(rq, s.loc, r)
             s2 == [done |-> FALSE, inc |-> s.inc, loc |-> Step(Prog(i), s.loc, Obs(d)),
                    reads |-> s.reads \cup {d}, out |-> NoOutcome]
  <2>1. rq \in Requests
    BY <1>t, <1>1, Zenon DEF Read, Prog, TransactionsAssumption, V2Assumption
  <2>2. d.writer \in -1 .. (N - 1) /\ d.inc \in 0 .. 1
    <3>1. CASE rq.cell \in Addrs
      <4> HIDE DEF rq, r, s
      <4>1. d.writer = -1 /\ d.inc = 0
        BY <3>1, Zenon DEF BalanceRead
      <4> HIDE DEF d
      <4> QED BY <4>1 DEF TransactionsAssumption
    <3>2. CASE rq.cell \notin Addrs
      <4>1. rq.cell \in Keys
        BY <2>1, <3>2, Zenon DEF Requests, Cells
      <4>2. r.writer \in -1 .. (N - 1) /\ r.inc \in 0 .. 1
        BY <1>t, <4>1, EntryType, Zenon
      <4> HIDE DEF rq, r, s
      <4>3. \/ d.writer = -1 /\ d.inc = 0
            \/ d.writer = r.writer /\ d.inc = r.inc
        BY <3>2, Zenon DEF StoreRead, NotFound
      <4> HIDE DEF d
      <4> QED BY <4>2, <4>3 DEF TransactionsAssumption
    <3> HIDE DEF d, rq
    <3> QED BY <3>1, <3>2, Zenon
  <2>3. pdb' = [pdb EXCEPT ![i] = s2]
    BY <1>1, Zenon DEF Read
  <2>4. IsPDB(s2)
    <3>1. IsPDB(NewPDB(Prog(i), 0)) /\ IsPDB(s)
      BY <1>t, FreshPDB
    <3> HIDE DEF d, s
    <3> QED BY <2>2, <3>1, Zenon DEF IsPDB, NewPDB
  <2> HIDE DEF s2
  <2> QED BY <1>t, <2>3, <2>4, PDBUpdate, Zenon
<1>2. CASE Finish(i)
  <2> DEFINE s == [done |-> TRUE, inc |-> pdb[i].inc, loc |-> pdb[i].loc,
                   reads |-> pdb[i].reads, out |-> Output(Prog(i), pdb[i].loc)]
  <2>1. IsPDB(s)
    <3>2. Output(Prog(i), pdb[i].loc) \in Outcomes
      BY <1>t, <1>2, Zenon DEF Finish, Prog, TransactionsAssumption, V2Assumption
    <3> QED BY <1>t, <3>2, Zenon DEF IsPDB
  <2>2. pdb' = [pdb EXCEPT ![i] = s]
    BY <1>2, Zenon DEF Finish
  <2> HIDE DEF s
  <2> QED BY <1>t, <2>1, <2>2, PDBUpdate, Zenon
<1> QED BY <1>1, <1>2, Zenon

\* Every step keeps the runs in their type.
LEMMA StateTypeStep ==
    ASSUME TransactionsAssumption, V2Assumption, TypeInv, [Next]_vars
    PROVE  StateType'
<1>1. PDBTypeOK(pdb)'
  <2>1. PDBTypeOK(pdb)
    BY Zenon DEF TypeInv, TypeOK
  <2>2. CASE LaunchReexec
    <3>1. vi \in Tx /\ incarnations[vi] = 0
      BY <2>2 DEF LaunchReexec, TypeInv, TypeOK, Tx, TransactionsAssumption
    <3>2. IsPDB(NewPDB(Prog(vi), incarnations[vi] + 1))
      BY <3>1, FreshPDB
    <3> QED BY <2>1, <2>2, <3>1, <3>2, PDBUpdate, Zenon DEF LaunchReexec
  <2>3. CASE pdb' = pdb
    BY <2>1, <2>3, Zenon DEF PDBTypeOK
  <2> QED BY <2>2, <2>3, RunTypeStep, PdbStep, Zenon
<1>2. PDBTypeOK(states)'
  <2>1. PDBTypeOK(states) /\ PDBTypeOK(pdb)
    BY Zenon DEF TypeInv, TypeOK
  <2>2. ASSUME NEW i \in Tx, NEW s, Return(i, s), IsPDB(s) PROVE PDBTypeOK(states)'
    BY <2>1, <2>2, PDBUpdate, Zenon DEF Return
  <2>3. \A i \in Tx : IsPDB(states[i]) /\ IsPDB(pdb[i])
    BY <2>1, Zenon DEF PDBTypeOK
  <2>4. CASE states' = states
    BY <2>1, <2>4, Zenon DEF PDBTypeOK
  <2> QED BY <2>2, <2>3, <2>4, StatesStep, Zenon
<1>3. PDBTypeOK(applied)'
  <2>1. PDBTypeOK(applied) /\ PDBTypeOK(states) /\ chSettle \in Seq(Tx)
    BY Zenon DEF TypeInv, TypeOK
  <2>2. CASE Settle
    <3> DEFINE i == Head(chSettle)
    <3>1. i \in Tx /\ applied' = [applied EXCEPT ![i] = states[i]]
      BY <2>1, <2>2 DEF Settle
    <3>2. IsPDB(states[i])
      BY <2>1, <3>1, Zenon DEF PDBTypeOK
    <3> HIDE DEF i
    <3> QED BY <2>1, <3>1, <3>2, PDBUpdate, Zenon
  <2>3. CASE applied' = applied
    BY <2>1, <2>3, Zenon DEF PDBTypeOK
  <2> QED BY <2>2, <2>3, AppliedStep, Zenon
<1> QED BY <1>1, <1>2, <1>3, Zenon DEF StateType

\* Every step keeps the cells still to be handled in their type.
LEMMA TodoTypeStep ==
    ASSUME TypeInv, [Next]_vars
    PROVE  TodoType'
<1>1. TodoType
  BY Zenon DEF TypeInv, TypeOK, TodoType
<1>2. ASSUME NEW i \in Tx, NEW s, Return(i, s) PROVE TodoType'
  <2>1. StaleCells(states[i], s) \subseteq Cells
    BY Zenon DEF StaleCells, WriteKeys, BalAddrs, Cells
  <2> QED BY <1>1, <1>2, <2>1, Zenon DEF Return, TodoType
<1>3. ASSUME NEW i \in Tx, NEW c, todo' = [todo EXCEPT ![i] = @ \ {c}] PROVE TodoType'
  BY <1>1, <1>3, Zenon DEF TodoType
<1>4. ASSUME NEW i \in Tx, Finish(i) PROVE TodoType'
  <2> DEFINE s == [done |-> TRUE, inc |-> pdb[i].inc, loc |-> pdb[i].loc,
                   reads |-> pdb[i].reads, out |-> Output(Prog(i), pdb[i].loc)]
  <2>1. todo' = [todo EXCEPT ![i] = FlushCells(s)]
    BY <1>4, Zenon DEF Finish
  <2>2. FlushCells(s) \subseteq Cells
    BY Zenon DEF FlushCells, WriteKeys, BalAddrs, Cells
  <2> HIDE DEF s
  <2> QED BY <1>1, <2>1, <2>2, Zenon DEF TodoType
<1>5. CASE ValidateFail
  <2>1. WriteKeys(states[vi]) \cup BalAddrs(states[vi]) \subseteq Cells
    BY Zenon DEF WriteKeys, BalAddrs, Cells
  <2> QED BY <1>1, <1>5, <2>1, Zenon DEF ValidateFail, TodoType
<1>6. CASE Mark
  BY <1>1, <1>6, Zenon DEF Mark, TodoType
<1>7. CASE todo' = todo
  BY <1>1, <1>7, Zenon DEF TodoType
<1>8. ASSUME NEW i \in Tx, Flush(i) \/ Cleanup(i) PROVE TodoType'
  BY <1>3, <1>8, Zenon DEF Flush, Cleanup
<1> QED BY <1>2, <1>4, <1>5, <1>6, <1>7, <1>8, TodoStep, Zenon

\* Every step keeps the stores in their type.
LEMMA StoreTypeStep ==
    ASSUME TransactionsAssumption, V2Assumption, TypeInv, [Next]_vars
    PROVE  StoreTypeOK'
<1>1. StoreTypeOK /\ TodoType /\ PDBTypeOK(pdb)
  BY Zenon DEF TypeInv, TypeOK, TodoType
<1>2. ASSUME NEW i \in Tx, Flush(i) PROVE StoreTypeOK'
  <2>1. PICK c \in todo[i] :
            IF c \in Keys
            THEN WriteInc(c, i, pdb[i].inc, pdb[i].out.writes[c]) /\ UNCHANGED bals
            ELSE WriteDelta(c, i, pdb[i].out.deltas[c]) /\ UNCHANGED mv
    BY <1>2, Zenon DEF Flush
  <2>2. IsPDB(pdb[i]) /\ c \in Cells
    BY <1>1, Zenon DEF PDBTypeOK, TodoType
  <2>3. CASE c \in Keys
    <3>1. pdb[i].out.writes[c] \in Values \cup {Nil} /\ pdb[i].inc \in 0 .. 1
      BY <2>2, <2>3, Zenon DEF IsPDB, Outcomes
    <3> QED BY <1>1, <2>1, <2>3, <3>1, StoreOps, Zenon
  <2>4. CASE c \notin Keys
    <3>1. c \in Addrs /\ pdb[i].out.deltas[c] \in Deltas
      BY <2>2, <2>4, Zenon DEF Cells, IsPDB, Outcomes
    <3> QED BY <1>1, <2>1, <2>4, <3>1, StoreOps, Zenon
  <2> QED BY <2>3, <2>4, Zenon
<1>3. ASSUME NEW i \in Tx, Cleanup(i) PROVE StoreTypeOK'
  <2>1. PICK c \in todo[i] :
            IF c \in Keys
            THEN CleanupEstimate(c, i) /\ UNCHANGED bals
            ELSE DeleteSingle(c, i) /\ UNCHANGED mv
    BY <1>3, Zenon DEF Cleanup
  <2>2. c \in Cells
    BY <1>1, Zenon DEF TodoType
  <2> QED BY <1>1, <2>1, <2>2, StoreOps, Zenon DEF Cells
<1>4. CASE Mark
  <2>1. PICK c \in todo[vi] :
            IF c \in Keys
            THEN MarkEstimate(c, vi) /\ UNCHANGED bals
            ELSE ZeroDeltaAt(c, vi) /\ UNCHANGED mv
    BY <1>4, Zenon DEF Mark
  <2>2. vi \in Tx
    BY <1>4 DEF Mark, TypeInv, TypeOK, Tx, TransactionsAssumption
  <2>3. c \in Cells
    BY <1>1, <2>2, Zenon DEF TodoType
  <2> QED BY <1>1, <2>1, <2>2, <2>3, StoreOps, Zenon DEF Cells
<1>5. CASE UNCHANGED storeVars
  BY <1>1, <1>5, Zenon DEF StoreTypeOK, storeVars
<1> QED BY <1>2, <1>3, <1>4, <1>5, StoreStep, Zenon

\* Every step keeps the type invariant.
LEMMA TypeStep ==
    ASSUME TransactionsAssumption, V2Assumption, TypeInv, [Next]_vars
    PROVE  TypeInv'
<1>1. ControlType' /\ StateType' /\ TodoType' /\ StoreTypeOK'
  BY TypeParts, ControlTypeStep, StateTypeStep, TodoTypeStep, StoreTypeStep, Zenon
<1> QED BY <1>1, Zenon DEF TypeInv, TypeOK, ControlType, StateType, TodoType

\* A transaction is executed at most twice (dispatchReexec gives a transaction
\* that failed validation one more incarnation, and re-executions are not
\* validated), and all state stays in its type.
THEOREM TypeCorrect == Spec => []TypeOK
<1>1. Init => TypeInv
  BY TypeInit, TransactionsAssumption, V2Assumption, Zenon
<1>2. TypeInv /\ [Next]_vars => TypeInv'
  BY TypeStep, TransactionsAssumption, V2Assumption, Zenon
<1>3. TypeInv => TypeOK
  BY Zenon DEF TypeInv
<1> QED BY <1>1, <1>2, <1>3, PTL DEF Spec

=============================================================================
