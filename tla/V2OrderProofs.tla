--------------------------- MODULE V2OrderProofs ----------------------------
(***************************************************************************)
(* Proofs about the order in which V2Executor validates, re-executes and   *)
(* finalizes transactions.  Nothing here depends on what the transactions  *)
(* read or write.                                                          *)
(***************************************************************************)
EXTENDS V2ExecutorProofs

-----------------------------------------------------------------------------
(***************************************************************************)
(* The control invariant: where the thread of a transaction is, against    *)
(* the loop index of the validator and the flags of v2ExecCtx.             *)
(***************************************************************************)

\* The task channel holds queued transactions, once each, in order.
TaskInv ==
    \A m \in DOMAIN taskCh :
        /\ taskCh[m] < nextTask /\ pc[taskCh[m]] = "queued"
        /\ \A n \in DOMAIN taskCh : m < n => taskCh[m] < taskCh[n]

\* A transaction has been executed once before it is validated; it has a
\* re-execution channel from the failed validation until finishReexec.
ThreadInv(j) ==
    /\ j >= nextTask => pc[j] = "idle"
    /\ execDone[j] /\ incarnations[j] = 0 => pc[j] = "done"
    /\ pc[j] = "done" => execDone[j]
    /\ incarnations[j] = 1 => execDone[j] /\ pc[j] \in Running \cup {"cleanup", "done"}
    /\ pc[j] = "cleanup" => incarnations[j] = 1
    /\ reexecDone[j] = "open" <=> incarnations[j] = 1 /\ pc[j] \in Running \cup {"cleanup"}
    /\ reexecDone[j] = "closed" => incarnations[j] = 1

\* Before the loop index everything is finalized except possibly the
\* re-execution launched last.
OrderInv(j) ==
    /\ j >= vi => reexecDone[j] = "nil" /\ ~finalized[j]
    /\ j < vi => execDone[j] /\ (finalized[j] <=> reexecDone[j] = "nil")
    /\ j < vi - 1 \/ (vpc = "mark" /\ j < vi) => reexecDone[j] = "nil"
    /\ vpc = "mark" /\ j = vi => execDone[j]
    /\ vpc = "ended" /\ ~cancelled => reexecDone[j] = "nil" /\ vi = N
    /\ vfailed[j] <=> incarnations[j] = 1

ControlInv == TaskInv /\ \A j \in Tx : ThreadInv(j) /\ OrderInv(j)

\* The control invariant holds when the goroutines start.
LEMMA ControlInit ==
    ASSUME TransactionsAssumption, Init
    PROVE  ControlInv
<1>1. TaskInv
  BY DEF Init, TaskInv
<1>2. ASSUME NEW j \in Tx PROVE ThreadInv(j)
  BY DEF Init, ThreadInv, Running, Tx, TransactionsAssumption
<1>3. ASSUME NEW j \in Tx PROVE OrderInv(j)
  BY DEF Init, OrderInv, Tx, TransactionsAssumption
<1> QED BY <1>1, <1>2, <1>3, Zenon DEF ControlInv

\* When validateOne (or the drain) has nothing left to wait for, no
\* re-execution is pending anywhere.
LEMMA NonePending ==
    ASSUME TransactionsAssumption, TypeOK, ControlInv, Pending = {}, NEW j \in Tx
    PROVE  reexecDone[j] = "nil"
<1> SUFFICES ASSUME reexecDone[j] # "nil" PROVE FALSE
  BY Zenon
<1>1. ThreadInv(j) /\ OrderInv(j)
  BY Zenon DEF ControlInv
<1>2. vi \in Int /\ j \in Int
  BY DEF TypeOK, TransactionsAssumption, Tx
<1>3. j = vi - 1
  BY <1>1, <1>2 DEF OrderInv
<1>4. reexecDone[j] \in {"open", "closed"}
  BY Zenon DEF TypeOK
<1>5. vfailed[j]
  BY <1>1, <1>4, Zenon DEF ThreadInv, OrderInv
<1> QED BY <1>3, <1>5, Zenon DEF Pending

\* Every step keeps the task channel in order (startTaskDispatcher,
\* startWorkers).
LEMMA TaskStep ==
    ASSUME TransactionsAssumption, V2Assumption, TypeInv, ControlInv, [Next]_vars
    PROVE  TaskInv'
<1> USE DEF taskVars, execVars
<1>1. CASE Dispatch
  <2>1. nextTask \in Tx /\ taskCh \in Seq(Tx) /\ nextTask \in Int /\ Tx \subseteq Int
    BY <1>1 DEF Dispatch, TypeInv, TypeOK, Tx, TransactionsAssumption
  <2>2. taskCh' = Append(taskCh, nextTask) /\ nextTask' = nextTask + 1
    BY <1>1, Zenon DEF Dispatch
  <2>3. pc' = [pc EXCEPT ![nextTask] = "queued"] /\ DOMAIN pc = Tx
    BY <1>1, Zenon DEF Dispatch, TypeInv, TypeOK, Running
  <2>4. ASSUME NEW m \in DOMAIN taskCh' PROVE taskCh'[m] < nextTask' /\ pc'[taskCh'[m]] = "queued"
    <3>1. CASE m = Len(taskCh) + 1
      BY <2>1, <2>2, <2>3, <3>1
    <3>2. CASE m # Len(taskCh) + 1
      <4>1. m \in DOMAIN taskCh /\ taskCh'[m] = taskCh[m] /\ taskCh[m] \in Tx
        BY <2>1, <2>2, <3>2
      <4>2. taskCh[m] < nextTask /\ pc[taskCh[m]] = "queued" /\ taskCh[m] \in Int
        BY <2>1, <4>1, Zenon DEF ControlInv, TaskInv
      <4> QED BY <2>1, <2>2, <2>3, <4>1, <4>2
    <3> QED BY <3>1, <3>2, Zenon
  <2>5. ASSUME NEW m \in DOMAIN taskCh', NEW n \in DOMAIN taskCh', m < n
        PROVE  taskCh'[m] < taskCh'[n]
    <3>1. m \in DOMAIN taskCh /\ taskCh'[m] = taskCh[m]
      BY <2>1, <2>2, <2>5
    <3>2. CASE n = Len(taskCh) + 1
      BY <2>1, <2>2, <3>1, <3>2 DEF ControlInv, TaskInv
    <3>3. CASE n # Len(taskCh) + 1
      <4>1. n \in DOMAIN taskCh /\ taskCh'[n] = taskCh[n]
        BY <2>1, <2>2, <3>3
      <4> QED BY <2>5, <3>1, <4>1, Zenon DEF ControlInv, TaskInv
    <3> QED BY <3>2, <3>3, Zenon
  <2> QED BY <2>4, <2>5, Zenon DEF TaskInv
<1>2. CASE TakeTask
  <2>1. taskCh \in Seq(Tx) /\ taskCh # <<>> /\ taskCh' = Tail(taskCh) /\ nextTask' = nextTask
    BY <1>2, Zenon DEF TakeTask, TypeInv, TypeOK
  <2>2. pc' = [pc EXCEPT ![Head(taskCh)] = FirstPC(Head(taskCh))] /\ DOMAIN pc = Tx
    BY <1>2, Zenon DEF TakeTask, TypeInv, TypeOK, Running
  <2>3. ASSUME NEW m \in DOMAIN taskCh'
        PROVE  /\ m + 1 \in DOMAIN taskCh /\ taskCh'[m] = taskCh[m + 1] /\ m \in Int
               /\ Head(taskCh) = taskCh[1] /\ 1 \in DOMAIN taskCh /\ 1 < m + 1
               /\ taskCh[1] \in Int /\ taskCh[m + 1] \in Tx
    <3>1. m \in 1 .. (Len(taskCh) - 1) /\ Len(taskCh) \in Nat /\ DOMAIN taskCh = 1 .. Len(taskCh)
      BY <2>1
    <3>2. m + 1 \in DOMAIN taskCh /\ m \in Int /\ 1 \in DOMAIN taskCh /\ 1 < m + 1
      BY <3>1
    <3>3. taskCh[1] \in Tx /\ taskCh[m + 1] \in Tx /\ taskCh'[m] = taskCh[m + 1]
      BY <2>1, <3>2
    <3>4. taskCh[1] \in Int
      BY <3>3 DEF Tx, TransactionsAssumption
    <3> QED BY <2>1, <3>2, <3>3, <3>4
  <2>4. ASSUME NEW m \in DOMAIN taskCh'
        PROVE  taskCh'[m] < nextTask' /\ pc'[taskCh'[m]] = "queued"
    <3>1. taskCh[1] < taskCh[m + 1]
      BY <2>3, Zenon DEF ControlInv, TaskInv
    <3>2. taskCh[m + 1] # Head(taskCh)
      BY <3>1, <2>3
    <3> QED BY <2>1, <2>2, <2>3, <3>2, Zenon DEF ControlInv, TaskInv
  <2>5. ASSUME NEW m \in DOMAIN taskCh', NEW n \in DOMAIN taskCh', m < n
        PROVE  taskCh'[m] < taskCh'[n]
    <3>1. m + 1 < n + 1
      BY <2>3, <2>5
    <3> QED BY <2>3, <3>1, Zenon DEF ControlInv, TaskInv
  <2> QED BY <2>4, <2>5, Zenon DEF TaskInv
<1>3. ASSUME UNCHANGED <<taskCh, nextTask>>, \A j \in Tx : pc[j] = "queued" => pc'[j] = "queued"
      PROVE  TaskInv'
  <2>1. taskCh \in Seq(Tx)
    BY Zenon DEF TypeInv, TypeOK
  <2> QED BY <1>3, <2>1 DEF ControlInv, TaskInv
<1>4. ASSUME NEW i \in Tx, NEW v, UNCHANGED <<taskCh, nextTask>>, pc[i] # "queued",
             pc' = [pc EXCEPT ![i] = v]
      PROVE  TaskInv'
  <2>1. \A j \in Tx : pc[j] = "queued" => pc'[j] = "queued"
    BY <1>4, Zenon DEF TypeInv, TypeOK
  <2> QED BY <1>3, <1>4, <2>1, Zenon
<1>5. CASE LaunchReexec
  <2>1. vi \in Tx
    BY <1>5 DEF LaunchReexec, TypeInv, TypeOK, Tx, TransactionsAssumption
  <2>2. execDone[vi] /\ incarnations[vi] = 0
    BY <1>5, <2>1 DEF LaunchReexec, ControlInv, OrderInv, TypeInv, TypeOK
  <2>3. pc[vi] # "queued"
    BY <2>1, <2>2, Zenon DEF ControlInv, ThreadInv
  <2> QED BY <1>4, <1>5, <2>1, <2>3, Zenon DEF LaunchReexec
<1>6. ASSUME NEW i \in Tx, NEW s, Return(i, s), pc[i] # "queued" PROVE TaskInv'
  BY <1>4, <1>6, Zenon DEF Return
<1>7. ASSUME NEW i \in Tx, Execute(i) PROVE TaskInv'
  <2>1. CASE AbortExecute(i) \/ FlushEnd(i)
    BY <1>6, <2>1, Zenon DEF AbortExecute, FlushEnd
  <2>2. CASE PassPrev(i) \/ PassChain(i) \/ Finish(i) \/ CleanupEnd(i)
    BY <1>4, <2>2, Zenon DEF PassPrev, PassChain, Finish, CleanupEnd
  <2>3. CASE Read(i) \/ Flush(i) \/ Cleanup(i)
    BY <1>3, <2>3, Zenon DEF Read, Flush, Cleanup
  <2> QED BY <1>7, <2>1, <2>2, <2>3, Zenon DEF Execute
<1>8. CASE Validator /\ ~LaunchReexec
  BY <1>3, <1>8, Zenon DEF Validator, FinishReexec, ValidatePass, ValidateFail, Mark,
                    ValidationDrained, ValidationCancelled, ValidationPanics
<1>9. CASE DispatchStops \/ Settle \/ Cancel \/ ReturnResult \/ UNCHANGED vars
  BY <1>3, <1>9, Zenon DEF DispatchStops, Settle, Cancel, ReturnResult, vars
<1> QED BY <1>1, <1>2, <1>5, <1>7, <1>8, <1>9, Zenon DEF Next

\* Every step keeps the thread of a transaction and its flags together.
LEMMA ThreadStep ==
    ASSUME TransactionsAssumption, V2Assumption, TypeInv, ControlInv, [Next]_vars, NEW j \in Tx
    PROVE  ThreadInv(j)'
<1>1. ThreadInv(j) /\ OrderInv(j)
  BY Zenon DEF ControlInv
<1>2. TypeOK
  BY Zenon DEF TypeInv
<1> USE DEF taskVars, execVars, ctxVars, valVars, ThreadInv, Running
<1>3. CASE Dispatch
  BY <1>1, <1>2, <1>3 DEF Dispatch, TypeOK, Tx
<1>4. CASE TakeTask
  <2>1. Head(taskCh) \in Tx /\ pc[Head(taskCh)] = "queued" /\ Head(taskCh) < nextTask
    <3>1. 1 \in DOMAIN taskCh /\ Head(taskCh) = taskCh[1] /\ taskCh[1] \in Tx
      BY <1>2, <1>4 DEF TakeTask, TypeOK
    <3> QED BY <3>1, Zenon DEF ControlInv, TaskInv
  <2>2. pc' = [pc EXCEPT ![Head(taskCh)] = FirstPC(Head(taskCh))]
    BY <1>4, Zenon DEF TakeTask
  <2> QED BY <1>1, <1>2, <1>4, <2>1, <2>2, Zenon DEF TakeTask, TypeOK, FirstPC, Tx, TransactionsAssumption
<1>5. ASSUME NEW i \in Tx, PassPrev(i) \/ PassChain(i) \/ Finish(i) PROVE ThreadInv(j)'
  BY <1>1, <1>2, <1>5 DEF PassPrev, PassChain, Finish, TypeOK
<1>6. ASSUME NEW i \in Tx, NEW s, Return(i, s), pc[i] \in Running PROVE ThreadInv(j)'
  BY <1>1, <1>2, <1>6 DEF Return, TypeOK
<1>7. ASSUME NEW i \in Tx, AbortExecute(i) \/ FlushEnd(i) PROVE ThreadInv(j)'
  BY <1>6, <1>7, Zenon DEF AbortExecute, FlushEnd
<1>8. ASSUME NEW i \in Tx, CleanupEnd(i) PROVE ThreadInv(j)'
  BY <1>1, <1>2, <1>8, Zenon DEF CleanupEnd, TypeOK
<1>9. CASE FinishReexec
  BY <1>1, <1>2, <1>9, Zenon DEF FinishReexec, TypeOK
<1>10. CASE LaunchReexec
  BY <1>1, <1>2, <1>10 DEF LaunchReexec, NextIteration, FirstPC, OrderInv, TypeInv, TypeOK
<1>11. ASSUME UNCHANGED <<nextTask, pc, incarnations, execDone, reexecDone>>
       PROVE  ThreadInv(j)'
  BY <1>1, <1>11, Zenon
<1>12. ASSUME NEW i \in Tx, Read(i) \/ Flush(i) \/ Cleanup(i) PROVE ThreadInv(j)'
  BY <1>11, <1>12, Zenon DEF Read, Flush, Cleanup
<1>13. CASE ValidatePass \/ ValidateFail \/ Mark \/ ValidationDrained \/ ValidationCancelled
            \/ ValidationPanics
  BY <1>11, <1>13, Zenon DEF ValidatePass, ValidateFail, Mark, ValidationDrained,
                      ValidationCancelled, ValidationPanics
<1>14. CASE DispatchStops \/ Settle \/ Cancel \/ ReturnResult \/ UNCHANGED vars
  BY <1>11, <1>14, Zenon DEF DispatchStops, Settle, Cancel, ReturnResult, vars
<1> QED
  BY <1>3, <1>4, <1>5, <1>7, <1>8, <1>9, <1>10, <1>12, <1>13, <1>14, Zenon
  DEF Next, Execute, Validator

\* Every step keeps finalized transactions below the loop index.
LEMMA OrderStep ==
    ASSUME TransactionsAssumption, V2Assumption, TypeInv, ControlInv, [Next]_vars, NEW j \in Tx
    PROVE  OrderInv(j)'
<1>1. ThreadInv(j) /\ OrderInv(j)
  BY Zenon DEF ControlInv
<1>2. TypeOK
  BY Zenon DEF TypeInv
<1>3. vi \in Int /\ j \in Int /\ N \in Int
  BY <1>2 DEF TypeOK, Tx, TransactionsAssumption
<1> USE DEF taskVars, execVars, ctxVars, valVars, OrderInv
<1>4. ASSUME UNCHANGED <<cancelled, finalized, vfailed, incarnations, reexecDone, vi, vpc>>,
             execDone[j] => execDone'[j]
      PROVE  OrderInv(j)'
  BY <1>1, <1>4, Zenon
<1>5. ASSUME NEW i \in Tx, NEW s, Return(i, s) PROVE OrderInv(j)'
  <2>1. execDone[j] => execDone'[j]
    BY <1>2, <1>5, Zenon DEF Return, TypeOK
  <2> QED BY <1>4, <1>5, <2>1, Zenon DEF Return
<1>6. ASSUME NEW i \in Tx, AbortExecute(i) \/ FlushEnd(i) PROVE OrderInv(j)'
  BY <1>5, <1>6, Zenon DEF AbortExecute, FlushEnd
<1>7. ASSUME NEW i \in Tx, CleanupEnd(i) PROVE OrderInv(j)'
  <2>1. ThreadInv(i) /\ OrderInv(i)
    BY Zenon DEF ControlInv
  <2>2. reexecDone[i] = "open"
    BY <1>7, <2>1, Zenon DEF CleanupEnd, ThreadInv
  <2> QED BY <1>1, <1>2, <1>7, <2>1, <2>2, Zenon DEF CleanupEnd, TypeOK
<1>8. ASSUME NEW i \in Tx,
             PassPrev(i) \/ PassChain(i) \/ Read(i) \/ Finish(i) \/ Flush(i) \/ Cleanup(i)
      PROVE  OrderInv(j)'
  BY <1>4, <1>8, Zenon DEF PassPrev, PassChain, Read, Finish, Flush, Cleanup
<1>9. CASE FinishReexec
  <2>1. FirstPending \in Tx /\ reexecDone[FirstPending] = "closed"
    BY <1>9, FirstPendingIsPending, Zenon DEF FinishReexec
  <2>2. OrderInv(FirstPending)
    BY <2>1, Zenon DEF ControlInv
  <2>3. FirstPending < vi
    BY <1>3, <2>1, <2>2 DEF Tx, TransactionsAssumption
  <2> HIDE DEF FirstPending
  <2> QED BY <1>1, <1>2, <1>3, <1>9, <2>1, <2>3, Zenon DEF FinishReexec, TypeOK
<1>10. ASSUME Pending = {} PROVE reexecDone[j] = "nil"
  BY <1>2, <1>10, NonePending, Zenon
<1>11. CASE ValidatePass
  BY <1>1, <1>2, <1>3, <1>10, <1>11 DEF ValidatePass, NextIteration, TypeOK
<1>12. CASE ValidateFail
  BY <1>1, <1>2, <1>3, <1>10, <1>12, Zenon DEF ValidateFail, TypeOK
<1>13. CASE LaunchReexec
  BY <1>1, <1>2, <1>3, <1>13 DEF LaunchReexec, NextIteration, TypeInv, TypeOK
<1>14. CASE Mark
  BY <1>4, <1>14, Zenon DEF Mark
<1>15. CASE ValidationDrained
  BY <1>1, <1>2, <1>3, <1>10, <1>15, Zenon DEF ValidationDrained, TypeOK
<1>16. CASE ValidationCancelled \/ ValidationPanics
  BY <1>1, <1>2, <1>3, <1>16, Zenon DEF ValidationCancelled, ValidationPanics, TypeOK
<1>17. CASE Cancel
  BY <1>1, <1>2, <1>3, <1>17, Zenon DEF Cancel
<1>18. CASE Dispatch \/ DispatchStops \/ TakeTask \/ Settle \/ ReturnResult \/ UNCHANGED vars
  BY <1>4, <1>18, Zenon DEF Dispatch, DispatchStops, TakeTask, Settle, ReturnResult, vars
<1> QED
  BY <1>6, <1>7, <1>8, <1>9, <1>11, <1>12, <1>13, <1>14, <1>15, <1>16, <1>17, <1>18, Zenon
  DEF Next, Execute, Validator

\* The control invariant is an invariant of the executor.
LEMMA ControlInvariant == Spec => [](TypeInv /\ ControlInv)
<1>1. Init => TypeInv /\ ControlInv
  BY TypeInit, ControlInit, TransactionsAssumption, V2Assumption, Zenon
<1>2. TypeInv /\ ControlInv /\ [Next]_vars => (TypeInv /\ ControlInv)'
  <2> SUFFICES ASSUME TypeInv, ControlInv, [Next]_vars PROVE TypeInv' /\ ControlInv'
    BY Zenon
  <2>1. TypeInv'
    BY TypeStep, TransactionsAssumption, V2Assumption, Zenon
  <2>2. TaskInv'
    BY TaskStep, TransactionsAssumption, V2Assumption, Zenon
  <2>3. \A j \in Tx : ThreadInv(j)' /\ OrderInv(j)'
    BY ThreadStep, OrderStep, TransactionsAssumption, V2Assumption, Zenon
  <2> QED BY <2>1, <2>2, <2>3, Zenon DEF ControlInv
<1> QED BY <1>1, <1>2, PTL DEF Spec

\* At most one re-execution is pending at a time, the one of the transaction
\* before the one being validated, and none is left after the drain: the two
\* debug assertions of validateOne (assertSettleOrder) and runValidationLoop
\* (assertReexecVisitedExactlyOnce) never fire, with any predicted predecessors.
THEOREM SettleOrderHolds == Spec => []SettleOrder
<1>1. TypeInv /\ ControlInv => SettleOrder
  BY Zenon DEF ControlInv, OrderInv, SettleOrder
<1> QED BY <1>1, ControlInvariant, PTL

-----------------------------------------------------------------------------
(***************************************************************************)
(* Finalized transactions, and the queue from validation to settlement.    *)
(***************************************************************************)

\* The thread of a finalized transaction has ended.
LEMMA FinalThreadDone ==
    ASSUME TypeInv, ControlInv, NEW j \in Tx, finalized[j]
    PROVE  pc[j] = "done" /\ j < vi /\ reexecDone[j] = "nil" /\ execDone[j]
<1>1. TypeOK /\ ThreadInv(j) /\ OrderInv(j)
  BY Zenon DEF TypeInv, ControlInv
<1>2. vi \in Int /\ j \in Int
  BY <1>1, TransactionsAssumption DEF TypeOK, Tx, TransactionsAssumption
<1>3. j < vi /\ reexecDone[j] = "nil" /\ execDone[j]
  BY <1>1, <1>2 DEF OrderInv
<1>4. incarnations[j] \in 0 .. 1
  BY <1>1, Zenon DEF TypeOK
<1>5. pc[j] = "done"
  BY <1>1, <1>3, <1>4 DEF ThreadInv
<1> QED BY <1>3, <1>5, Zenon

\* No step changes a cell of a finalized transaction: ESTIMATE marking,
\* flushing and cleanup only ever touch cells of transactions that are not
\* finalized, so validation may read the cells below vi one at a time.
THEOREM FinalCellsAreStable == Spec => FinalCellsStable
<1> DEFINE Stable == \A j \in Tx : finalized[j] =>
                        /\ \A k \in Keys : mv'[k][j] = mv[k][j]
                        /\ \A a \in Addrs : bals'[a][j] = bals[a][j]
<1>1. TypeInv /\ ControlInv /\ [Next]_vars => [Stable]_vars
  <2> SUFFICES ASSUME TypeInv, ControlInv, [Next]_vars, NEW j \in Tx, finalized[j]
               PROVE  /\ \A k \in Keys : mv'[k][j] = mv[k][j]
                      /\ \A a \in Addrs : bals'[a][j] = bals[a][j]
    BY Zenon
  <2>1. pc[j] = "done" /\ j # vi
    BY FinalThreadDone, TransactionsAssumption DEF TypeInv, TypeOK, Tx, TransactionsAssumption
  <2>2. StoreTypeOK
    BY Zenon DEF TypeInv, TypeOK
  <2> USE DEF StoreTypeOK, storeVars
  <2>3. ASSUME NEW i \in Tx, Flush(i)
        PROVE  /\ \A k \in Keys : mv'[k][j] = mv[k][j]
               /\ \A a \in Addrs : bals'[a][j] = bals[a][j]
    <3>1. i # j
      BY <2>1, <2>3, Zenon DEF Flush
    <3>2. PICK c : IF c \in Keys
                   THEN WriteInc(c, i, pdb[i].inc, pdb[i].out.writes[c]) /\ UNCHANGED bals
                   ELSE WriteDelta(c, i, pdb[i].out.deltas[c]) /\ UNCHANGED mv
      BY <2>3, Zenon DEF Flush
    <3>3. CASE c \in Keys
      BY <2>2, <3>1, <3>2, <3>3 DEF WriteInc
    <3>4. CASE c \notin Keys
      BY <2>2, <3>1, <3>2, <3>4 DEF WriteDelta
    <3> QED BY <3>3, <3>4, Zenon
  <2>4. ASSUME NEW i \in Tx, Cleanup(i)
        PROVE  /\ \A k \in Keys : mv'[k][j] = mv[k][j]
               /\ \A a \in Addrs : bals'[a][j] = bals[a][j]
    <3>1. i # j
      BY <2>1, <2>4, Zenon DEF Cleanup
    <3>2. PICK c : IF c \in Keys
                   THEN CleanupEstimate(c, i) /\ UNCHANGED bals
                   ELSE DeleteSingle(c, i) /\ UNCHANGED mv
      BY <2>4, Zenon DEF Cleanup
    <3>3. CASE c \in Keys
      BY <2>2, <3>1, <3>2, <3>3 DEF CleanupEstimate
    <3>4. CASE c \notin Keys
      BY <2>2, <3>1, <3>2, <3>4 DEF DeleteSingle
    <3> QED BY <3>3, <3>4, Zenon
  <2>5. CASE Mark
    BY <2>1, <2>2, <2>5 DEF Mark, MarkEstimate, ZeroDeltaAt
  <2>6. CASE UNCHANGED storeVars
    BY <2>6, Zenon
  <2>7. ASSUME NEW i \in Tx, Execute(i), ~Flush(i), ~Cleanup(i) PROVE UNCHANGED storeVars
    BY <2>7, Zenon DEF Execute, PassPrev, PassChain, AbortExecute, Read, Finish, FlushEnd, CleanupEnd, Return
  <2>8. ASSUME Validator, ~Mark PROVE UNCHANGED storeVars
    BY <2>8, Zenon DEF Validator, FinishReexec, ValidatePass, ValidateFail, LaunchReexec,
                ValidationDrained, ValidationCancelled, ValidationPanics
  <2>9. CASE Dispatch \/ DispatchStops \/ TakeTask \/ Settle \/ Cancel \/ ReturnResult
             \/ UNCHANGED vars
    BY <2>6, <2>9, Zenon DEF Dispatch, DispatchStops, TakeTask, Settle, Cancel, ReturnResult, vars
  <2> QED BY <2>3, <2>4, <2>5, <2>6, <2>7, <2>8, <2>9, Zenon DEF Next
<1> QED BY <1>1, ControlInvariant, PTL DEF Spec, FinalCellsStable

=============================================================================
