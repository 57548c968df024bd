--------------------------- MODULE V2QueueProofs ----------------------------
(***************************************************************************)
(* Proofs about the queue from validation to settlement: what is sent to   *)
(* settlement, in which order, and when all of it has been settled.        *)
(***************************************************************************)
EXTENDS V2OrderProofs

-----------------------------------------------------------------------------
(***************************************************************************)
(* The settlement queue.                                                   *)
(***************************************************************************)

\* Without a cancellation every execution publishes its ParallelStateDB.
PublishInv(j) ==
    /\ pdb[j].inc = incarnations[j]
    /\ pc[j] = "flush" => pdb[j].done
    /\ ~cancelled /\ pc[j] \in {"cleanup", "done"} => states[j] = pdb[j] /\ states[j].done

\* What has been settled, and what is queued behind it, is finalized and in
\* order, and settlement has applied the published states.
SettledInv ==
    /\ \A m \in DOMAIN settled : finalized[settled[m]] /\ applied[settled[m]] = states[settled[m]]
    /\ \A m \in DOMAIN chSettle : finalized[chSettle[m]]
    /\ \A m, n \in DOMAIN settled : m < n => settled[m] < settled[n]
    /\ \A m, n \in DOMAIN chSettle : m < n => chSettle[m] < chSettle[n]
    /\ \A m \in DOMAIN settled, n \in DOMAIN chSettle : settled[m] < chSettle[n]

\* Without a cancellation that is every finalized transaction.
ExactInv ==
    ~cancelled =>
        /\ \A m \in DOMAIN settled : settled[m] = m - 1
        /\ \A n \in DOMAIN chSettle : chSettle[n] = Len(settled) + n - 1
        /\ Len(settled) + Len(chSettle) <= N
        /\ \A j \in Tx : finalized[j] <=> j < Len(settled) + Len(chSettle)

\* Nothing is published when the goroutines start.
LEMMA PublishInit ==
    ASSUME Init, NEW j \in Tx
    PROVE  PublishInv(j)
BY Zenon DEF Init, PublishInv, NewPDB

\* Every step keeps x.states[j] the state of the run that ended last.
LEMMA PublishStep ==
    ASSUME NEW j \in Tx, TypeInv, ControlInv, PublishInv(j), [Next]_vars
    PROVE  PublishInv(j)'
<1>1. TypeOK /\ ThreadInv(j) /\ OrderInv(j)
  BY Zenon DEF TypeInv, ControlInv
<1>2. DOMAIN pc = Tx /\ DOMAIN pdb = Tx /\ DOMAIN states = Tx /\ DOMAIN incarnations = Tx
  BY <1>1, Zenon DEF TypeOK, PDBTypeOK
<1> USE DEF taskVars, execVars, ctxVars, PublishInv
<1>3. ASSUME UNCHANGED <<pdb, incarnations, states, pc>>, cancelled => cancelled'
      PROVE  PublishInv(j)'
  BY <1>3, Zenon
<1>4. CASE Dispatch
  BY <1>2, <1>4, Zenon DEF Dispatch
<1>5. CASE TakeTask
  <2>1. FirstPC(Head(taskCh)) \in {"check", "run"}
    BY Zenon DEF FirstPC
  <2> QED BY <1>2, <1>5, <2>1, Zenon DEF TakeTask
<1>6. ASSUME NEW i \in Tx, PassPrev(i) \/ PassChain(i) PROVE PublishInv(j)'
  BY <1>2, <1>6, Zenon DEF PassPrev, PassChain
<1>7. ASSUME NEW i \in Tx, AbortExecute(i) PROVE PublishInv(j)'
  BY <1>2, <1>7, Zenon DEF AbortExecute, Return
<1>8. ASSUME NEW i \in Tx, Read(i) PROVE PublishInv(j)'
  BY <1>2, <1>8, Zenon DEF Read
<1>9. ASSUME NEW i \in Tx, Finish(i) PROVE PublishInv(j)'
  BY <1>2, <1>9, Zenon DEF Finish
<1>10. ASSUME NEW i \in Tx, Flush(i) \/ Cleanup(i) PROVE PublishInv(j)'
  BY <1>3, <1>10, Zenon DEF Flush, Cleanup
<1>11. ASSUME NEW i \in Tx, FlushEnd(i) PROVE PublishInv(j)'
  BY <1>2, <1>11, Zenon DEF FlushEnd, Return
<1>12. ASSUME NEW i \in Tx, CleanupEnd(i) PROVE PublishInv(j)'
  BY <1>2, <1>12, Zenon DEF CleanupEnd
<1>13. CASE LaunchReexec
  <2>1. FirstPC(vi) \in {"check", "run"}
    BY Zenon DEF FirstPC
  <2> QED BY <1>2, <1>13, <2>1, Zenon DEF LaunchReexec, NewPDB
<1>14. ASSUME Validator, ~LaunchReexec PROVE PublishInv(j)'
  BY <1>3, <1>14 DEF Validator, FinishReexec, ValidatePass, ValidateFail, Mark,
                     ValidationDrained, ValidationCancelled, ValidationPanics
<1>15. CASE DispatchStops \/ Settle \/ Cancel \/ ReturnResult \/ UNCHANGED vars
  BY <1>3, <1>15, Zenon DEF DispatchStops, Settle, Cancel, ReturnResult, vars
<1> QED
  BY <1>4, <1>5, <1>6, <1>7, <1>8, <1>9, <1>10, <1>11, <1>12, <1>13, <1>14, <1>15, Zenon
  DEF Next, Execute

\* Finalizing and queueing the first transaction that is not finalized.
LEMMA Enqueue ==
    ASSUME TypeInv, SettledInv, ExactInv, NEW j \in Tx,
           ~finalized[j], \A i \in Tx : finalized[i] <=> i < j,
           finalized' = [finalized EXCEPT ![j] = TRUE],
           chSettle' = Append(chSettle, j),
           UNCHANGED <<settled, applied, states, cancelled>>
    PROVE  SettledInv' /\ ExactInv'
<1> DEFINE L == Len(settled)
           C == Len(chSettle)
<1>1. /\ settled \in Seq(Tx) /\ chSettle \in Seq(Tx) /\ DOMAIN finalized = Tx
      /\ j \in Int /\ Tx \subseteq Int /\ Tx = 0 .. (N - 1) /\ N \in Nat
  BY TransactionsAssumption DEF TypeInv, TypeOK, Tx, TransactionsAssumption
<1>2. /\ L \in Nat /\ C \in Nat /\ DOMAIN settled = 1 .. L /\ DOMAIN chSettle = 1 .. C
      /\ \A m \in 1 .. L : settled[m] \in Tx
      /\ \A m \in 1 .. C : chSettle[m] \in Tx
  BY <1>1
<1>3. /\ Len(chSettle') = C + 1 /\ DOMAIN chSettle' = 1 .. (C + 1)
      /\ \A m \in 1 .. C : chSettle'[m] = chSettle[m]
      /\ chSettle'[C + 1] = j
  BY <1>1
<1>4. \A i \in Tx : finalized[i] => finalized'[i]
  BY <1>1, Zenon
<1>5. finalized'[j]
  BY <1>1, Zenon
<1>6. /\ \A m \in 1 .. L : settled[m] < j /\ finalized'[settled[m]]
      /\ \A m \in 1 .. C : chSettle[m] < j /\ finalized'[chSettle[m]]
  BY <1>1, <1>2, <1>4, Zenon DEF SettledInv
<1> HIDE DEF L, C
<1>7. SettledInv'
  <2>1. \A m \in DOMAIN settled' : finalized'[settled'[m]] /\ applied'[settled'[m]] = states'[settled'[m]]
    BY <1>2, <1>6, Zenon DEF SettledInv
  <2>2. \A m \in DOMAIN chSettle' : finalized'[chSettle'[m]]
    BY <1>2, <1>3, <1>5, <1>6
  <2>3. \A m, n \in DOMAIN chSettle' : m < n => chSettle'[m] < chSettle'[n]
    BY <1>2, <1>3, <1>6 DEF SettledInv
  <2>4. \A m \in DOMAIN settled', n \in DOMAIN chSettle' : settled'[m] < chSettle'[n]
    BY <1>2, <1>3, <1>6 DEF SettledInv
  <2>5. \A m, n \in DOMAIN settled' : m < n => settled'[m] < settled'[n]
    BY Zenon DEF SettledInv
  <2> QED BY <2>1, <2>2, <2>3, <2>4, <2>5, Zenon DEF SettledInv
<1>8. ExactInv'
  <2> SUFFICES ASSUME ~cancelled PROVE ExactInv'
    BY Zenon DEF ExactInv
  <2>1. L + C = j
    <3>1. /\ \A i \in Tx : finalized[i] <=> i < L + C
          /\ L + C <= N
      BY Zenon DEF ExactInv, L, C
    <3>2. ~(j < L + C)
      BY <3>1, Zenon
    <3>3. ~(L + C < j)
      <4> SUFFICES ASSUME L + C < j PROVE FALSE
        BY Zenon
      <4>1. L + C \in Tx
        BY <1>1, <1>2
      <4>2. finalized[L + C]
        BY <4>1, Zenon
      <4>3. ~(L + C < L + C)
        BY <1>1, <4>1
      <4> QED BY <3>1, <4>1, <4>2, <4>3, Zenon
    <3> QED BY <1>1, <1>2, <3>2, <3>3
  <2>2. \A n \in DOMAIN chSettle' : chSettle'[n] = L + n - 1
    <3>1. \A n \in 1 .. C : chSettle'[n] = L + n - 1
      BY <1>2, <1>3, Zenon DEF ExactInv, L
    <3>2. chSettle'[C + 1] = L + (C + 1) - 1
      BY <1>2, <1>3, <2>1
    <3> QED BY <1>2, <1>3, <3>1, <3>2
  <2>3. \A i \in Tx : finalized'[i] <=> i < L + (C + 1)
    BY <1>1, <1>2, <2>1
  <2>4. L + (C + 1) <= N
    BY <1>1, <1>2, <2>1
  <2>5. Len(settled') = L
    BY Zenon DEF L
  <2>6. \A m \in DOMAIN settled' : settled'[m] = m - 1
    BY Zenon DEF ExactInv
  <2> QED BY <1>3, <2>2, <2>3, <2>4, <2>5, <2>6, Zenon DEF ExactInv
<1> QED BY <1>7, <1>8, Zenon

\* Every step of settlement keeps the queue in order (startSettlement).
LEMMA SettleStep ==
    ASSUME TypeInv, SettledInv, ExactInv, Settle
    PROVE  SettledInv' /\ ExactInv'
<1> DEFINE L == Len(settled)
           C == Len(chSettle)
           i == Head(chSettle)
<1>1. /\ settled \in Seq(Tx) /\ chSettle \in Seq(Tx) /\ chSettle # <<>>
      /\ Tx \subseteq Int /\ DOMAIN applied = Tx
  BY TransactionsAssumption DEF TypeInv, TypeOK, PDBTypeOK, Settle, Tx, TransactionsAssumption
<1>2. /\ settled' = Append(settled, i) /\ chSettle' = Tail(chSettle)
      /\ applied' = [applied EXCEPT ![i] = states[i]]
      /\ UNCHANGED <<cancelled, finalized, states>>
  BY Zenon DEF Settle, ctxVars
<1>3. /\ L \in Nat /\ C \in Nat \ {0} /\ DOMAIN settled = 1 .. L /\ DOMAIN chSettle = 1 .. C
      /\ i = chSettle[1] /\ i \in Tx
      /\ \A m \in 1 .. L : settled[m] \in Tx
      /\ \A m \in 1 .. C : chSettle[m] \in Tx
  BY <1>1
<1>4. /\ Len(settled') = L + 1 /\ DOMAIN settled' = 1 .. (L + 1)
      /\ \A m \in 1 .. L : settled'[m] = settled[m]
      /\ settled'[L + 1] = i
  BY <1>1, <1>2, <1>3
<1>5. /\ Len(chSettle') = C - 1 /\ DOMAIN chSettle' = 1 .. (C - 1)
      /\ \A m \in 1 .. (C - 1) : chSettle'[m] = chSettle[m + 1]
  BY <1>1, <1>2
<1>6. finalized[i] /\ applied'[i] = states[i]
  BY <1>1, <1>2, <1>3 DEF SettledInv
<1>7. \A m \in 1 .. L : settled[m] < i /\ applied'[settled[m]] = states[settled[m]]
  BY <1>1, <1>2, <1>3 DEF SettledInv
<1>8. \A m \in 1 .. (C - 1) : i < chSettle[m + 1] /\ finalized[chSettle[m + 1]] /\ m + 1 \in 1 .. C
  BY <1>3 DEF SettledInv
<1> HIDE DEF L, C, i
<1>9. SettledInv'
  <2>1. \A m \in DOMAIN settled' : finalized'[settled'[m]] /\ applied'[settled'[m]] = states'[settled'[m]]
    BY <1>2, <1>3, <1>4, <1>6, <1>7 DEF SettledInv
  <2>2. \A m \in DOMAIN chSettle' : finalized'[chSettle'[m]]
    BY <1>2, <1>5, <1>8, Zenon
  <2>3. ASSUME NEW m \in DOMAIN chSettle', NEW n \in DOMAIN chSettle', m < n
        PROVE  chSettle'[m] < chSettle'[n]
    <3>1. m + 1 \in DOMAIN chSettle /\ n + 1 \in DOMAIN chSettle /\ m + 1 < n + 1
      BY <1>3, <1>5, <2>3
    <3>2. chSettle[m + 1] < chSettle[n + 1]
      BY <3>1, Zenon DEF SettledInv
    <3> QED BY <1>5, <3>2
  <2>4. ASSUME NEW m \in DOMAIN settled', NEW n \in DOMAIN chSettle'
        PROVE  settled'[m] < chSettle'[n]
    <3>1. n + 1 \in DOMAIN chSettle /\ chSettle'[n] = chSettle[n + 1] /\ i < chSettle[n + 1]
      BY <1>3, <1>5, <1>8, Zenon
    <3>2. CASE m = L + 1
      BY <1>4, <3>1, <3>2, Zenon
    <3>3. CASE m # L + 1
      <4>1. m \in DOMAIN settled /\ settled'[m] = settled[m]
        BY <1>3, <1>4, <3>3
      <4> QED BY <3>1, <4>1, Zenon DEF SettledInv
    <3> QED BY <3>2, <3>3, Zenon
  <2>5. \A m, n \in DOMAIN settled' : m < n => settled'[m] < settled'[n]
    BY <1>3, <1>4, <1>7 DEF SettledInv
  <2> QED BY <2>1, <2>2, <2>3, <2>4, <2>5, Zenon DEF SettledInv
<1>10. ExactInv'
  <2> SUFFICES ASSUME ~cancelled PROVE ExactInv'
    BY <1>2, Zenon DEF ExactInv
  <2>1. i = L
    BY <1>3 DEF ExactInv, L
  <2>2. \A m \in DOMAIN settled' : settled'[m] = m - 1
    BY <1>3, <1>4, <2>1 DEF ExactInv
  <2>3. \A n \in DOMAIN chSettle' : chSettle'[n] = Len(settled') + n - 1
    <3>1. \A n \in 1 .. C : chSettle[n] = L + n - 1
      BY <1>3, Zenon DEF ExactInv, L
    <3> QED BY <1>3, <1>4, <1>5, <1>8, <3>1
  <2>4. Len(settled') + Len(chSettle') = L + C
    BY <1>3, <1>4, <1>5
  <2> QED BY <1>2, <2>2, <2>3, <2>4, Zenon DEF ExactInv, L, C
<1> QED BY <1>9, <1>10, Zenon

QueueInv == /\ \A j \in Tx : PublishInv(j)
            /\ SettledInv /\ ExactInv
            /\ returned => Finished

\* The settlement queue starts empty.
LEMMA QueueInit ==
    ASSUME TypeInv, Init
    PROVE  QueueInv
<1>1. \A j \in Tx : PublishInv(j)
  BY PublishInit, Zenon
<1>2. SettledInv /\ ExactInv
  BY TransactionsAssumption DEF Init, SettledInv, ExactInv, Tx, TransactionsAssumption
<1>3. ~returned
  BY Zenon DEF Init
<1> QED BY <1>1, <1>2, <1>3, Zenon DEF QueueInv

\* finishReexec and finalizePass finalize the first transaction that is not.
LEMMA FirstNotFinal ==
    ASSUME TypeInv, ControlInv, NEW j \in Tx, NEW i \in Tx,
           \/ j = vi /\ Pending = {}
           \/ reexecDone[j] = "closed"
    PROVE  finalized[i] <=> i < j
<1>1. TypeOK /\ OrderInv(i) /\ OrderInv(j)
  BY Zenon DEF TypeInv, ControlInv
<1>2. vi \in Int /\ i \in Int /\ j \in Int
  BY <1>1, TransactionsAssumption DEF TypeOK, Tx, TransactionsAssumption
<1>3. CASE j = vi /\ Pending = {}
  <2>1. reexecDone[i] = "nil"
    BY <1>1, <1>3, NonePending, TransactionsAssumption, Zenon
  <2> QED BY <1>1, <1>2, <1>3, <2>1 DEF OrderInv
<1>4. CASE reexecDone[j] = "closed"
  <2>1. j = vi - 1 /\ ~finalized[j]
    BY <1>1, <1>2, <1>4 DEF OrderInv
  <2> QED BY <1>1, <1>2, <2>1 DEF OrderInv
<1> QED BY <1>3, <1>4, Zenon

\* Every step keeps the settlement queue in order.
LEMMA QueueStep ==
    ASSUME TypeInv, ControlInv, QueueInv, [Next]_vars
    PROVE  SettledInv' /\ ExactInv'
<1>1. TypeOK /\ SettledInv /\ ExactInv
  BY Zenon DEF TypeInv, QueueInv
<1>2. settled \in Seq(Tx) /\ chSettle \in Seq(Tx)
  BY <1>1, Zenon DEF TypeOK
<1> USE DEF taskVars, execVars, ctxVars, valVars, settleVars
<1>3. ASSUME UNCHANGED <<settled, chSettle, applied, finalized>>, cancelled => cancelled',
             \A j \in Tx : finalized[j] => states'[j] = states[j]
      PROVE  SettledInv' /\ ExactInv'
  <2>1. SettledInv'
    <3>1. ASSUME NEW m \in DOMAIN settled
          PROVE  finalized[settled[m]] /\ applied[settled[m]] = states'[settled[m]]
      BY <1>1, <1>2, <1>3 DEF SettledInv
    <3> QED BY <1>1, <1>3, <3>1, Zenon DEF SettledInv
  <2>2. ExactInv'
    BY <1>1, <1>3, Zenon DEF ExactInv
  <2> QED BY <2>1, <2>2, Zenon
<1>4. ASSUME NEW i \in Tx, NEW s, Return(i, s), pc[i] \in Running PROVE SettledInv' /\ ExactInv'
  <2>1. \A j \in Tx : finalized[j] => j # i
    BY <1>4, FinalThreadDone, Zenon DEF Running
  <2>2. \A j \in Tx : finalized[j] => states'[j] = states[j]
    BY <1>1, <1>4, <2>1, Zenon DEF Return, TypeOK, PDBTypeOK
  <2> QED BY <1>3, <1>4, <2>2, Zenon DEF Return
<1>5. ASSUME NEW i \in Tx, AbortExecute(i) \/ FlushEnd(i) PROVE SettledInv' /\ ExactInv'
  BY <1>4, <1>5, Zenon DEF AbortExecute, FlushEnd, Running
<1>6. ASSUME NEW i \in Tx, Execute(i), ~AbortExecute(i), ~FlushEnd(i)
      PROVE  SettledInv' /\ ExactInv'
  <2>1. UNCHANGED <<settled, chSettle, applied, finalized, cancelled, states>>
    BY <1>6, Zenon DEF Execute, PassPrev, PassChain, Read, Finish, Flush, Cleanup, CleanupEnd
  <2> QED BY <1>3, <2>1, Zenon
<1>7. CASE FinishReexec
  <2> DEFINE j == FirstPending
  <2>1. j \in Tx /\ reexecDone[j] = "closed"
    BY <1>7, FirstPendingIsPending, TransactionsAssumption, Zenon DEF FinishReexec
  <2>2. \A i \in Tx : finalized[i] <=> i < j
    BY <2>1, FirstNotFinal, Zenon
  <2>3. ~finalized[j]
    BY <2>1, <2>2, TransactionsAssumption DEF Tx, TransactionsAssumption
  <2>4. /\ finalized' = [finalized EXCEPT ![j] = TRUE]
        /\ chSettle' = IF states[j].done THEN Append(chSettle, j) ELSE chSettle
        /\ UNCHANGED <<settled, applied, states, cancelled>>
    BY <1>7, Zenon DEF FinishReexec
  <2> HIDE DEF j
  <2>5. CASE states[j].done
    <3>1. chSettle' = Append(chSettle, j)
      BY <2>4, <2>5, Zenon
    <3> QED BY <1>1, <2>1, <2>2, <2>3, <2>4, <3>1, Enqueue, Zenon
  <2>6. CASE ~states[j].done
    <3>1. cancelled
      <4>1. ThreadInv(j) /\ PublishInv(j)
        BY <2>1, Zenon DEF ControlInv, QueueInv
      <4>2. pc[j] = "done"
        BY <2>1, <4>1, Zenon DEF ThreadInv
      <4> QED BY <2>6, <4>1, <4>2, Zenon DEF PublishInv
    <3>2. \A i \in Tx : finalized[i] => finalized'[i]
      BY <1>1, <2>4, Zenon DEF TypeOK
    <3>3. chSettle' = chSettle
      BY <2>4, <2>6, Zenon
    <3>4. SettledInv'
      BY <1>1, <1>2, <2>4, <3>2, <3>3 DEF SettledInv
    <3> QED BY <2>4, <3>1, <3>4, Zenon DEF ExactInv
  <2> QED BY <2>5, <2>6, Zenon
<1>8. CASE ValidatePass
  <2>1. vi \in Tx /\ Pending = {}
    BY <1>1, <1>8, TransactionsAssumption DEF ValidatePass, TypeOK, Tx, TransactionsAssumption
  <2>2. \A i \in Tx : finalized[i] <=> i < vi
    BY <2>1, FirstNotFinal, Zenon
  <2>3. ~finalized[vi]
    BY <2>1, <2>2, TransactionsAssumption DEF Tx, TransactionsAssumption
  <2> QED BY <1>1, <1>8, <2>1, <2>2, <2>3, Enqueue, Zenon DEF ValidatePass
<1>9. ASSUME Validator, ~FinishReexec, ~ValidatePass PROVE SettledInv' /\ ExactInv'
  <2>1. UNCHANGED <<settled, chSettle, applied, finalized, cancelled, states>>
    BY <1>9, Zenon DEF Validator, ValidateFail, Mark, LaunchReexec,
                ValidationDrained, ValidationCancelled, ValidationPanics
  <2> QED BY <1>3, <2>1, Zenon
<1>10. CASE Settle
  BY <1>1, <1>10, SettleStep, Zenon
<1>11. CASE Dispatch \/ DispatchStops \/ TakeTask \/ Cancel \/ ReturnResult \/ UNCHANGED vars
  <2>1. UNCHANGED <<settled, chSettle, applied, finalized, states>> /\ (cancelled => cancelled')
    BY <1>11 DEF Dispatch, DispatchStops, TakeTask, Cancel, ReturnResult, vars
  <2> QED BY <1>3, <2>1, Zenon
<1> QED BY <1>5, <1>6, <1>7, <1>8, <1>9, <1>10, <1>11, Zenon DEF Next

\* Nothing moves after ExecuteV2BlockSTM has returned.
LEMMA ReturnedStep ==
    ASSUME TypeInv, ControlInv, QueueInv, [Next]_vars
    PROVE  (returned => Finished)'
<1> USE DEF taskVars, execVars, valVars, settleVars
<1>1. CASE Finished
  <2>1. UNCHANGED <<vpc, dispatched, taskCh, pc, chSettle>>
    <3>1. ASSUME NEW i \in Tx PROVE ~Execute(i)
      BY <1>1, Zenon DEF Finished, Execute, PassPrev, PassChain, AbortExecute, Read, Finish, Flush,
                  FlushEnd, Cleanup, CleanupEnd
    <3>2. ~Validator
      BY <1>1, Zenon DEF Finished, Validator, FinishReexec, ValidatePass, ValidateFail, Mark,
                  LaunchReexec, ValidationDrained, ValidationCancelled, ValidationPanics
    <3>3. ~Dispatch /\ ~DispatchStops /\ ~TakeTask /\ ~Settle
      BY <1>1, Zenon DEF Finished, Dispatch, DispatchStops, TakeTask, Settle
    <3>4. Cancel \/ ReturnResult \/ UNCHANGED vars
      BY <3>1, <3>2, <3>3, Zenon DEF Next
    <3> QED BY <3>4, Zenon DEF Cancel, ReturnResult, vars
  <2> QED BY <1>1, <2>1, Zenon DEF Finished
<1>2. CASE ~Finished
  <2>1. ~returned /\ ~ReturnResult /\ returned \in BOOLEAN
    BY <1>2, Zenon DEF QueueInv, ReturnResult, TypeInv, TypeOK
  <2>2. returned' = returned
    BY <2>1, Zenon DEF Next, Dispatch, DispatchStops, TakeTask, Execute, PassPrev, PassChain, AbortExecute,
                Return, Read, Finish, Flush, FlushEnd, Cleanup, CleanupEnd, Validator, FinishReexec,
                ValidatePass, ValidateFail, Mark, LaunchReexec, ValidationDrained,
                ValidationCancelled, ValidationPanics, Settle, Cancel, vars
  <2> QED BY <2>1, <2>2, Zenon
<1> QED BY <1>1, <1>2, Zenon

\* The queue invariant is an invariant of the executor.
LEMMA QueueInvariant == Spec => [](TypeInv /\ ControlInv /\ QueueInv)
<1>1. Init => QueueInv
  BY QueueInit, TypeInit, TransactionsAssumption, V2Assumption, Zenon
<1>2. TypeInv /\ ControlInv /\ QueueInv /\ [Next]_vars => QueueInv'
  <2> SUFFICES ASSUME TypeInv, ControlInv, QueueInv, [Next]_vars PROVE QueueInv'
    BY Zenon
  <2>1. \A j \in Tx : PublishInv(j)'
    BY PublishStep, Zenon DEF QueueInv
  <2> QED BY <2>1, QueueStep, ReturnedStep, Zenon DEF QueueInv
<1> QED BY <1>1, <1>2, ControlInvariant, PTL DEF Spec

\* Settlement receives strictly increasing transaction indices, with or without
\* a cancellation (newV2SettleFn: "invoked in tx-index order").
THEOREM SettledInOrderHolds == Spec => []SettledInOrder
<1>1. TypeInv /\ QueueInv => SettledInOrder
  <2> SUFFICES ASSUME TypeInv, QueueInv,
                      NEW m \in DOMAIN (settled \o chSettle),
                      NEW n \in DOMAIN (settled \o chSettle), m < n
               PROVE  (settled \o chSettle)[m] < (settled \o chSettle)[n]
    BY Zenon DEF SettledInOrder
  <2>1. settled \in Seq(Tx) /\ chSettle \in Seq(Tx) /\ SettledInv
    BY Zenon DEF TypeInv, TypeOK, QueueInv
  <2>2. /\ DOMAIN settled = 1 .. Len(settled) /\ Len(settled) \in Nat
        /\ DOMAIN chSettle = 1 .. Len(chSettle) /\ Len(chSettle) \in Nat
        /\ m \in 1 .. (Len(settled) + Len(chSettle))
        /\ n \in 1 .. (Len(settled) + Len(chSettle))
        /\ \A e \in 1 .. (Len(settled) + Len(chSettle)) :
                (settled \o chSettle)[e] = IF e <= Len(settled) THEN settled[e]
                                           ELSE chSettle[e - Len(settled)]
    BY <2>1
  <2>3. CASE n <= Len(settled)
    BY <2>1, <2>2, <2>3 DEF SettledInv
  <2>4. CASE m > Len(settled)
    <3>1. m - Len(settled) \in DOMAIN chSettle /\ n - Len(settled) \in DOMAIN chSettle
          /\ m - Len(settled) < n - Len(settled)
      BY <2>2, <2>4
    <3> QED BY <2>1, <2>2, <2>4, <3>1 DEF SettledInv
  <2>5. CASE m <= Len(settled) /\ n > Len(settled)
    <3>1. m \in DOMAIN settled /\ n - Len(settled) \in DOMAIN chSettle
      BY <2>2, <2>5
    <3> QED BY <2>1, <2>2, <2>5, <3>1 DEF SettledInv
  <2> QED BY <2>2, <2>3, <2>4, <2>5
<1> QED BY <1>1, QueueInvariant, PTL

\* A call that returns without a cancellation and without a validation panic
\* has settled every transaction: the drain of runValidationLoop leaves no
\* re-execution behind.
THEOREM CompleteResultHolds == Spec => []CompleteResult
<1>1. TypeInv /\ ControlInv /\ QueueInv => CompleteResult
  <2> SUFFICES ASSUME TypeInv, ControlInv, QueueInv, returned, ~cancelled, vpc = "ended"
               PROVE  Len(settled) = N
    BY Zenon DEF CompleteResult
  <2>1. chSettle = <<>> /\ settled \in Seq(Tx) /\ N \in Nat \ {0}
    BY TransactionsAssumption, Zenon DEF QueueInv, Finished, TypeInv, TypeOK, TransactionsAssumption
  <2>2. Len(settled) <= N /\ \A j \in Tx : finalized[j] <=> j < Len(settled)
    BY <2>1 DEF QueueInv, ExactInv
  <2>3. N - 1 \in Tx
    BY <2>1 DEF Tx
  <2>4. finalized[N - 1]
    BY <2>1, <2>3 DEF ControlInv, OrderInv
  <2> QED BY <2>1, <2>2, <2>3, <2>4
<1> QED BY <1>1, QueueInvariant, PTL

=============================================================================
