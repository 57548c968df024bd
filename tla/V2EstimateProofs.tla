-------------------------- MODULE V2EstimateProofs --------------------------
(***************************************************************************)
(* Proofs about the ESTIMATE marks of V2Executor: they stay with the       *)
(* transaction being re-executed, so nothing waits for one.                *)
(***************************************************************************)
EXTENDS V2QueueProofs

BeforeFlush == {"idle", "queued", "check", "chain", "run"}

-----------------------------------------------------------------------------
(***************************************************************************)
(* ESTIMATE marks, with or without a cancellation: they are confined to    *)
(* the transaction being marked or re-executed, and to keys of its old     *)
(* incarnation, which the cleanup goes through.                            *)
(***************************************************************************)

\* An unfinished run has no outcome; the cells in todo are cells of the run
\* that is flushed, or of the published one that is marked.
OutcomeInv(j) ==
    /\ pc[j] \in BeforeFlush => ~pdb[j].done
    /\ ~pdb[j].done => pdb[j].out = NoOutcome
    /\ ~states[j].done => states[j].out = NoOutcome
    /\ pc[j] = "flush" => todo[j] \subseteq FlushCells(pdb[j])
    /\ vpc = "mark" /\ j = vi => todo[j] \subseteq WriteKeys(states[j]) \cup BalAddrs(states[j])

EstInv(j) ==
    \A k \in Keys : mv[k][j].est =>
        /\ mv[k][j].there
        /\ \/ /\ k \in WriteKeys(states[j])
              /\ \/ vpc = "mark" /\ j = vi
                 \/ incarnations[j] = 1 /\ pc[j] \in Running
           \/ pc[j] = "cleanup" /\ k \in todo[j]

\* A worker takes a queued transaction that has not run yet.
LEMMA TakenTask ==
    ASSUME TypeInv, ControlInv, TakeTask
    PROVE  Head(taskCh) \in Tx /\ pc[Head(taskCh)] = "queued" /\ incarnations[Head(taskCh)] = 0
<1>1. 1 \in DOMAIN taskCh /\ Head(taskCh) = taskCh[1] /\ taskCh[1] \in Tx
  BY DEF TakeTask, TypeInv, TypeOK
<1>2. pc[taskCh[1]] = "queued"
  BY <1>1, Zenon DEF ControlInv, TaskInv
<1>3. incarnations[taskCh[1]] \in 0 .. 1 /\ ThreadInv(taskCh[1])
  BY <1>1, Zenon DEF TypeInv, TypeOK, ControlInv
<1>4. incarnations[taskCh[1]] # 1
  BY <1>2, <1>3, Zenon DEF ThreadInv, Running
<1> QED BY <1>1, <1>2, <1>3, <1>4

\* The transaction whose cells are being marked has been executed once.
LEMMA MarkedTask ==
    ASSUME TypeInv, ControlInv, vpc = "mark"
    PROVE  vi \in Tx /\ pc[vi] = "done" /\ incarnations[vi] = 0 /\ ~finalized[vi]
<1>1. vi \in Tx /\ vi >= vi
  BY TransactionsAssumption DEF TypeInv, TypeOK, Tx, TransactionsAssumption
<1>2. incarnations[vi] = 0 /\ ThreadInv(vi) /\ OrderInv(vi)
  BY <1>1, Zenon DEF TypeInv, ControlInv
<1> QED BY <1>1, <1>2, Zenon DEF ThreadInv, OrderInv

\* No outcome and no ESTIMATE when the goroutines start.
LEMMA OutcomeInit ==
    ASSUME NEW j \in Tx, Init
    PROVE  OutcomeInv(j) /\ EstInv(j)
<1>1. OutcomeInv(j)
  BY Zenon DEF Init, OutcomeInv, BeforeFlush, NewPDB
<1>2. EstInv(j)
  BY Zenon DEF Init, StoreInit, EstInv, Absent
<1> QED BY <1>1, <1>2, Zenon

\* Every step keeps outcomes with finished runs.
LEMMA OutcomeStep ==
    ASSUME NEW j \in Tx, TypeInv, ControlInv, QueueInv, \A i \in Tx : OutcomeInv(i), [Next]_vars
    PROVE  OutcomeInv(j)'
<1>1. TypeOK /\ ThreadInv(j) /\ OrderInv(j) /\ PublishInv(j) /\ OutcomeInv(j)
  BY Zenon DEF TypeInv, ControlInv, QueueInv
<1>2. /\ DOMAIN pc = Tx /\ DOMAIN pdb = Tx /\ DOMAIN states = Tx /\ DOMAIN todo = Tx
      /\ DOMAIN incarnations = Tx
  BY <1>1, Zenon DEF TypeOK, PDBTypeOK
<1> USE DEF taskVars, execVars, ctxVars, valVars, OutcomeInv
<1>3. ASSUME UNCHANGED <<pdb, states, pc>>,
             \/ UNCHANGED <<todo, vi, vpc>>
             \/ UNCHANGED todo /\ vpc' # "mark"
             \/ todo'[j] \subseteq todo[j] /\ UNCHANGED <<vi, vpc>>
      PROVE  OutcomeInv(j)'
  BY <1>1, <1>3, Zenon DEF WriteKeys, BalAddrs, FlushCells
<1>4. CASE Dispatch
  <2>1. nextTask \in Tx /\ nextTask >= nextTask
    BY <1>1, <1>4, TransactionsAssumption DEF Dispatch, TypeOK, Tx, TransactionsAssumption
  <2>2. pc[nextTask] = "idle"
    BY <2>1, Zenon DEF ControlInv, ThreadInv
  <2> QED BY <1>1, <1>2, <1>4, <2>2, Zenon DEF Dispatch, BeforeFlush
<1>5. ASSUME NEW i \in Tx, PassPrev(i) \/ PassChain(i) PROVE OutcomeInv(j)'
  BY <1>1, <1>2, <1>5, Zenon DEF PassPrev, PassChain, BeforeFlush
<1>6. CASE TakeTask
  <2>1. FirstPC(Head(taskCh)) \in {"check", "run"}
    BY Zenon DEF FirstPC
  <2> QED BY <1>1, <1>2, <1>6, <2>1, TakenTask, Zenon DEF TakeTask, BeforeFlush
<1>7. ASSUME NEW i \in Tx, NEW s, Return(i, s), pc[i] \in Running, ~s.done => s.out = NoOutcome
      PROVE  OutcomeInv(j)'
  <2>1. CASE i = j
    <3>1. pc'[j] \in {"done", "cleanup"} /\ states'[j] = s /\ UNCHANGED <<pdb, vi, vpc>>
      BY <1>2, <1>7, <2>1, Zenon DEF Return
    <3>2. ~(vpc = "mark" /\ j = vi)
      BY <1>7, <2>1, MarkedTask, Zenon DEF Running
    <3> QED BY <1>1, <1>7, <3>1, <3>2, Zenon DEF BeforeFlush
  <2>2. CASE i # j
    BY <1>1, <1>2, <1>7, <2>2, Zenon DEF Return, WriteKeys, BalAddrs, FlushCells
  <2> QED BY <2>1, <2>2, Zenon
<1>8. ASSUME NEW i \in Tx, AbortExecute(i) PROVE OutcomeInv(j)'
  BY <1>7, <1>8, Zenon DEF AbortExecute, Running
<1>9. ASSUME NEW i \in Tx, FlushEnd(i) PROVE OutcomeInv(j)'
  BY <1>7, <1>9, Zenon DEF FlushEnd, Running
<1>10. ASSUME NEW i \in Tx, Read(i) PROVE OutcomeInv(j)'
  <2>1. pc[i] = "run" /\ pdb'[i].done = FALSE /\ pdb'[i].out = NoOutcome
    BY <1>2, <1>10, Zenon DEF Read
  <2>2. \A n \in Tx : n # i => pdb'[n] = pdb[n]
    BY <1>2, <1>10, Zenon DEF Read
  <2>3. UNCHANGED <<pc, states, todo, vi, vpc>>
    BY <1>10, Zenon DEF Read
  <2> QED BY <1>1, <2>1, <2>2, <2>3 DEF WriteKeys, BalAddrs, FlushCells
<1>11. ASSUME NEW i \in Tx, Finish(i) PROVE OutcomeInv(j)'
  <2>1. /\ pdb'[i].done = TRUE /\ todo'[i] = FlushCells(pdb'[i]) /\ pc'[i] = "flush"
        /\ pc[i] = "run"
    BY <1>2, <1>11, Zenon DEF Finish
  <2>2. \A n \in Tx : n # i => pdb'[n] = pdb[n] /\ todo'[n] = todo[n] /\ pc'[n] = pc[n]
    BY <1>2, <1>11, Zenon DEF Finish
  <2>3. UNCHANGED <<states, vi, vpc>>
    BY <1>11, Zenon DEF Finish
  <2>4. vpc = "mark" /\ j = vi => pc[j] = "done"
    BY MarkedTask, Zenon
  <2> QED BY <1>1, <2>1, <2>2, <2>3, <2>4, Zenon DEF WriteKeys, BalAddrs, BeforeFlush
<1>12. ASSUME NEW i \in Tx, Flush(i) \/ Cleanup(i) PROVE OutcomeInv(j)'
  <2>1. todo'[j] \subseteq todo[j] /\ UNCHANGED <<pdb, states, pc, vi, vpc>>
    BY <1>2, <1>12, Zenon DEF Flush, Cleanup
  <2> QED BY <1>3, <2>1, Zenon
<1>13. CASE Mark
  <2>1. todo'[j] \subseteq todo[j] /\ UNCHANGED <<pdb, states, pc, vi, vpc>>
    BY <1>2, <1>13, Zenon DEF Mark
  <2> QED BY <1>3, <2>1, Zenon
<1>14. ASSUME NEW i \in Tx, CleanupEnd(i) PROVE OutcomeInv(j)'
  BY <1>1, <1>2, <1>14, Zenon DEF CleanupEnd, BeforeFlush, WriteKeys, BalAddrs, FlushCells
<1>15. CASE ValidateFail
  <2>1. UNCHANGED <<pdb, states, pc, vi>>
    BY <1>15, Zenon DEF ValidateFail
  <2>2. vi \in Tx /\ execDone[vi] /\ incarnations[vi] = 0
    BY <1>1, <1>15, TransactionsAssumption
    DEF ValidateFail, TypeInv, TypeOK, Tx, TransactionsAssumption
  <2>3. pc[vi] = "done"
    BY <2>2, Zenon DEF ControlInv, ThreadInv
  <2>4. todo'[vi] \subseteq WriteKeys(states[vi]) \cup BalAddrs(states[vi])
    BY <1>2, <1>15, <2>2, Zenon DEF ValidateFail
  <2>5. \A n \in Tx : n # vi => todo'[n] = todo[n]
    BY <1>2, <1>15, Zenon DEF ValidateFail
  <2> QED BY <1>1, <2>1, <2>3, <2>4, <2>5, Zenon DEF WriteKeys, BalAddrs, FlushCells
<1>16. CASE LaunchReexec
  <2>1. FirstPC(vi) \in {"check", "run"} /\ vi \in Tx
    BY <1>1, <1>16, TransactionsAssumption
    DEF FirstPC, LaunchReexec, TypeInv, TypeOK, Tx, TransactionsAssumption
  <2>2. pdb'[vi] = NewPDB(Prog(vi), incarnations[vi] + 1) /\ pc'[vi] \in {"check", "run"}
    BY <1>2, <1>16, <2>1, Zenon DEF LaunchReexec
  <2>3. \A n \in Tx : n # vi => pdb'[n] = pdb[n] /\ pc'[n] = pc[n]
    BY <1>2, <1>16, Zenon DEF LaunchReexec
  <2>4. UNCHANGED <<states, todo>> /\ vpc' # "mark"
    BY <1>16, Zenon DEF LaunchReexec, NextIteration
  <2>5. CASE j = vi
    BY <1>1, <2>2, <2>4, <2>5 DEF NewPDB
  <2>6. CASE j # vi
    BY <1>1, <2>3, <2>4, <2>6, Zenon DEF FlushCells, WriteKeys, BalAddrs
  <2> QED BY <2>5, <2>6, Zenon
<1>17. CASE FinishReexec \/ ValidatePass \/ ValidationDrained \/ ValidationCancelled \/ ValidationPanics
  BY <1>3, <1>17, Zenon DEF FinishReexec, ValidatePass, NextIteration, ValidationDrained,
                     ValidationCancelled, ValidationPanics
<1>18. CASE DispatchStops \/ Settle \/ Cancel \/ ReturnResult \/ UNCHANGED vars
  BY <1>3, <1>18, Zenon DEF DispatchStops, Settle, Cancel, ReturnResult, vars
<1> QED
  BY <1>4, <1>5, <1>6, <1>8, <1>9, <1>10, <1>11, <1>12, <1>13, <1>14, <1>15, <1>16, <1>17, <1>18, Zenon
  DEF Next, Execute, Validator

\* Every step keeps ESTIMATE marks where they may be.
LEMMA EstStep ==
    ASSUME NEW j \in Tx, TypeInv, ControlInv, QueueInv, \A i \in Tx : OutcomeInv(i),
           EstInv(j), [Next]_vars
    PROVE  EstInv(j)'
<1> SUFFICES ASSUME NEW k \in Keys, mv'[k][j].est
             PROVE  /\ mv'[k][j].there
                    /\ \/ /\ k \in WriteKeys(states'[j])
                          /\ \/ vpc' = "mark" /\ j = vi'
                             \/ incarnations'[j] = 1 /\ pc'[j] \in Running
                       \/ pc'[j] = "cleanup" /\ k \in todo'[j]
  BY Zenon DEF EstInv, WriteKeys
<1> DEFINE Goal == /\ mv'[k][j].there
                   /\ \/ /\ k \in WriteKeys(states'[j])
                         /\ \/ vpc' = "mark" /\ j = vi'
                            \/ incarnations'[j] = 1 /\ pc'[j] \in Running
                      \/ pc'[j] = "cleanup" /\ k \in todo'[j]
<1>1. TypeOK /\ ThreadInv(j) /\ OrderInv(j) /\ PublishInv(j) /\ OutcomeInv(j)
  BY Zenon DEF TypeInv, ControlInv, QueueInv
<1>2. /\ DOMAIN pc = Tx /\ DOMAIN pdb = Tx /\ DOMAIN states = Tx /\ DOMAIN todo = Tx
      /\ DOMAIN incarnations = Tx /\ mv \in [Keys -> [Tx -> Entries]]
  BY <1>1, Zenon DEF TypeOK, PDBTypeOK, StoreTypeOK
<1>3. mv[k][j].est =>
        /\ mv[k][j].there
        /\ \/ /\ k \in WriteKeys(states[j])
              /\ \/ vpc = "mark" /\ j = vi
                 \/ incarnations[j] = 1 /\ pc[j] \in Running
           \/ pc[j] = "cleanup" /\ k \in todo[j]
  BY Zenon DEF EstInv
<1> USE DEF taskVars, execVars, ctxVars, valVars, storeVars
<1>4. ASSUME mv'[k][j] = mv[k][j], states'[j] = states[j], incarnations'[j] = incarnations[j],
             vpc = "mark" /\ j = vi => vpc' = "mark" /\ j = vi',
             pc[j] \in Running => pc'[j] \in Running,
             pc[j] = "cleanup" => pc'[j] = "cleanup" /\ todo'[j] = todo[j]
      PROVE  Goal
  BY <1>3, <1>4, Zenon DEF WriteKeys
<1>5. CASE Dispatch
  <2>1. nextTask \in Tx /\ nextTask >= nextTask
    BY <1>1, <1>5, TransactionsAssumption DEF Dispatch, TypeOK, Tx, TransactionsAssumption
  <2>2. pc[nextTask] = "idle"
    BY <2>1, Zenon DEF ControlInv, ThreadInv
  <2> QED BY <1>2, <1>4, <1>5, <2>2, Zenon DEF Dispatch, Running
<1>6. CASE TakeTask
  BY <1>2, <1>4, <1>6, TakenTask, Zenon DEF TakeTask, Running
<1>7. ASSUME NEW i \in Tx, PassPrev(i) \/ PassChain(i) \/ Read(i) PROVE Goal
  BY <1>2, <1>4, <1>7, Zenon DEF PassPrev, PassChain, Read, Running
<1>8. ASSUME NEW i \in Tx, Finish(i) PROVE Goal
  BY <1>2, <1>4, <1>8, Zenon DEF Finish, Running
<1>9. ASSUME NEW i \in Tx, NEW s, Return(i, s), pc[i] \in Running,
             s.done \/ WriteKeys(states[i]) = {}
      PROVE  Goal
  <2>1. CASE i # j
    BY <1>2, <1>4, <1>9, <2>1, Zenon DEF Return
  <2>2. CASE i = j
    <3>1. ~(vpc = "mark" /\ j = vi)
      BY <1>9, <2>2, MarkedTask, Zenon DEF Running
    <3>2. mv[k][j].est /\ mv' = mv
      BY <1>9, Zenon DEF Return
    <3>3. k \in WriteKeys(states[j]) /\ incarnations[j] = 1 /\ mv[k][j].there
      BY <1>3, <1>9, <2>2, <3>1, <3>2, Zenon DEF Running
    <3>4. pc'[j] = "cleanup" /\ todo'[j] = StaleCells(states[j], s)
      BY <1>2, <1>9, <2>2, <3>3 DEF Return
    <3> QED BY <3>2, <3>3, <3>4, Zenon DEF StaleCells
  <2> QED BY <2>1, <2>2, Zenon
<1>10. ASSUME NEW i \in Tx, AbortExecute(i) PROVE Goal
  <2>1. states[i].done \/ WriteKeys(states[i]) = {}
    BY DEF OutcomeInv, WriteKeys, NoOutcome
  <2> QED BY <1>9, <1>10, <2>1, Zenon DEF AbortExecute, Running
<1>11. ASSUME NEW i \in Tx, FlushEnd(i) PROVE Goal
  <2>1. PublishInv(i)
    BY Zenon DEF QueueInv
  <2> QED BY <1>9, <1>11, <2>1, Zenon DEF FlushEnd, Running, PublishInv
<1>12. ASSUME NEW i \in Tx, Flush(i) PROVE Goal
  <2>1. PICK c \in todo[i] :
            /\ IF c \in Keys
               THEN WriteInc(c, i, pdb[i].inc, pdb[i].out.writes[c]) /\ UNCHANGED bals
               ELSE WriteDelta(c, i, pdb[i].out.deltas[c]) /\ UNCHANGED mv
            /\ todo' = [todo EXCEPT ![i] = @ \ {c}]
    BY <1>12, Zenon DEF Flush
  <2>2. mv'[k][j] = mv[k][j]
    <3>1. CASE c = k /\ i = j
      <4>1. mv'[k][j] = [there |-> TRUE, inc |-> pdb[i].inc, val |-> pdb[i].out.writes[c], est |-> FALSE]
        BY <1>2, <2>1, <3>1 DEF WriteInc
      <4>2. ~mv'[k][j].est
        BY <4>1
      <4> QED BY <4>2, Zenon
    <3>2. CASE ~(c = k /\ i = j)
      BY <1>2, <2>1, <3>2 DEF WriteInc
    <3> QED BY <3>1, <3>2, Zenon
  <2>3. pc[j] = "cleanup" => todo'[j] = todo[j]
    BY <1>2, <1>12, <2>1, Zenon DEF Flush
  <2> QED BY <1>4, <1>12, <2>2, <2>3, Zenon DEF Flush
<1>13. ASSUME NEW i \in Tx, Cleanup(i) PROVE Goal
  <2>1. PICK c \in todo[i] :
            /\ IF c \in Keys
               THEN CleanupEstimate(c, i) /\ UNCHANGED bals
               ELSE DeleteSingle(c, i) /\ UNCHANGED mv
            /\ todo' = [todo EXCEPT ![i] = @ \ {c}]
    BY <1>13, Zenon DEF Cleanup
  <2>2. CASE i = j
    <3>1. CASE c = k
      <4>1. mv'[k][j] = IF mv[k][j].there /\ mv[k][j].est THEN Absent ELSE mv[k][j]
        BY <1>2, <2>1, <2>2, <3>1 DEF CleanupEstimate
      <4>2. CASE mv[k][j].there /\ mv[k][j].est
        BY <4>1, <4>2 DEF Absent
      <4>3. CASE ~(mv[k][j].there /\ mv[k][j].est)
        BY <1>3, <4>1, <4>3, Zenon
      <4> QED BY <4>2, <4>3, Zenon
    <3>2. CASE c # k
      <4>1. mv'[k][j] = mv[k][j]
        BY <1>2, <2>1, <3>2, Zenon DEF CleanupEstimate
      <4>2. k \in todo[j] => k \in todo'[j]
        BY <1>2, <2>1, <3>2, Zenon
      <4>3. UNCHANGED <<states, incarnations, vpc, vi, pc>> /\ pc[j] = "cleanup"
        BY <1>13, <2>2, Zenon DEF Cleanup
      <4> QED BY <1>3, <4>1, <4>2, <4>3, Zenon
    <3> QED BY <3>1, <3>2, Zenon
  <2>3. CASE i # j
    <3>1. mv'[k][j] = mv[k][j] /\ todo'[j] = todo[j]
      BY <1>2, <2>1, <2>3 DEF CleanupEstimate
    <3> QED BY <1>4, <1>13, <3>1, Zenon DEF Cleanup
  <2> QED BY <2>2, <2>3, Zenon
<1>14. ASSUME NEW i \in Tx, CleanupEnd(i) PROVE Goal
  <2>1. CASE i = j
    <3>1. ~(vpc = "mark" /\ j = vi)
      BY <1>14, <2>1, MarkedTask, Zenon DEF CleanupEnd
    <3>2. ~mv[k][j].est
      BY <1>3, <1>14, <2>1, <3>1, Zenon DEF CleanupEnd, Running
    <3> QED BY <1>14, <3>2, Zenon DEF CleanupEnd
  <2>2. CASE i # j
    BY <1>2, <1>4, <1>14, <2>2, Zenon DEF CleanupEnd
  <2> QED BY <2>1, <2>2, Zenon
<1>15. CASE FinishReexec \/ ValidatePass \/ ValidationDrained \/ ValidationCancelled \/ ValidationPanics
  BY <1>4, <1>15, Zenon DEF FinishReexec, ValidatePass, NextIteration, ValidationDrained,
                     ValidationCancelled, ValidationPanics
<1>16. CASE ValidateFail
  <2>1. vi \in Tx /\ execDone[vi] /\ incarnations[vi] = 0
    BY <1>1, <1>16, TransactionsAssumption
    DEF ValidateFail, TypeInv, TypeOK, Tx, TransactionsAssumption
  <2>2. pc[vi] = "done"
    BY <2>1, Zenon DEF ControlInv, ThreadInv
  <2>3. pc[j] = "cleanup" => todo'[j] = todo[j]
    BY <1>2, <1>16, <2>2, Zenon DEF ValidateFail
  <2> QED BY <1>4, <1>16, <2>3, Zenon DEF ValidateFail
<1>17. CASE Mark
  <2>1. PICK c \in todo[vi] :
            /\ IF c \in Keys
               THEN MarkEstimate(c, vi) /\ UNCHANGED bals
               ELSE ZeroDeltaAt(c, vi) /\ UNCHANGED mv
            /\ todo' = [todo EXCEPT ![vi] = @ \ {c}]
    BY <1>17, Zenon DEF Mark
  <2>2. vi \in Tx /\ pc[vi] = "done"
    BY <1>17, MarkedTask, Zenon DEF Mark
  <2>3. UNCHANGED <<states, incarnations, vpc, vi, pc>> /\ vpc = "mark"
    BY <1>17, Zenon DEF Mark
  <2>4. CASE c = k /\ j = vi
    <3>1. mv'[k][j] = IF mv[k][j].there THEN [mv[k][j] EXCEPT !.est = TRUE] ELSE mv[k][j]
      <4> DEFINE e == mv[k][j]
      <4>1. mv' = [mv EXCEPT ![k][j] = IF e.there THEN [e EXCEPT !.est = TRUE] ELSE e]
        BY <1>2, <2>1, <2>4, Zenon DEF MarkEstimate
      <4> HIDE DEF e
      <4>2. mv'[k][j] = IF e.there THEN [e EXCEPT !.est = TRUE] ELSE e
        BY <1>2, <4>1, Zenon
      <4> QED BY <4>2, Zenon DEF e
    <3>2. mv[k][j].there
      BY <1>3, <3>1, Zenon
    <3>3. mv'[k][j].there
      BY <1>2, <3>1, <3>2 DEF Entries
    <3>4. k \in WriteKeys(states[j])
      BY <1>1, <2>1, <2>3, <2>4, TransactionsAssumption, Zenon DEF OutcomeInv, BalAddrs, TransactionsAssumption
    <3> QED BY <2>3, <2>4, <3>3, <3>4, Zenon
  <2>5. CASE ~(c = k /\ j = vi)
    <3>1. mv'[k][j] = mv[k][j]
      BY <1>2, <2>1, <2>5 DEF MarkEstimate
    <3>2. pc[j] = "cleanup" => todo'[j] = todo[j]
      BY <1>2, <2>1, <2>2, Zenon
    <3> QED BY <1>4, <2>3, <3>1, <3>2, Zenon
  <2> QED BY <2>4, <2>5, Zenon
<1>18. CASE LaunchReexec
  <2>1. vi \in Tx /\ pc[vi] = "done" /\ incarnations[vi] = 0
    BY <1>18, MarkedTask, Zenon DEF LaunchReexec
  <2>2. FirstPC(vi) \in Running
    BY Zenon DEF FirstPC, Running
  <2>3. CASE j = vi
    <3>1. incarnations'[j] = 1 /\ pc'[j] \in Running /\ UNCHANGED <<mv, states>>
      BY <1>2, <1>18, <2>1, <2>2, <2>3 DEF LaunchReexec
    <3>2. mv[k][j].there /\ k \in WriteKeys(states[j])
      BY <1>3, <2>1, <2>3, <3>1, Zenon
    <3> QED BY <3>1, <3>2, Zenon
  <2>4. CASE j # vi
    BY <1>2, <1>4, <1>18, <2>1, <2>4, Zenon DEF LaunchReexec
  <2> QED BY <2>3, <2>4, Zenon
<1>19. CASE DispatchStops \/ Settle \/ Cancel \/ ReturnResult \/ UNCHANGED vars
  BY <1>4, <1>19, Zenon DEF DispatchStops, Settle, Cancel, ReturnResult, vars
<1> QED
  BY <1>5, <1>6, <1>7, <1>8, <1>10, <1>11, <1>12, <1>13, <1>14, <1>15, <1>16, <1>17, <1>18, <1>19, Zenon
  DEF Next, Execute, Validator

EstimateInv == TypeInv /\ ControlInv /\ QueueInv /\ \A j \in Tx : OutcomeInv(j) /\ EstInv(j)

\* The invariant of the ESTIMATE marks is an invariant of the executor.
LEMMA EstimateInvariant == Spec => []EstimateInv
<1>1. Init => \A j \in Tx : OutcomeInv(j) /\ EstInv(j)
  BY OutcomeInit, Zenon
<1>2. EstimateInv /\ [Next]_vars => (\A j \in Tx : OutcomeInv(j) /\ EstInv(j))'
  BY OutcomeStep, EstStep, Zenon DEF EstimateInv
<1> QED BY <1>1, <1>2, QueueInvariant, PTL DEF Spec, EstimateInv

\* A transaction is marked and re-executed when every earlier transaction is
\* finalized and holds no ESTIMATE: the waits of a re-execution
\* (handleEstimate, waitForFinal) never block, whatever was predicted, with or
\* without a cancellation.
THEOREM FinalBelowHolds == Spec => []FinalBelow
<1>1. EstimateInv => FinalBelow
  <2> SUFFICES ASSUME EstimateInv, NEW i \in Tx, NEW j \in 0 .. (i - 1),
                      \/ vpc = "mark" /\ i = vi
                      \/ incarnations[i] = 1 /\ pc[i] \in Running \cup {"cleanup"}
               PROVE  finalized[j] /\ \A k \in Keys : ~mv[k][j].est
    BY Zenon DEF FinalBelow
  <2>1. j \in Tx /\ j < i /\ j \in Int /\ i \in Int /\ vi \in Int
    BY TransactionsAssumption DEF EstimateInv, TypeInv, TypeOK, Tx, TransactionsAssumption
  <2>2. ThreadInv(i) /\ OrderInv(i) /\ OrderInv(j)
    BY <2>1, Zenon DEF EstimateInv, ControlInv
  <2>3. finalized[j]
    <3>1. CASE vpc = "mark" /\ i = vi
      BY <2>1, <2>2, <3>1, Zenon DEF OrderInv
    <3>2. CASE incarnations[i] = 1 /\ pc[i] \in Running \cup {"cleanup"}
      <4>1. reexecDone[i] = "open"
        BY <2>2, <3>2, Zenon DEF ThreadInv
      <4>2. i < vi
        BY <2>1, <2>2, <4>1 DEF OrderInv
      <4>3. j < vi - 1
        BY <2>1, <4>2
      <4> QED BY <2>1, <2>2, <4>3 DEF OrderInv
    <3> QED BY <3>1, <3>2, Zenon
  <2>4. pc[j] = "done" /\ j < vi
    BY <2>1, <2>3, FinalThreadDone, Zenon DEF EstimateInv
  <2>5. j # vi
    BY <2>1, <2>4
  <2>6. EstInv(j)
    BY <2>1, Zenon DEF EstimateInv
  <2> QED BY <2>3, <2>4, <2>5, <2>6, Zenon DEF EstInv, Running
<1> QED BY <1>1, EstimateInvariant, PTL

=============================================================================
