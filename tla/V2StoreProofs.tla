--------------------------- MODULE V2StoreProofs ----------------------------
(***************************************************************************)
(* Proofs about what the stores of V2Executor hold while workers flush,    *)
(* the validator marks and re-executions clean up: a finalized transaction *)
(* has exactly the entries and deltas it published.                        *)
(***************************************************************************)
EXTENDS V2EstimateProofs

-----------------------------------------------------------------------------
(***************************************************************************)
(* Each step acts on the state and the cells of one transaction.           *)
(***************************************************************************)

Marking(j) == vpc = "mark" /\ vi = j

RowSame(j) ==
    /\ pc'[j] = pc[j] /\ pdb'[j] = pdb[j] /\ states'[j] = states[j]
    /\ incarnations'[j] = incarnations[j] /\ todo'[j] = todo[j]
    /\ Marking(j)' <=> Marking(j)
    /\ \A k \in Keys : mv'[k][j] = mv[k][j]
    /\ \A a \in Addrs : bals'[a][j] = bals[a][j]

\* A step leaves transaction j alone unless it is a step of its own thread,
\* of the dispatcher or of the validator.
LEMMA OneRow ==
    ASSUME TypeInv, ControlInv, [Next]_vars, NEW j \in Tx
    PROVE  \/ RowSame(j)
           \/ Dispatch /\ j = nextTask
           \/ TakeTask /\ j = Head(taskCh)
           \/ Execute(j)
           \/ (ValidateFail \/ Mark \/ LaunchReexec) /\ j = vi
<1>1. /\ DOMAIN pc = Tx /\ DOMAIN pdb = Tx /\ DOMAIN states = Tx /\ DOMAIN todo = Tx
      /\ DOMAIN incarnations = Tx /\ mv \in [Keys -> [Tx -> Entries]]
      /\ bals \in [Addrs -> [Tx -> Deltas]]
  BY Zenon DEF TypeInv, TypeOK, PDBTypeOK, StoreTypeOK
<1> USE DEF taskVars, execVars, ctxVars, valVars, storeVars
<1>2. ASSUME UNCHANGED <<pc, pdb, states, incarnations, todo, mv, bals>>,
             UNCHANGED <<vi, vpc>> \/ (vpc # "mark" /\ vpc' # "mark")
      PROVE  RowSame(j)
  BY <1>2, Zenon DEF RowSame, Marking
<1>3. ASSUME Dispatch, j # nextTask PROVE RowSame(j)
  BY <1>1, <1>3, Zenon DEF Dispatch, RowSame, Marking
<1>4. ASSUME TakeTask, j # Head(taskCh) PROVE RowSame(j)
  BY <1>1, <1>4, Zenon DEF TakeTask, RowSame, Marking
<1>5. ASSUME NEW i \in Tx, j # i, PassPrev(i) \/ PassChain(i) \/ Read(i) \/ Finish(i) \/ CleanupEnd(i)
      PROVE  RowSame(j)
  BY <1>1, <1>5, Zenon DEF PassPrev, PassChain, Read, Finish, CleanupEnd, RowSame, Marking
<1>6. ASSUME NEW i \in Tx, j # i, AbortExecute(i) \/ FlushEnd(i) PROVE RowSame(j)
  BY <1>1, <1>6, Zenon DEF AbortExecute, FlushEnd, Return, RowSame, Marking
<1>7. ASSUME NEW i, j # i, NEW c,
             \/ \E e : mv' = [mv EXCEPT ![c][i] = e] /\ UNCHANGED bals
             \/ \E e : bals' = [bals EXCEPT ![c][i] = e] /\ UNCHANGED mv,
             todo' = [todo EXCEPT ![i] = @ \ {c}],
             UNCHANGED <<pc, pdb, states, incarnations, vi, vpc>>
      PROVE  RowSame(j)
  <2>1. (\A k \in Keys : mv'[k][j] = mv[k][j]) /\ (\A a \in Addrs : bals'[a][j] = bals[a][j])
    <3>1. CASE \E e : mv' = [mv EXCEPT ![c][i] = e] /\ UNCHANGED bals
      BY <1>1, <1>7, <3>1
    <3>2. CASE \E e : bals' = [bals EXCEPT ![c][i] = e] /\ UNCHANGED mv
      BY <1>1, <1>7, <3>2
    <3> QED BY <1>7, <3>1, <3>2, Zenon
  <2>2. todo'[j] = todo[j]
    BY <1>1, <1>7, Zenon
  <2> QED BY <1>7, <2>1, <2>2, Zenon DEF RowSame, Marking
<1>8. ASSUME NEW i \in Tx, j # i, Flush(i) PROVE RowSame(j)
  BY <1>7, <1>8, Zenon DEF Flush, WriteInc, WriteDelta
<1>9. ASSUME NEW i \in Tx, j # i, Cleanup(i) PROVE RowSame(j)
  BY <1>7, <1>9, Zenon DEF Cleanup, CleanupEstimate, DeleteSingle
<1>10. ASSUME Mark, j # vi PROVE RowSame(j)
  BY <1>7, <1>10, Zenon DEF Mark, MarkEstimate, ZeroDeltaAt
<1>11. ASSUME ValidateFail \/ LaunchReexec, j # vi PROVE RowSame(j)
  BY <1>1, <1>11 DEF ValidateFail, LaunchReexec, NextIteration, RowSame, Marking
<1>12. CASE FinishReexec \/ ValidatePass \/ ValidationDrained \/ ValidationCancelled \/ ValidationPanics
  BY <1>2, <1>12, Zenon DEF FinishReexec, ValidatePass, NextIteration, ValidationDrained,
                     ValidationCancelled, ValidationPanics
<1>13. CASE DispatchStops \/ Settle \/ Cancel \/ ReturnResult \/ UNCHANGED vars
  BY <1>2, <1>13, Zenon DEF DispatchStops, Settle, Cancel, ReturnResult, vars
<1> QED
  BY <1>3, <1>4, <1>5, <1>6, <1>8, <1>9, <1>10, <1>11, <1>12, <1>13
  DEF Next, Execute, Validator

-----------------------------------------------------------------------------
(***************************************************************************)
(* What the stores hold for a transaction, by the place of its thread,     *)
(* while the call is not cancelled.                                        *)
(***************************************************************************)

EntryOf(s, n, k, e) ==
    IF Published(s.out, k) = Nil THEN Absent
    ELSE [there |-> TRUE, inc |-> n, val |-> s.out.writes[k], est |-> e]

\* Before an execution flushes: nothing, or the marked old incarnation.
Prior(j, k) ==
    IF incarnations[j] = 0 THEN Absent ELSE EntryOf(states[j], 0, k, TRUE)

KeyInv(j, k) ==
    /\ pc[j] \in BeforeFlush => mv[k][j] = Prior(j, k)
    /\ pc[j] = "flush" =>
        mv[k][j] = IF k \in todo[j] \/ Published(pdb[j].out, k) = Nil THEN Prior(j, k)
                   ELSE EntryOf(pdb[j], incarnations[j], k, FALSE)
    /\ pc[j] = "cleanup" =>
        IF Published(states[j].out, k) # Nil
        THEN mv[k][j] = EntryOf(states[j], incarnations[j], k, FALSE)
        ELSE mv[k][j] = Absent \/ (k \in todo[j] /\ mv[k][j].there /\ mv[k][j].est)
    /\ pc[j] = "done" /\ Marking(j) =>
        mv[k][j] = EntryOf(states[j], incarnations[j], k, k \notin todo[j])
    /\ pc[j] = "done" /\ ~Marking(j) =>
        mv[k][j] = EntryOf(states[j], incarnations[j], k, FALSE)

DeltaInv(j, a) ==
    /\ pc[j] \in BeforeFlush => bals[a][j] = ZeroDelta
    /\ pc[j] = "flush" =>
        bals[a][j] = IF a \in todo[j] THEN ZeroDelta ELSE PublishedDelta(pdb[j].out, a)
    /\ pc[j] = "cleanup" =>
        /\ bals[a][j] = PublishedDelta(states[j].out, a)
        /\ a \in todo[j] => bals[a][j] = ZeroDelta
    /\ pc[j] = "done" /\ Marking(j) =>
        bals[a][j] = IF a \in todo[j] THEN PublishedDelta(states[j].out, a) ELSE ZeroDelta
    /\ pc[j] = "done" /\ ~Marking(j) => bals[a][j] = PublishedDelta(states[j].out, a)

ContentInv ==
    ~cancelled => \A j \in Tx : /\ \A k \in Keys : KeyInv(j, k)
                                /\ \A a \in Addrs : DeltaInv(j, a)

\* The stores start empty.
LEMMA ContentInit ==
    ASSUME Init
    PROVE  ContentInv
<1> SUFFICES ASSUME NEW j \in Tx
             PROVE  /\ \A k \in Keys : KeyInv(j, k)
                    /\ \A a \in Addrs : DeltaInv(j, a)
  BY Zenon DEF ContentInv
<1>1. pc[j] = "idle" /\ incarnations[j] = 0
  BY Zenon DEF Init
<1>2. ASSUME NEW k \in Keys PROVE KeyInv(j, k)
  BY <1>1, Zenon DEF Init, StoreInit, KeyInv, Prior, BeforeFlush
<1>3. ASSUME NEW a \in Addrs PROVE DeltaInv(j, a)
  BY <1>1, Zenon DEF Init, StoreInit, DeltaInv, BeforeFlush
<1> QED BY <1>2, <1>3, Zenon

\* A cancelled context stays cancelled.
LEMMA CancelMonotone ==
    ASSUME TypeInv, [Next]_vars, cancelled
    PROVE  cancelled'
BY Zenon DEF TypeInv, TypeOK, vars, Next, Dispatch, DispatchStops, TakeTask, Execute, PassPrev, PassChain,
       AbortExecute, Return, Read, Finish, Flush, FlushEnd, Cleanup, CleanupEnd, Validator,
       FinishReexec, ValidatePass, ValidateFail, Mark, LaunchReexec, ValidationDrained,
       ValidationCancelled, ValidationPanics, Settle, Cancel, ReturnResult

\* Every step keeps the entry of transaction j for key k as the invariant
\* says.
LEMMA KeyStep ==
    ASSUME NEW j \in Tx, NEW k \in Keys, EstimateInv, ContentInv, ~cancelled', [Next]_vars
    PROVE  KeyInv(j, k)'
<1>1. ~cancelled /\ KeyInv(j, k)
  BY CancelMonotone, Zenon DEF EstimateInv, ContentInv
<1>2. /\ DOMAIN pc = Tx /\ DOMAIN pdb = Tx /\ DOMAIN states = Tx /\ DOMAIN todo = Tx
      /\ DOMAIN incarnations = Tx /\ mv \in [Keys -> [Tx -> Entries]]
      /\ incarnations[j] \in 0 .. 1
  BY Zenon DEF EstimateInv, TypeInv, TypeOK, PDBTypeOK, StoreTypeOK
<1>3. /\ TypeInv /\ ControlInv /\ ThreadInv(j) /\ OrderInv(j) /\ PublishInv(j)
      /\ OutcomeInv(j) /\ EstInv(j)
  BY Zenon DEF EstimateInv, ControlInv, QueueInv
<1> USE DEF taskVars, execVars, ctxVars, valVars, storeVars
<1>4. CASE RowSame(j)
  BY <1>1, <1>4, Zenon DEF RowSame, KeyInv, Prior, EntryOf, Marking
<1>5. CASE Dispatch /\ j = nextTask
  <2>1. pc[j] = "idle"
    BY <1>3, <1>5, TransactionsAssumption DEF ThreadInv, Tx, TransactionsAssumption
  <2>2. pc'[j] = "queued" /\ UNCHANGED <<mv, incarnations, states>>
    BY <1>2, <1>5, Zenon DEF Dispatch
  <2> QED BY <1>1, <2>1, <2>2, Zenon DEF KeyInv, Prior, EntryOf, BeforeFlush
<1>6. CASE TakeTask /\ j = Head(taskCh)
  <2>1. pc[j] = "queued"
    BY <1>3, <1>6, TakenTask, Zenon
  <2>2. pc'[j] \in {"check", "run"} /\ UNCHANGED <<mv, incarnations, states>>
    BY <1>2, <1>6, Zenon DEF TakeTask, FirstPC
  <2> QED BY <1>1, <2>1, <2>2, Zenon DEF KeyInv, Prior, EntryOf, BeforeFlush
<1>7. CASE PassPrev(j) \/ PassChain(j) \/ Read(j)
  <2>1. pc[j] \in BeforeFlush /\ pc'[j] \in BeforeFlush /\ UNCHANGED <<mv, incarnations, states>>
    BY <1>2, <1>7, Zenon DEF PassPrev, PassChain, Read, BeforeFlush
  <2> QED BY <1>1, <2>1, Zenon DEF KeyInv, Prior, EntryOf, BeforeFlush
<1>8. CASE AbortExecute(j)
  BY <1>1, <1>8, Zenon DEF AbortExecute
<1>9. CASE Finish(j)
  <2>1. pc[j] = "run" /\ pc'[j] = "flush" /\ UNCHANGED <<mv, incarnations, states>>
    BY <1>2, <1>9, Zenon DEF Finish
  <2>2. todo'[j] = FlushCells(pdb'[j])
    BY <1>2, <1>9, Zenon DEF Finish
  <2>3. k \in todo'[j] \/ Published(pdb'[j].out, k) = Nil
    BY <2>2, Zenon DEF FlushCells, WriteKeys, Published
  <2> QED BY <1>1, <2>1, <2>3, Zenon DEF KeyInv, Prior, EntryOf, BeforeFlush
<1>10. CASE Flush(j)
  <2>1. PICK c \in todo[j] :
            /\ IF c \in Keys
               THEN WriteInc(c, j, pdb[j].inc, pdb[j].out.writes[c]) /\ UNCHANGED bals
               ELSE WriteDelta(c, j, pdb[j].out.deltas[c]) /\ UNCHANGED mv
            /\ todo' = [todo EXCEPT ![j] = @ \ {c}]
    BY <1>10, Zenon DEF Flush
  <2>2. pc[j] = "flush" /\ UNCHANGED <<pc, pdb, incarnations, states>>
    BY <1>10, Zenon DEF Flush
  <2>3. todo'[j] = todo[j] \ {c}
    BY <1>2, <2>1, Zenon
  <2>4. CASE c = k
    <3>1. mv'[k][j] = [there |-> TRUE, inc |-> pdb[j].inc, val |-> pdb[j].out.writes[k], est |-> FALSE]
      BY <1>2, <2>1, <2>4, Zenon DEF WriteInc
    <3>2. k \in FlushCells(pdb[j]) /\ pdb[j].inc = incarnations[j]
      BY <1>3, <2>1, <2>2, <2>4, Zenon DEF OutcomeInv, PublishInv
    <3>3. Published(pdb[j].out, k) # Nil
      BY <3>2, TransactionsAssumption, Zenon
      DEF FlushCells, WriteKeys, BalAddrs, Published, TransactionsAssumption
    <3>4. mv'[k][j] = EntryOf(pdb[j], incarnations[j], k, FALSE)
      BY <3>1, <3>2, <3>3, Zenon DEF EntryOf
    <3> QED BY <2>2, <2>3, <2>4, <3>3, <3>4, Zenon DEF KeyInv, BeforeFlush, EntryOf
  <2>5. CASE c # k
    <3>1. mv'[k][j] = mv[k][j]
      BY <1>2, <2>1, <2>5, Zenon DEF WriteInc
    <3> QED BY <1>1, <2>2, <2>3, <2>5, <3>1, Zenon DEF KeyInv, BeforeFlush, Prior, EntryOf
  <2> QED BY <2>4, <2>5, Zenon
<1>11. CASE FlushEnd(j)
  <2>1. /\ pc[j] = "flush" /\ todo[j] = {} /\ states'[j] = pdb[j]
        /\ UNCHANGED <<mv, incarnations, pdb, vi, vpc>>
    BY <1>2, <1>11, Zenon DEF FlushEnd, Return
  <2>2. CASE incarnations[j] = 0
    <3>1. pc'[j] = "done"
      BY <1>2, <1>11, <2>2, Zenon DEF FlushEnd, Return
    <3>2. ~Marking(j)
      BY <1>3, <2>1, MarkedTask, Zenon DEF Marking
    <3>3. mv[k][j] = EntryOf(pdb[j], incarnations[j], k, FALSE)
      BY <1>1, <2>1, <2>2, Zenon DEF KeyInv, Prior, EntryOf
    <3> QED BY <2>1, <3>1, <3>2, <3>3, Zenon DEF KeyInv, BeforeFlush, EntryOf, Marking
  <2>3. CASE incarnations[j] # 0
    <3>1. pc'[j] = "cleanup"
      BY <1>2, <1>11, <2>3, Zenon DEF FlushEnd, Return
    <3>2. pdb[j].done
      BY <1>3, <2>1, Zenon DEF PublishInv
    <3>3. todo'[j] = StaleCells(states[j], pdb[j])
      BY <1>2, <1>11, <2>3, <3>2, Zenon DEF FlushEnd, Return
    <3>4. CASE Published(pdb[j].out, k) # Nil
      BY <1>1, <2>1, <3>1, <3>4, Zenon DEF KeyInv, BeforeFlush, EntryOf
    <3>5. CASE Published(pdb[j].out, k) = Nil
      <4>1. mv[k][j] = EntryOf(states[j], 0, k, TRUE)
        BY <1>1, <2>1, <2>3, <3>5, Zenon DEF KeyInv, Prior
      <4>2. mv[k][j] = Absent \/ (k \in todo'[j] /\ mv[k][j].there /\ mv[k][j].est)
        BY <3>3, <4>1 DEF EntryOf, StaleCells, WriteKeys, Published
      <4> QED BY <2>1, <3>1, <3>5, <4>2, Zenon DEF KeyInv, BeforeFlush
    <3> QED BY <3>4, <3>5, Zenon
  <2> QED BY <2>2, <2>3, Zenon
<1>12. CASE Cleanup(j)
  <2>1. PICK c \in todo[j] :
            /\ IF c \in Keys
               THEN CleanupEstimate(c, j) /\ UNCHANGED bals
               ELSE DeleteSingle(c, j) /\ UNCHANGED mv
            /\ todo' = [todo EXCEPT ![j] = @ \ {c}]
    BY <1>12, Zenon DEF Cleanup
  <2>2. pc[j] = "cleanup" /\ UNCHANGED <<pc, pdb, incarnations, states>>
    BY <1>12, Zenon DEF Cleanup
  <2>3. todo'[j] = todo[j] \ {c}
    BY <1>2, <2>1, Zenon
  <2>4. CASE c = k
    <3>1. mv'[k][j] = IF mv[k][j].there /\ mv[k][j].est THEN Absent ELSE mv[k][j]
      BY <1>2, <2>1, <2>4 DEF CleanupEstimate
    <3>2. CASE Published(states[j].out, k) # Nil
      <4>1. mv[k][j] = EntryOf(states[j], incarnations[j], k, FALSE)
        BY <1>1, <2>2, <3>2, Zenon DEF KeyInv
      <4>2. ~mv[k][j].est
        BY <4>1, <3>2 DEF EntryOf
      <4> QED BY <2>2, <3>1, <3>2, <4>1, <4>2, Zenon DEF KeyInv, BeforeFlush, EntryOf
    <3>3. CASE Published(states[j].out, k) = Nil
      <4>1. mv'[k][j] = Absent
        BY <1>1, <2>2, <3>1, <3>3, Zenon DEF KeyInv
      <4> QED BY <2>2, <3>3, <4>1, Zenon DEF KeyInv, BeforeFlush
    <3> QED BY <3>2, <3>3, Zenon
  <2>5. CASE c # k
    <3>1. mv'[k][j] = mv[k][j]
      BY <1>2, <2>1, <2>5, Zenon DEF CleanupEstimate
    <3> QED BY <1>1, <2>2, <2>3, <2>5, <3>1, Zenon DEF KeyInv, BeforeFlush, EntryOf
  <2> QED BY <2>4, <2>5, Zenon
<1>13. CASE CleanupEnd(j)
  <2>1. /\ pc[j] = "cleanup" /\ pc'[j] = "done" /\ todo[j] = {}
        /\ UNCHANGED <<mv, incarnations, states, vi, vpc>>
    BY <1>2, <1>13, Zenon DEF CleanupEnd
  <2>2. ~Marking(j)
    BY <1>3, <2>1, MarkedTask, Zenon DEF Marking
  <2>3. mv[k][j] = EntryOf(states[j], incarnations[j], k, FALSE)
    BY <1>1, <2>1, Zenon DEF KeyInv, EntryOf
  <2> QED BY <2>1, <2>2, <2>3, Zenon DEF KeyInv, BeforeFlush, EntryOf, Marking
<1>14. CASE ValidateFail /\ j = vi
  <2>1. /\ execDone[j] /\ ~Marking(j) /\ Marking(j)'
        /\ UNCHANGED <<mv, incarnations, states, pc>>
    BY <1>14, Zenon DEF ValidateFail, Marking
  <2>2. incarnations[j] = 0 /\ pc[j] = "done"
    BY <1>3, <1>14, <2>1, TransactionsAssumption DEF TypeInv, ThreadInv, Tx, TransactionsAssumption
  <2>3. states[j].done
    BY <1>1, <1>3, <2>2, Zenon DEF PublishInv
  <2>4. todo'[j] = WriteKeys(states[j]) \cup BalAddrs(states[j])
    BY <1>2, <1>14, <2>3, Zenon DEF ValidateFail
  <2>5. mv[k][j] = EntryOf(states[j], incarnations[j], k, FALSE)
    BY <1>1, <2>1, <2>2, Zenon DEF KeyInv
  <2>6. mv[k][j] = EntryOf(states[j], incarnations[j], k, k \notin todo'[j])
    <3>1. CASE k \in todo'[j]
      BY <2>5, <3>1, Zenon DEF EntryOf
    <3>2. CASE k \notin todo'[j]
      BY <2>4, <2>5, <3>2, Zenon DEF EntryOf, WriteKeys, Published
    <3> QED BY <3>1, <3>2, Zenon
  <2> QED BY <2>1, <2>2, <2>6, Zenon DEF KeyInv, BeforeFlush, EntryOf
<1>15. CASE Mark /\ j = vi
  <2>1. PICK c \in todo[j] :
            /\ IF c \in Keys
               THEN MarkEstimate(c, j) /\ UNCHANGED bals
               ELSE ZeroDeltaAt(c, j) /\ UNCHANGED mv
            /\ todo' = [todo EXCEPT ![j] = @ \ {c}]
    BY <1>15, Zenon DEF Mark
  <2>2. Marking(j) /\ Marking(j)' /\ UNCHANGED <<incarnations, states, pc>>
    BY <1>15, Zenon DEF Mark, Marking
  <2>3. pc[j] = "done" /\ incarnations[j] = 0
    BY <1>3, <1>15, MarkedTask, Zenon DEF Mark
  <2>4. todo'[j] = todo[j] \ {c}
    BY <1>2, <2>1, Zenon
  <2>5. mv[k][j] = EntryOf(states[j], incarnations[j], k, k \notin todo[j])
    BY <1>1, <2>2, <2>3, Zenon DEF KeyInv
  <2>6. mv'[k][j] = EntryOf(states[j], incarnations[j], k, k \notin todo'[j])
    <3>1. CASE c = k
      <4> DEFINE e == mv[k][j]
      <4>1. mv' = [mv EXCEPT ![k][j] = IF e.there THEN [e EXCEPT !.est = TRUE] ELSE e]
        BY <1>2, <2>1, <3>1, Zenon DEF MarkEstimate
      <4> HIDE DEF e
      <4>2. mv'[k][j] = IF e.there THEN [e EXCEPT !.est = TRUE] ELSE e
        BY <1>2, <4>1, Zenon
      <4>3. (k \notin todo'[j]) = TRUE
        BY <2>4, <3>1, Zenon
      <4>4. CASE Published(states[j].out, k) = Nil
        BY <2>5, <4>2, <4>4 DEF EntryOf, Absent, e
      <4>5. CASE Published(states[j].out, k) # Nil
        <5>1. e = [there |-> TRUE, inc |-> incarnations[j], val |-> states[j].out.writes[k],
                   est |-> k \notin todo[j]]
          BY <2>5, <4>5, Zenon DEF EntryOf, e
        <5>2. mv'[k][j] = [there |-> TRUE, inc |-> incarnations[j], val |-> states[j].out.writes[k],
                           est |-> TRUE]
          BY <4>2, <5>1, Zenon
        <5> QED BY <4>3, <4>5, <5>2, Zenon DEF EntryOf
      <4> QED BY <4>4, <4>5, Zenon
    <3>2. CASE c # k
      <4>1. mv'[k][j] = mv[k][j]
        BY <1>2, <2>1, <3>2, Zenon DEF MarkEstimate
      <4>2. (k \notin todo'[j]) = (k \notin todo[j])
        BY <2>4, <3>2, Zenon
      <4> QED BY <2>5, <4>1, <4>2, Zenon
    <3> QED BY <3>1, <3>2, Zenon
  <2> QED BY <2>2, <2>3, <2>6, Zenon DEF KeyInv, BeforeFlush, EntryOf
<1>16. CASE LaunchReexec /\ j = vi
  <2>1. Marking(j) /\ todo[j] = {} /\ UNCHANGED <<mv, states>>
    BY <1>16, Zenon DEF LaunchReexec, Marking
  <2>2. pc[j] = "done" /\ incarnations[j] = 0
    BY <1>3, <1>16, MarkedTask, Zenon DEF LaunchReexec
  <2>3. mv[k][j] = EntryOf(states[j], 0, k, TRUE)
    BY <1>1, <2>1, <2>2, Zenon DEF KeyInv, EntryOf
  <2>4. incarnations'[j] = 1 /\ pc'[j] \in {"check", "run"}
    BY <1>2, <1>16, <2>2 DEF LaunchReexec, FirstPC
  <2>5. mv'[k][j] = Prior(j, k)'
    BY <2>1, <2>3, <2>4 DEF Prior, EntryOf
  <2> QED BY <2>4, <2>5, Zenon DEF KeyInv, BeforeFlush
<1> QED
  BY <1>3, <1>4, <1>5, <1>6, <1>7, <1>8, <1>9, <1>10, <1>11, <1>12, <1>13, <1>14, <1>15, <1>16, OneRow
  DEF Execute

\* Every step keeps the delta of transaction j at address a as the invariant
\* says.
LEMMA DeltaStep ==
    ASSUME NEW j \in Tx, NEW a \in Addrs, EstimateInv, ContentInv, ~cancelled', [Next]_vars
    PROVE  DeltaInv(j, a)'
<1>1. ~cancelled /\ DeltaInv(j, a)
  BY CancelMonotone, Zenon DEF EstimateInv, ContentInv
<1>2. /\ DOMAIN pc = Tx /\ DOMAIN pdb = Tx /\ DOMAIN states = Tx /\ DOMAIN todo = Tx
      /\ DOMAIN incarnations = Tx /\ bals \in [Addrs -> [Tx -> Deltas]]
      /\ incarnations[j] \in 0 .. 1 /\ a \notin Keys
      /\ pdb[j].out \in Outcomes /\ states[j].out \in Outcomes
  BY TransactionsAssumption, Zenon
  DEF EstimateInv, TypeInv, TypeOK, PDBTypeOK, IsPDB, StoreTypeOK, TransactionsAssumption
<1>3. /\ TypeInv /\ ControlInv /\ ThreadInv(j) /\ OrderInv(j) /\ PublishInv(j)
      /\ OutcomeInv(j)
  BY Zenon DEF EstimateInv, ControlInv, QueueInv
<1> USE DEF taskVars, execVars, ctxVars, valVars, storeVars
<1>4. CASE RowSame(j)
  BY <1>1, <1>4, Zenon DEF RowSame, DeltaInv, Marking
<1>5. CASE Dispatch /\ j = nextTask
  <2>1. pc[j] = "idle"
    BY <1>3, <1>5, TransactionsAssumption DEF ThreadInv, Tx, TransactionsAssumption
  <2>2. pc'[j] = "queued" /\ UNCHANGED bals
    BY <1>2, <1>5, Zenon DEF Dispatch
  <2> QED BY <1>1, <2>1, <2>2, Zenon DEF DeltaInv, BeforeFlush
<1>6. CASE TakeTask /\ j = Head(taskCh)
  <2>1. pc[j] = "queued"
    BY <1>3, <1>6, TakenTask, Zenon
  <2>2. pc'[j] \in {"check", "run"} /\ UNCHANGED bals
    BY <1>2, <1>6, Zenon DEF TakeTask, FirstPC
  <2> QED BY <1>1, <2>1, <2>2, Zenon DEF DeltaInv, BeforeFlush
<1>7. CASE PassPrev(j) \/ PassChain(j) \/ Read(j)
  <2>1. pc[j] \in BeforeFlush /\ pc'[j] \in BeforeFlush /\ UNCHANGED bals
    BY <1>2, <1>7, Zenon DEF PassPrev, PassChain, Read, BeforeFlush
  <2> QED BY <1>1, <2>1, Zenon DEF DeltaInv, BeforeFlush
<1>8. CASE AbortExecute(j)
  BY <1>1, <1>8, Zenon DEF AbortExecute
<1>9. CASE Finish(j)
  <2>1. pc[j] = "run" /\ pc'[j] = "flush" /\ UNCHANGED bals
    BY <1>2, <1>9, Zenon DEF Finish
  <2>2. todo'[j] = FlushCells(pdb'[j])
    BY <1>2, <1>9, Zenon DEF Finish
  <2>3. a \in todo'[j] \/ PublishedDelta(pdb'[j].out, a) = ZeroDelta
    BY <2>2, Zenon DEF FlushCells, BalAddrs, PublishedDelta
  <2> QED BY <1>1, <2>1, <2>3, Zenon DEF DeltaInv, BeforeFlush
<1>10. CASE Flush(j)
  <2>1. PICK c \in todo[j] :
            /\ IF c \in Keys
               THEN WriteInc(c, j, pdb[j].inc, pdb[j].out.writes[c]) /\ UNCHANGED bals
               ELSE WriteDelta(c, j, pdb[j].out.deltas[c]) /\ UNCHANGED mv
            /\ todo' = [todo EXCEPT ![j] = @ \ {c}]
    BY <1>10, Zenon DEF Flush
  <2>2. pc[j] = "flush" /\ UNCHANGED <<pc, pdb>>
    BY <1>10, Zenon DEF Flush
  <2>3. todo'[j] = todo[j] \ {c}
    BY <1>2, <2>1, Zenon
  <2>4. CASE c = a
    <3> DEFINE d == pdb[j].out.deltas[a]
               b == bals[a][j]
    <3>1. bals' = [bals EXCEPT ![a][j] = [add |-> b.add + d.add, sub |-> b.sub + d.sub]]
      BY <1>2, <2>1, <2>4, Zenon DEF WriteDelta
    <3>2. b = ZeroDelta
      BY <1>1, <2>1, <2>2, <2>4, Zenon DEF DeltaInv
    <3>3. d \in Deltas
      BY <1>2, Zenon DEF Outcomes
    <3>4. [add |-> b.add + d.add, sub |-> b.sub + d.sub] = d
      <4> HIDE DEF b, d
      <4> QED BY <3>2, <3>3 DEF ZeroDelta, Deltas
    <3>5. bals'[a][j] = d
      BY <1>2, <3>1, <3>4, Zenon
    <3>6. a \in FlushCells(pdb[j])
      BY <1>3, <2>1, <2>2, <2>4, Zenon DEF OutcomeInv
    <3>7. PublishedDelta(pdb[j].out, a) = d
      BY <3>6, Zenon DEF FlushCells, PublishedDelta
    <3> QED BY <2>2, <2>3, <2>4, <3>5, <3>7, Zenon DEF DeltaInv, BeforeFlush
  <2>5. CASE c # a
    <3>1. bals'[a][j] = bals[a][j]
      BY <1>2, <2>1, <2>5, Zenon DEF WriteDelta
    <3> QED BY <1>1, <2>2, <2>3, <2>5, <3>1, Zenon DEF DeltaInv, BeforeFlush
  <2> QED BY <2>4, <2>5, Zenon
<1>11. CASE FlushEnd(j)
  <2>1. /\ pc[j] = "flush" /\ todo[j] = {} /\ states'[j] = pdb[j]
        /\ UNCHANGED <<bals, incarnations, pdb, vi, vpc>>
    BY <1>2, <1>11, Zenon DEF FlushEnd, Return
  <2>2. bals[a][j] = PublishedDelta(pdb[j].out, a)
    BY <1>1, <2>1, Zenon DEF DeltaInv
  <2>3. CASE incarnations[j] = 0
    <3>1. pc'[j] = "done"
      BY <1>2, <1>11, <2>3, Zenon DEF FlushEnd, Return
    <3>2. ~Marking(j)
      BY <1>3, <2>1, MarkedTask, Zenon DEF Marking
    <3> QED BY <2>1, <2>2, <3>1, <3>2, Zenon DEF DeltaInv, BeforeFlush, Marking
  <2>4. CASE incarnations[j] # 0
    <3>1. pc'[j] = "cleanup"
      BY <1>2, <1>11, <2>4, Zenon DEF FlushEnd, Return
    <3>2. pdb[j].done
      BY <1>3, <2>1, Zenon DEF PublishInv
    <3>3. todo'[j] = StaleCells(states[j], pdb[j])
      BY <1>2, <1>11, <2>4, <3>2, Zenon DEF FlushEnd, Return
    <3>4. a \in todo'[j] => PublishedDelta(pdb[j].out, a) = ZeroDelta
      BY <1>2, <3>3, Zenon DEF StaleCells, WriteKeys, BalAddrs, PublishedDelta
    <3> QED BY <2>1, <2>2, <3>1, <3>4, Zenon DEF DeltaInv, BeforeFlush
  <2> QED BY <2>3, <2>4, Zenon
<1>12. CASE Cleanup(j)
  <2>1. PICK c \in todo[j] :
            /\ IF c \in Keys
               THEN CleanupEstimate(c, j) /\ UNCHANGED bals
               ELSE DeleteSingle(c, j) /\ UNCHANGED mv
            /\ todo' = [todo EXCEPT ![j] = @ \ {c}]
    BY <1>12, Zenon DEF Cleanup
  <2>2. pc[j] = "cleanup" /\ UNCHANGED <<pc, pdb, states>>
    BY <1>12, Zenon DEF Cleanup
  <2>3. todo'[j] = todo[j] \ {c}
    BY <1>2, <2>1, Zenon
  <2>4. bals'[a][j] = bals[a][j]
    <3>1. CASE c = a
      <4>1. bals[a][j] = ZeroDelta
        BY <1>1, <2>1, <2>2, <3>1, Zenon DEF DeltaInv
      <4>2. bals'[a][j] = ZeroDelta
        BY <1>2, <2>1, <3>1 DEF DeleteSingle
      <4> QED BY <4>1, <4>2, Zenon
    <3>2. CASE c # a
      BY <1>2, <2>1, <3>2, Zenon DEF DeleteSingle
    <3> QED BY <3>1, <3>2, Zenon
  <2> QED BY <1>1, <2>2, <2>3, <2>4, Zenon DEF DeltaInv, BeforeFlush
<1>13. CASE CleanupEnd(j)
  <2>1. /\ pc[j] = "cleanup" /\ pc'[j] = "done"
        /\ UNCHANGED <<bals, states, vi, vpc>>
    BY <1>2, <1>13, Zenon DEF CleanupEnd
  <2>2. ~Marking(j)
    BY <1>3, <2>1, MarkedTask, Zenon DEF Marking
  <2> QED BY <1>1, <2>1, <2>2, Zenon DEF DeltaInv, BeforeFlush, Marking
<1>14. CASE ValidateFail /\ j = vi
  <2>1. /\ execDone[j] /\ ~Marking(j) /\ Marking(j)'
        /\ UNCHANGED <<bals, states, pc>>
    BY <1>14, Zenon DEF ValidateFail, Marking
  <2>2. incarnations[j] = 0 /\ pc[j] = "done"
    BY <1>3, <1>14, <2>1, TransactionsAssumption DEF TypeInv, ThreadInv, Tx, TransactionsAssumption
  <2>3. states[j].done
    BY <1>1, <1>3, <2>2, Zenon DEF PublishInv
  <2>4. todo'[j] = WriteKeys(states[j]) \cup BalAddrs(states[j])
    BY <1>2, <1>14, <2>3, Zenon DEF ValidateFail
  <2>5. bals[a][j] = PublishedDelta(states[j].out, a)
    BY <1>1, <2>1, <2>2, Zenon DEF DeltaInv
  <2>6. a \notin todo'[j] => PublishedDelta(states[j].out, a) = ZeroDelta
    BY <2>4, Zenon DEF BalAddrs, PublishedDelta
  <2> QED BY <2>1, <2>2, <2>5, <2>6, Zenon DEF DeltaInv, BeforeFlush
<1>15. CASE Mark /\ j = vi
  <2>1. PICK c \in todo[j] :
            /\ IF c \in Keys
               THEN MarkEstimate(c, j) /\ UNCHANGED bals
               ELSE ZeroDeltaAt(c, j) /\ UNCHANGED mv
            /\ todo' = [todo EXCEPT ![j] = @ \ {c}]
    BY <1>15, Zenon DEF Mark
  <2>2. Marking(j) /\ Marking(j)' /\ UNCHANGED <<states, pc>>
    BY <1>15, Zenon DEF Mark, Marking
  <2>3. pc[j] = "done"
    BY <1>3, <1>15, MarkedTask, Zenon DEF Mark
  <2>4. todo'[j] = todo[j] \ {c}
    BY <1>2, <2>1, Zenon
  <2>5. bals[a][j] = IF a \in todo[j] THEN PublishedDelta(states[j].out, a) ELSE ZeroDelta
    BY <1>1, <2>2, <2>3, Zenon DEF DeltaInv
  <2>6. bals'[a][j] = IF a \in todo'[j] THEN PublishedDelta(states[j].out, a) ELSE ZeroDelta
    <3>1. CASE c = a
      BY <1>2, <2>1, <2>4, <3>1 DEF ZeroDeltaAt
    <3>2. CASE c # a
      <4>1. bals'[a][j] = bals[a][j]
        BY <1>2, <2>1, <3>2, Zenon DEF ZeroDeltaAt
      <4> QED BY <2>4, <2>5, <3>2, <4>1, Zenon
    <3> QED BY <3>1, <3>2, Zenon
  <2> QED BY <2>2, <2>3, <2>6, Zenon DEF DeltaInv, BeforeFlush
<1>16. CASE LaunchReexec /\ j = vi
  <2>1. Marking(j) /\ todo[j] = {} /\ UNCHANGED bals
    BY <1>16, Zenon DEF LaunchReexec, Marking
  <2>2. pc[j] = "done"
    BY <1>3, <1>16, MarkedTask, Zenon DEF LaunchReexec
  <2>3. bals[a][j] = ZeroDelta
    BY <1>1, <2>1, <2>2, Zenon DEF DeltaInv
  <2>4. pc'[j] \in {"check", "run"}
    BY <1>2, <1>16, Zenon DEF LaunchReexec, FirstPC
  <2> QED BY <2>1, <2>3, <2>4, Zenon DEF DeltaInv, BeforeFlush
<1> QED
  BY <1>3, <1>4, <1>5, <1>6, <1>7, <1>8, <1>9, <1>10, <1>11, <1>12, <1>13, <1>14, <1>15, <1>16, OneRow, Zenon
  DEF Execute

\* The invariant of the store contents is an invariant of the executor.
LEMMA StoreInvariant == Spec => [](EstimateInv /\ ContentInv)
<1>1. Init => ContentInv
  BY ContentInit, Zenon
<1>2. EstimateInv /\ ContentInv /\ [Next]_vars => ContentInv'
  BY KeyStep, DeltaStep, Zenon DEF ContentInv
<1> QED BY <1>1, <1>2, EstimateInvariant, PTL DEF Spec

\* What the stores hold for a finalized transaction.
LEMMA FinalCells ==
    ASSUME EstimateInv, ContentInv, ~cancelled, NEW j \in Tx, finalized[j]
    PROVE  /\ \A k \in Keys : mv[k][j] = EntryOf(states[j], incarnations[j], k, FALSE)
           /\ \A a \in Addrs : bals[a][j] = PublishedDelta(states[j].out, a)
<1>1. pc[j] = "done" /\ j < vi
  BY FinalThreadDone, Zenon DEF EstimateInv
<1>2. ~Marking(j)
  BY MarkedTask, Zenon DEF Marking, EstimateInv
<1> QED BY <1>1, <1>2, Zenon DEF ContentInv, KeyInv, DeltaInv

\* Without a cancellation the stores hold for every finalized transaction
\* exactly what its published state wrote: no entry of the incarnation that
\* failed validation survives (CleanupEstimate), and no delta is counted twice
\* (ZeroDelta before the re-execution flushes).
THEOREM CommittedStoreHolds == Spec => []CommittedStore
<1>1. EstimateInv /\ ContentInv => CommittedStore
  BY FinalCells, Zenon DEF CommittedStore, EntryOf
<1> QED BY <1>1, StoreInvariant, PTL

=============================================================================
