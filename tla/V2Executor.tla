----------------------------- MODULE V2Executor -----------------------------
(***************************************************************************)
(* ExecuteV2BlockSTM (core/blockstm/v2_executor.go): the dispatcher, the   *)
(* worker pool, the in-order validator, the re-execution goroutines and    *)
(* the settlement goroutine that execute one block in parallel, over the   *)
(* shared stores of MVStore and the ParallelStateDB read log               *)
(* (core/state/parallel_statedb*.go).                                      *)
(*                                                                         *)
(* A worker and a re-execution goroutine never run the same transaction at *)
(* the same time (the validator waits for execDone first), so the thread   *)
(* that executes transaction i is described by pc[i], pdb[i] and todo[i].  *)
(* Accesses to the stores are one key at a time, as the shard locks make   *)
(* them: reads, flushes, ESTIMATE marking and cleanup all interleave.      *)
(***************************************************************************)
EXTENDS MVStore, Sequences

CONSTANTS
    NumWorkers,     \* size of the worker pool
    InFlightTaskMultiplier,     \* tasks dispatched ahead, per worker
    Blocks,         \* the blocks to execute: programs and predicted predecessors
    MayCancel,      \* can the caller cancel the context?
    MayPanic        \* can the validation goroutine panic?

ASSUME V2Assumption ==
    /\ NumWorkers \in Nat \ {0}
    /\ InFlightTaskMultiplier \in Nat \ {0}
    /\ MayCancel \in BOOLEAN
    /\ MayPanic \in BOOLEAN
    /\ \A b \in Blocks : /\ b.prog \in [Tx -> Programs]
                         /\ b.toPrev \in [Tx -> -1 .. (N - 1)]
                         /\ \A i \in Tx : b.toPrev[i] < i

VARIABLES
    block,          \* the tasks
    cancelled,      \* ctx is done
    nextTask, dispatched,       \* dispatcher: loop index, goroutine ended
    taskCh,         \* buffered task channel
    pc, pdb, todo,  \* the thread executing each transaction
    states, incarnations, vfailed, finalized, execDone,   \* v2ExecCtx
    reexecDone,     \* validator: re-execution channels ("nil", "open", "closed")
    vi, vpc,        \* validator: loop index and step
    chSettle, settled, applied, \* settlement queue; order and states settleFn got
    returned        \* ExecuteV2BlockSTM has returned

taskVars  == <<nextTask, dispatched, taskCh>>
execVars  == <<pc, pdb, todo>>
ctxVars   == <<states, incarnations, vfailed, finalized, execDone>>
valVars   == <<reexecDone, vi, vpc>>
settleVars == <<chSettle, settled, applied>>
vars == <<block, cancelled, taskVars, execVars, ctxVars, valVars, settleVars,
          returned, storeVars>>

\* A ParallelStateDB: its incarnation, the local state of the EVM run, the reads
\* recorded so far and, once the run is done, its outcome.  In states, ~done
\* stands for nil.
NewPDB(p, inc) ==
    [done |-> FALSE, inc |-> inc, loc |-> Start(p), reads |-> {}, out |-> NoOutcome]

WriteKeys(s) == {k \in Keys : s.out.writes[k] # Nil}

BalAddrs(s) == {a \in Addrs : s.out.deltas[a] # ZeroDelta}

Prog(i) == block.prog[i]

ToPrev(i) == block.toPrev[i]

\* Keys are handled before balances in every pass over a transaction's cells.
KeysFirst(i, c) == c \in todo[i] /\ (c \in Addrs => todo[i] \cap Keys = {})

Init ==
    /\ block \in Blocks
    /\ cancelled = FALSE
    /\ nextTask = 0 /\ dispatched = FALSE /\ taskCh = <<>>
    /\ pc = [i \in Tx |-> "idle"]
    /\ pdb = [i \in Tx |-> NewPDB(Prog(i), 0)]
    /\ todo = [i \in Tx |-> {}]
    /\ states = [i \in Tx |-> NewPDB(Prog(i), 0)]
    /\ incarnations = [i \in Tx |-> 0]
    /\ vfailed = [i \in Tx |-> FALSE]
    /\ finalized = [i \in Tx |-> FALSE]
    /\ execDone = [i \in Tx |-> FALSE]
    /\ reexecDone = [i \in Tx |-> "nil"]
    /\ vi = 0 /\ vpc = "loop"
    /\ chSettle = <<>> /\ settled = <<>> /\ applied = states
    /\ returned = FALSE
    /\ StoreInit

-----------------------------------------------------------------------------
(***************************************************************************)
(* Dispatcher.                                                             *)
(***************************************************************************)

Window == NumWorkers * InFlightTaskMultiplier

WindowOpen(i) == i >= Window => execDone[i - Window]

\* The ctx.Err() check that opens the next iteration is part of the step; a
\* cancellation after it races with the send.
Dispatch ==
    /\ ~dispatched /\ nextTask < N
    /\ WindowOpen(nextTask)
    /\ Len(taskCh) < NumWorkers
    /\ taskCh' = Append(taskCh, nextTask)
    /\ nextTask' = nextTask + 1
    /\ dispatched' = (cancelled \/ nextTask' = N)
    /\ pc' = [pc EXCEPT ![nextTask] = "queued"]
    /\ UNCHANGED <<block, cancelled, pdb, todo, ctxVars, valVars, settleVars,
                   returned, storeVars>>

DispatchStops ==
    /\ ~dispatched /\ cancelled
    /\ dispatched' = TRUE
    /\ UNCHANGED <<block, cancelled, nextTask, taskCh, execVars, ctxVars, valVars,
                   settleVars, returned, storeVars>>

-----------------------------------------------------------------------------
(***************************************************************************)
(* execute(): shared by the workers and the re-execution goroutines.       *)
(***************************************************************************)

Running == {"check", "chain", "run", "flush"}

BusyWorkers == {i \in Tx : incarnations[i] = 0 /\ pc[i] \in Running}

\* A transaction without a predicted predecessor passes both waits at once.
FirstPC(i) == IF ToPrev(i) = -1 THEN "run" ELSE "check"

TakeTask ==
    /\ taskCh # <<>>
    /\ Cardinality(BusyWorkers) < NumWorkers
    /\ LET i == Head(taskCh) IN pc' = [pc EXCEPT ![i] = FirstPC(i)]
    /\ taskCh' = Tail(taskCh)
    /\ UNCHANGED <<block, cancelled, nextTask, dispatched, pdb, todo, ctxVars,
                   valVars, settleVars, returned, storeVars>>

\* The immediately preceding transaction failed validation and is predicted
\* to conflict: wait for its re-execution to be finalized.
MustWaitPrev(i) == ToPrev(i) = i - 1 /\ vfailed[i - 1] /\ ~finalized[i - 1]

PassPrev(i) ==
    /\ pc[i] = "check" /\ ~MustWaitPrev(i)
    /\ pc' = [pc EXCEPT ![i] = "chain"]
    /\ UNCHANGED <<block, cancelled, taskVars, pdb, todo, ctxVars, valVars,
                   settleVars, returned, storeVars>>

\* Wait for the first execution of the predicted predecessor.
PassChain(i) ==
    /\ pc[i] = "chain" /\ execDone[ToPrev(i)]
    /\ pc' = [pc EXCEPT ![i] = "run"]
    /\ UNCHANGED <<block, cancelled, taskVars, pdb, todo, ctxVars, valVars,
                   settleVars, returned, storeVars>>

\* What a re-execution must clean up: the cells the old incarnation held that
\* the state now published does not own.
StaleCells(old, new) == WriteKeys(old) \cup (BalAddrs(old) \ BalAddrs(new))

\* execute() has returned with s published: a worker closes execDone, a
\* re-execution goes on to CleanupEstimate.
Return(i, s) ==
    /\ states' = [states EXCEPT ![i] = s]
    /\ IF incarnations[i] = 0
       THEN /\ pc' = [pc EXCEPT ![i] = "done"]
            /\ execDone' = [execDone EXCEPT ![i] = TRUE]
            /\ UNCHANGED todo
       ELSE /\ pc' = [pc EXCEPT ![i] = "cleanup"]
            /\ todo' = [todo EXCEPT ![i] = IF s.done THEN StaleCells(states[i], s) ELSE {}]
            /\ UNCHANGED execDone
    /\ UNCHANGED <<block, cancelled, taskVars, pdb, incarnations, vfailed, finalized,
                   valVars, settleVars, returned, storeVars>>

\* Mutant: the wait for the failed predecessor has no ctx branch.
AbortExecuteChainOnly(i) ==
    /\ cancelled
    /\ pc[i] = "chain"
    /\ Return(i, states[i])

\* On cancellation execute() returns early and leaves x.states[i] as it was.
AbortExecute(i) ==
    /\ cancelled
    /\ pc[i] = "chain" \/ (pc[i] = "check" /\ MustWaitPrev(i))
    /\ Return(i, states[i])

\* One read of the EVM run (readStoreWait, recordStoreReadEx, GetBalance).  A
\* first execution takes an ESTIMATE for "not found" and reads the base; a
\* re-execution would wait for the writer (handleEstimate), which is the guard.
\* GetBalance caches the first sum, so a program asks for a balance once.
StoreRead(rq, l, r) ==
    LET eff == IF r.est THEN NotFound ELSE r
    IN  [loc |-> l, rq |-> rq, writer |-> eff.writer, inc |-> eff.inc,
         val |-> IF eff.found THEN eff.val ELSE Default(rq),
         exact |-> eff.found /\ (rq.cell \in Markers \/ rq.after >= 0)]

BalanceRead(rq, l, i) ==
    [loc |-> l, rq |-> rq, writer |-> -1, inc |-> 0,
     val |-> ReadDelta(rq.cell, i), exact |-> FALSE]

\* What the program learns from a recorded read.
Obs(d) == IF d.rq.cell \in Addrs THEN d.val ELSE Interpret(d.rq, d.writer, d.val)

Read(i) ==
    /\ pc[i] = "run" /\ pdb[i].loc \in Reading(Prog(i))
    /\ LET s  == pdb[i]
           rq == NextRead(Prog(i), s.loc)
           r  == ReadVersionFull(rq.cell, i)
           d  == IF rq.cell \in Addrs THEN BalanceRead(rq, s.loc, i)
                                      ELSE StoreRead(rq, s.loc, r)
       IN  /\ rq.cell \in Keys => ~(r.est /\ s.inc > 0)
           /\ pdb' = [pdb EXCEPT ![i] =
                        [done |-> FALSE, inc |-> s.inc,
                         loc |-> Step(Prog(i), s.loc, Obs(d)),
                         reads |-> s.reads \cup {d}, out |-> NoOutcome]]
    /\ UNCHANGED <<block, cancelled, taskVars, pc, todo, ctxVars, valVars,
                   settleVars, returned, storeVars>>

\* FlushToMVStore skips a panicked run.
FlushCells(s) == IF s.out.status = "panicked" THEN {} ELSE WriteKeys(s) \cup BalAddrs(s)

Finish(i) ==
    /\ pc[i] = "run" /\ pdb[i].loc \in Ends(Prog(i))
    /\ LET s == [done |-> TRUE, inc |-> pdb[i].inc, loc |-> pdb[i].loc,
                 reads |-> pdb[i].reads, out |-> Output(Prog(i), pdb[i].loc)]
       IN  /\ pdb' = [pdb EXCEPT ![i] = s]
           /\ todo' = [todo EXCEPT ![i] = FlushCells(s)]
    /\ pc' = [pc EXCEPT ![i] = "flush"]
    /\ UNCHANGED <<block, cancelled, taskVars, ctxVars, valVars, settleVars,
                   returned, storeVars>>

Flush(i) ==
    /\ pc[i] = "flush"
    /\ \E c \in todo[i] :
        /\ KeysFirst(i, c)
        /\ IF c \in Keys
           THEN WriteInc(c, i, pdb[i].inc, pdb[i].out.writes[c]) /\ UNCHANGED bals
           ELSE WriteDelta(c, i, pdb[i].out.deltas[c]) /\ UNCHANGED mv
        /\ todo' = [todo EXCEPT ![i] = @ \ {c}]
    /\ UNCHANGED <<block, cancelled, taskVars, pc, pdb, ctxVars, valVars,
                   settleVars, returned>>

FlushEnd(i) ==
    /\ pc[i] = "flush" /\ todo[i] = {}
    /\ Return(i, pdb[i])

\* The re-execution goroutine removes what the new incarnation did not
\* rewrite, then closes its channel.
Cleanup(i) ==
    /\ pc[i] = "cleanup"
    /\ \E c \in todo[i] :
        /\ KeysFirst(i, c)
        /\ IF c \in Keys
           THEN CleanupEstimate(c, i) /\ UNCHANGED bals
           ELSE DeleteSingle(c, i) /\ UNCHANGED mv
        /\ todo' = [todo EXCEPT ![i] = @ \ {c}]
    /\ UNCHANGED <<block, cancelled, taskVars, pc, pdb, ctxVars, valVars,
                   settleVars, returned>>

CleanupEnd(i) ==
    /\ pc[i] = "cleanup" /\ todo[i] = {}
    /\ pc' = [pc EXCEPT ![i] = "done"]
    /\ reexecDone' = [reexecDone EXCEPT ![i] = "closed"]
    /\ UNCHANGED <<block, cancelled, taskVars, pdb, todo, ctxVars, vi, vpc,
                   settleVars, returned, storeVars>>

Execute(i) ==
    \/ PassPrev(i) \/ PassChain(i) \/ AbortExecute(i)
    \/ Read(i) \/ Finish(i) \/ Flush(i) \/ FlushEnd(i)
    \/ Cleanup(i) \/ CleanupEnd(i)

-----------------------------------------------------------------------------
(***************************************************************************)
(* Validation goroutine: runValidationLoop, validateOne, finishReexec,     *)
(* finalizePass, dispatchReexec.  vi is the loop index (N: the drain).     *)
(* Validation reads the store key by key; it is one step here because the  *)
(* cells below vi no longer change (FinalCellsStable).                     *)
(***************************************************************************)

\* Mutant: value equality accepted where the writer's position matters.
StoreReadMatchesAnyWriter(d, cur) ==
    IF cur.est THEN ~cur.found /\ d.val = Nil
    ELSE \/ cur.writer = d.writer /\ cur.inc = d.inc
         \/ cur.found /\ d.val # Nil /\ cur.val = d.val
         \/ ~cur.found /\ d.val = Nil

\* A recorded store read against the current latest entry (storeReadMatches).
StoreReadMatches(d, cur) ==
    IF cur.est THEN ~cur.found /\ d.val = Nil
    ELSE \/ cur.writer = d.writer /\ cur.inc = d.inc
         \/ ~d.exact /\ cur.found /\ d.val # Nil /\ cur.val = d.val
         \/ ~cur.found /\ d.val = Nil

\* Mutant: balance reads are not validated.
ReadMatchesStoreOnly(d, i) ==
    d.rq.cell \in Keys => StoreReadMatches(d, ReadVersionFull(d.rq.cell, i))

ReadMatches(d, i) ==
    IF d.rq.cell \in Addrs
    THEN ReadDelta(d.rq.cell, i) = d.val
    ELSE StoreReadMatches(d, ReadVersionFull(d.rq.cell, i))

Validate(s, i) == s.out.status # "panicked" /\ \A d \in s.reads : ReadMatches(d, i)

\* Mutant: only the predicted predecessor is finished before validation.
PendingPredictedOnly ==
    {j \in Tx : reexecDone[j] # "nil" /\ (vi < N => j = ToPrev(vi))}

\* The re-executions validateOne(i) (or the final drain) waits for, in order.
Pending ==
    {j \in Tx : /\ reexecDone[j] # "nil"
                /\ vi < N => (j = ToPrev(vi) \/ (j = vi - 1 /\ vfailed[j]))}

FirstPending == IF vi < N /\ ToPrev(vi) \in Pending THEN ToPrev(vi) ELSE Min(Pending)

\* The ctx.Err() check that opens the next iteration (a cancellation after the
\* step races with it: see ValidationCancelled); the drain has none.
NextIteration ==
    /\ vi' = vi + 1
    /\ vpc' = IF cancelled /\ vi + 1 < N THEN "ended" ELSE "loop"

\* Mutant: the re-execution is finalized without waiting for its channel.
FinishReexecNoWait ==
    /\ vpc = "loop" /\ Pending # {}
    /\ LET j == FirstPending
       IN  /\ reexecDone' = [reexecDone EXCEPT ![j] = "nil"]
           /\ finalized' = [finalized EXCEPT ![j] = TRUE]
           /\ chSettle' = IF states[j].done THEN Append(chSettle, j) ELSE chSettle
    /\ UNCHANGED <<block, cancelled, taskVars, execVars, states, incarnations,
                   vfailed, execDone, vi, vpc, settled, applied, returned, storeVars>>

FinishReexec ==
    /\ vpc = "loop" /\ Pending # {}
    /\ LET j == FirstPending
       IN  /\ reexecDone[j] = "closed"
           /\ reexecDone' = [reexecDone EXCEPT ![j] = "nil"]
           /\ finalized' = [finalized EXCEPT ![j] = TRUE]
           /\ chSettle' = IF states[j].done THEN Append(chSettle, j) ELSE chSettle
    /\ UNCHANGED <<block, cancelled, taskVars, execVars, states, incarnations,
                   vfailed, execDone, vi, vpc, settled, applied, returned, storeVars>>

\* validateOne(vi) with execDone[vi] closed and the reads still valid.
ValidatePass ==
    /\ vpc = "loop" /\ vi < N /\ Pending = {} /\ execDone[vi]
    /\ states[vi].done /\ Validate(states[vi], vi)
    /\ finalized' = [finalized EXCEPT ![vi] = TRUE]
    /\ chSettle' = Append(chSettle, vi)
    /\ NextIteration
    /\ UNCHANGED <<block, cancelled, taskVars, execVars, states, incarnations,
                   vfailed, execDone, reexecDone, settled, applied, returned,
                   storeVars>>

\* The reads are stale (or there is no state): dispatchReexec marks the old
\* cells one by one.
ValidateFail ==
    /\ vpc = "loop" /\ vi < N /\ Pending = {} /\ execDone[vi]
    /\ ~(states[vi].done /\ Validate(states[vi], vi))
    /\ todo' = [todo EXCEPT ![vi] = IF states[vi].done
                                    THEN WriteKeys(states[vi]) \cup BalAddrs(states[vi])
                                    ELSE {}]
    /\ vpc' = "mark"
    /\ UNCHANGED <<block, cancelled, taskVars, pc, pdb, ctxVars, reexecDone, vi,
                   settleVars, returned, storeVars>>

Mark ==
    /\ vpc = "mark"
    /\ \E c \in todo[vi] :
        /\ KeysFirst(vi, c)
        /\ IF c \in Keys
           THEN MarkEstimate(c, vi) /\ UNCHANGED bals
           ELSE ZeroDeltaAt(c, vi) /\ UNCHANGED mv
        /\ todo' = [todo EXCEPT ![vi] = @ \ {c}]
    /\ UNCHANGED <<block, cancelled, taskVars, pc, pdb, ctxVars, valVars,
                   settleVars, returned>>

\* Mutant: the loop index stays, so that the re-execution is validated again.
LaunchReexecAgain ==
    /\ vpc = "mark" /\ todo[vi] = {}
    /\ vfailed' = [vfailed EXCEPT ![vi] = TRUE]
    /\ incarnations' = [incarnations EXCEPT ![vi] = @ + 1]
    /\ reexecDone' = [reexecDone EXCEPT ![vi] = "open"]
    /\ pc' = [pc EXCEPT ![vi] = FirstPC(vi)]
    /\ pdb' = [pdb EXCEPT ![vi] = NewPDB(Prog(vi), incarnations[vi] + 1)]
    /\ vpc' = "loop"
    /\ UNCHANGED <<block, cancelled, taskVars, todo, states, finalized, execDone, vi,
                   settleVars, returned, storeVars>>

LaunchReexec ==
    /\ vpc = "mark" /\ todo[vi] = {}
    /\ vfailed' = [vfailed EXCEPT ![vi] = TRUE]
    /\ incarnations' = [incarnations EXCEPT ![vi] = @ + 1]
    /\ reexecDone' = [reexecDone EXCEPT ![vi] = "open"]
    /\ pc' = [pc EXCEPT ![vi] = FirstPC(vi)]
    /\ pdb' = [pdb EXCEPT ![vi] = NewPDB(Prog(vi), incarnations[vi] + 1)]
    /\ NextIteration
    /\ UNCHANGED <<block, cancelled, taskVars, todo, states, finalized, execDone,
                   settleVars, returned, storeVars>>

\* Mutant: the loop ends without draining the last re-executions.
ValidationNotDrained ==
    /\ vpc = "loop" /\ vi = N
    /\ vpc' = "ended"
    /\ UNCHANGED <<block, cancelled, taskVars, execVars, ctxVars, reexecDone, vi,
                   settleVars, returned, storeVars>>

ValidationDrained ==
    /\ vpc = "loop" /\ vi = N /\ Pending = {}
    /\ vpc' = "ended"
    /\ UNCHANGED <<block, cancelled, taskVars, execVars, ctxVars, reexecDone, vi,
                   settleVars, returned, storeVars>>

\* ctx is done at the top of the loop or while waiting for execDone[vi].
ValidationCancelled ==
    /\ vpc = "loop" /\ vi < N /\ cancelled
    /\ vpc' = "ended"
    /\ UNCHANGED <<block, cancelled, taskVars, execVars, ctxVars, reexecDone, vi,
                   settleVars, returned, storeVars>>

\* A panic while validating, recovered by runValidationLoop.
ValidationPanics ==
    /\ MayPanic
    /\ vpc = "loop" /\ vi < N /\ Pending = {} /\ execDone[vi]
    /\ vpc' = "panicked"
    /\ UNCHANGED <<block, cancelled, taskVars, execVars, ctxVars, reexecDone, vi,
                   settleVars, returned, storeVars>>

Validator ==
    \/ FinishReexec \/ ValidatePass \/ ValidateFail \/ Mark \/ LaunchReexec
    \/ ValidationDrained \/ ValidationCancelled \/ ValidationPanics

-----------------------------------------------------------------------------
(***************************************************************************)
(* Settlement goroutine, the caller's context and the end of the call.     *)
(***************************************************************************)

Settle ==
    /\ chSettle # <<>>
    /\ LET i == Head(chSettle) IN applied' = [applied EXCEPT ![i] = states[i]]
    /\ settled' = Append(settled, Head(chSettle))
    /\ chSettle' = Tail(chSettle)
    /\ UNCHANGED <<block, cancelled, taskVars, execVars, ctxVars, valVars, returned,
                   storeVars>>

Cancel ==
    /\ MayCancel /\ ~cancelled /\ ~returned
    /\ cancelled' = TRUE
    /\ UNCHANGED <<block, taskVars, execVars, ctxVars, valVars, settleVars, returned,
                   storeVars>>

\* Validation and dispatch have ended; the workers drain the closed task
\* channel, the re-executions end, settlement drains its queue.
Finished ==
    /\ vpc \in {"ended", "panicked"} /\ dispatched
    /\ taskCh = <<>> /\ \A i \in Tx : pc[i] \in {"idle", "done"}
    /\ chSettle = <<>>

ReturnResult ==
    /\ Finished /\ ~returned
    /\ returned' = TRUE
    /\ UNCHANGED <<block, cancelled, taskVars, execVars, ctxVars, valVars, settleVars,
                   storeVars>>

Next ==
    \/ Dispatch \/ DispatchStops \/ TakeTask
    \/ \E i \in Tx : Execute(i)
    \/ Validator
    \/ Settle
    \/ Cancel
    \/ ReturnResult
    \/ returned /\ UNCHANGED vars

\* Every goroutine keeps running; nobody has to cancel.
Fairness ==
    /\ WF_vars(Dispatch \/ DispatchStops) /\ WF_vars(TakeTask)
    /\ \A i \in Tx : WF_vars(Execute(i))
    /\ WF_vars(Validator) /\ WF_vars(Settle) /\ WF_vars(ReturnResult)

Spec == Init /\ [][Next]_vars

FairSpec == Spec /\ Fairness

-----------------------------------------------------------------------------
(***************************************************************************)
(* Properties.                                                             *)
(***************************************************************************)

IsPDB(s) ==
    /\ s.done \in BOOLEAN /\ s.inc \in 0 .. 1
    /\ s.out \in Outcomes
    /\ \A d \in s.reads : d.writer \in -1 .. (N - 1) /\ d.inc \in 0 .. 1

PDBTypeOK(f) == DOMAIN f = Tx /\ \A i \in Tx : IsPDB(f[i])

\* Type invariant.  It bounds incarnations by 1: a transaction is executed at
\* most twice (docs/blockstm-v2.md, dispatchReexec).
TypeOK ==
    /\ block \in Blocks
    /\ cancelled \in BOOLEAN
    /\ nextTask \in 0 .. N /\ dispatched \in BOOLEAN /\ taskCh \in Seq(Tx)
    /\ pc \in [Tx -> {"idle", "queued", "cleanup", "done"} \cup Running]
    /\ PDBTypeOK(pdb) /\ PDBTypeOK(states) /\ PDBTypeOK(applied)
    /\ todo \in [Tx -> SUBSET Cells]
    /\ incarnations \in [Tx -> 0 .. 1]
    /\ vfailed \in [Tx -> BOOLEAN] /\ finalized \in [Tx -> BOOLEAN]
    /\ execDone \in [Tx -> BOOLEAN]
    /\ reexecDone \in [Tx -> {"nil", "open", "closed"}]
    /\ vi \in 0 .. N /\ vpc \in {"loop", "mark", "ended", "panicked"}
    /\ chSettle \in Seq(Tx) /\ settled \in Seq(Tx)
    /\ returned \in BOOLEAN
    /\ StoreTypeOK

\* s is the run transaction i makes when the transactions before it have the
\* outcomes outs: every recorded observation is the serial one, the local
\* states are chained by Step from Start to the end, and the outcome follows.
SerialRun(i, s, outs) ==
    LET visited == {d.loc : d \in s.reads} \cup {s.loc}
    IN  /\ s.done
        /\ Start(Prog(i)) \in visited
        /\ \A d \in s.reads :
            /\ d.rq = NextRead(Prog(i), d.loc)
            /\ Obs(d) = SerialObs(d.rq, i, outs)
            /\ Step(Prog(i), d.loc, Obs(d)) \in visited
        /\ s.loc \in Ends(Prog(i))
        /\ s.out = Output(Prog(i), s.loc)

Outs(f) == [j \in DOMAIN f |-> f[j].out]

\* Without a cancellation, what settlement applies is the serial execution of
\* the block, although a re-execution is never validated (docs/blockstm-v2.md:
\* "one re-exec converges"): each settled transaction saw exactly the outcomes
\* of the ones settled before it.
SettledSerial ==
    ~cancelled => \A n \in DOMAIN settled :
                    /\ settled[n] = n - 1
                    /\ SerialRun(n - 1, applied[n - 1], Outs(applied))

\* With or without a cancellation, settlement sees strictly increasing
\* transaction indices: never twice the same one, never one out of order
\* (newV2SettleFn: "invoked in tx-index order").
SettledInOrder ==
    LET all == settled \o chSettle
    IN  \A m, n \in DOMAIN all : m < n => all[m] < all[n]

\* assertSettleOrder: when validateOne(vi) runs, no re-execution before vi - 1
\* is pending; assertReexecVisitedExactlyOnce: none is after the drain.
SettleOrder ==
    /\ vpc \in {"loop", "mark"} => \A j \in Tx : j < vi - 1 => reexecDone[j] = "nil"
    /\ vpc = "ended" /\ ~cancelled => \A j \in Tx : reexecDone[j] = "nil"

\* A transaction is validated, and re-executed, against transactions that are
\* all finalized and hold no ESTIMATE: a re-execution never has to wait for a
\* writer (handleEstimate) and its reads are final (waitForFinal is a no-op).
FinalBelow ==
    \A i \in Tx :
        (vpc = "mark" /\ i = vi) \/ (incarnations[i] = 1 /\ pc[i] \in Running \cup {"cleanup"})
        => \A j \in 0 .. (i - 1) : finalized[j] /\ \A k \in Keys : ~mv[k][j].est

\* The stores hold for a finalized transaction exactly what its published
\* state wrote: nothing stale of the earlier incarnation, no delta counted
\* twice (MarkEstimate, ZeroDelta, FlushToMVStore, CleanupEstimate).
CommittedStore ==
    ~cancelled => \A j \in Tx : finalized[j] =>
        /\ \A k \in Keys :
            IF Published(states[j].out, k) = Nil
            THEN mv[k][j] = Absent
            ELSE mv[k][j] = [there |-> TRUE, inc |-> incarnations[j],
                             val |-> states[j].out.writes[k], est |-> FALSE]
        /\ \A a \in Addrs : bals[a][j] = PublishedDelta(states[j].out, a)

\* newV2SettleFn: "Speculative incarnations that failed a base read and were
\* invalidated never reach this callback": what is settled with a failed base
\* read is the latest incarnation of the transaction.
InvalidatedNeverSettled ==
    \A n \in DOMAIN settled :
        applied[settled[n]].out.status = "readErr" =>
            applied[settled[n]].inc = incarnations[settled[n]]

\* A call that returns without a cancellation and without a validation panic
\* has settled every transaction of the block.
CompleteResult ==
    returned /\ ~cancelled /\ vpc = "ended" => Len(settled) = N

\* No step changes a cell of a finalized transaction: what validation and
\* re-executions of later transactions read stays what they read.
FinalCellsStable ==
    [][\A j \in Tx : finalized[j] =>
        /\ \A k \in Keys : mv'[k][j] = mv[k][j]
        /\ \A a \in Addrs : bals'[a][j] = bals[a][j]]_vars

\* ExecuteV2BlockSTM always returns: with a cancellation at any moment, a
\* validation panic, and workers waiting for predicted predecessors.
Termination == <>returned

=============================================================================
