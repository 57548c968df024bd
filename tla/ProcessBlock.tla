---------------------------- MODULE ProcessBlock ----------------------------
(***************************************************************************)
(* BlockChain.ProcessBlock (core/blockchain.go): the parallel and the      *)
(* serial processor run the same block, each on a state of its own; the    *)
(* first usable result is kept and the other processor is cancelled and    *)
(* joined.  Each processor is abstracted to what it promises: the right    *)
(* result for a valid block and an error for an invalid one, an error of   *)
(* its own (V2 may fail where serial does not), and, once the context is   *)
(* done, an error (serial) or a partial result (V2).                       *)
(***************************************************************************)
EXTENDS Integers, Sequences, FiniteSets

CONSTANTS
    MaxTxs          \* bound on the number of transactions of the block

ASSUME ProcessBlockAssumption == MaxTxs \in Nat

Processors == {"parallel", "serial"}

VARIABLES
    block,          \* [txs, valid, v2fails]: size; is it valid; does V2 fail on it
    enabled,        \* the processors this node runs
    ctxDone,        \* the shared context
    pc, left, res,  \* each processor goroutine: step, transactions left, result
    prefetchers,    \* the states whose trie prefetcher is running
    resultChan,     \* buffered results, by processor
    main, processorCount, result    \* ProcessBlock itself

vars == <<block, enabled, ctxDone, pc, left, res, prefetchers, resultChan, main,
          processorCount, result>>

\* A processing result: did it end with an error; is the state the complete
\* post-state of the block.
NoResult == [err |-> FALSE, whole |-> FALSE]

\* Parallel and serial, parallel alone (enforceParallelProcessor), serial alone.
Init ==
    /\ block \in [txs : 0 .. MaxTxs, valid : BOOLEAN, v2fails : BOOLEAN]
    /\ enabled \in {Processors, {"parallel"}, {"serial"}}
    /\ ctxDone = FALSE
    /\ pc = [p \in Processors |-> "off"]
    /\ left = [p \in Processors |-> block.txs]
    /\ res = [p \in Processors |-> NoResult]
    /\ prefetchers = {}
    /\ resultChan = <<>>
    /\ main = "setup" /\ processorCount = 0 /\ result = "none"

-----------------------------------------------------------------------------
(***************************************************************************)
(* The processor goroutines.                                               *)
(***************************************************************************)

Start(p) ==
    /\ pc[p] = "start"
    /\ prefetchers' = prefetchers \cup {p}
    /\ pc' = [pc EXCEPT ![p] = "process"]
    /\ UNCHANGED <<block, enabled, ctxDone, left, res, resultChan, main,
                   processorCount, result>>

\* One transaction; the context is looked at between transactions.
ProcessTx(p) ==
    /\ pc[p] = "process" /\ left[p] > 0
    /\ left' = [left EXCEPT ![p] = @ - 1]
    /\ UNCHANGED <<block, enabled, ctxDone, pc, res, prefetchers, resultChan, main,
                   processorCount, result>>

\* Serial returns ctx.Err(); V2 returns whatever has been settled, or an error.
Interrupted(p) ==
    /\ pc[p] = "process" /\ left[p] > 0 /\ ctxDone
    /\ \E e \in BOOLEAN :
        /\ p = "serial" => e
        /\ res' = [res EXCEPT ![p] = [err |-> e, whole |-> FALSE]]
    /\ pc' = [pc EXCEPT ![p] = "validate"]
    /\ UNCHANGED <<block, enabled, ctxDone, left, prefetchers, resultChan, main,
                   processorCount, result>>

ProcessFails(p) == ~block.valid \/ (p = "parallel" /\ block.v2fails)

\* The end of the block, or the transaction that fails it.
Processed(p) ==
    /\ pc[p] = "process" /\ (left[p] = 0 \/ ProcessFails(p))
    /\ res' = [res EXCEPT ![p] = [err |-> ProcessFails(p), whole |-> ~ProcessFails(p)]]
    /\ pc' = [pc EXCEPT ![p] = "validate"]
    /\ UNCHANGED <<block, enabled, ctxDone, left, prefetchers, resultChan, main,
                   processorCount, result>>

\* validateStateForPipeline: a partial state does not match the header.
Validate(p) ==
    /\ pc[p] = "validate"
    /\ res' = [res EXCEPT ![p].err = @ \/ ~res[p].whole]
    /\ pc' = [pc EXCEPT ![p] = "stop"]
    /\ UNCHANGED <<block, enabled, ctxDone, left, prefetchers, resultChan, main,
                   processorCount, result>>

\* A processor that failed or lost the race stops its own prefetcher ...
StopOwn(p) ==
    /\ pc[p] = "stop"
    /\ prefetchers' = IF res[p].err \/ ctxDone THEN prefetchers \ {p} ELSE prefetchers
    /\ pc' = [pc EXCEPT ![p] = "send"]
    /\ UNCHANGED <<block, enabled, ctxDone, left, res, resultChan, main,
                   processorCount, result>>

\* ... before it sends its result (the context may be done in between).
Send(p) ==
    /\ pc[p] = "send"
    /\ resultChan' = Append(resultChan, p)
    /\ pc' = [pc EXCEPT ![p] = "sent"]
    /\ UNCHANGED <<block, enabled, ctxDone, left, res, prefetchers, main,
                   processorCount, result>>

Processor(p) ==
    \/ Start(p) \/ ProcessTx(p) \/ Interrupted(p) \/ Processed(p)
    \/ Validate(p) \/ StopOwn(p) \/ Send(p)

-----------------------------------------------------------------------------
(***************************************************************************)
(* ProcessBlock.                                                           *)
(***************************************************************************)

\* setupBlockReaders may fail; otherwise the enabled processors are launched.
Setup ==
    /\ main = "setup"
    /\ \/ /\ main' = "returned"
          /\ UNCHANGED <<pc, processorCount>>
       \/ /\ main' = "first"
          /\ processorCount' = Cardinality(enabled)
          /\ pc' = [p \in Processors |-> IF p \in enabled THEN "start" ELSE "off"]
    /\ UNCHANGED <<block, enabled, ctxDone, left, res, prefetchers, resultChan, result>>

\* Mutant: the context is cancelled as soon as there is a result.
ReceiveFirstCancels ==
    /\ main = "first" /\ resultChan # <<>>
    /\ result' = Head(resultChan)
    /\ resultChan' = Tail(resultChan)
    /\ ctxDone' = TRUE
    /\ LET failed == result' = "parallel" /\ res["parallel"].err
       IN  /\ prefetchers' = IF failed THEN prefetchers \ {"parallel"} ELSE prefetchers
           /\ main' = IF failed /\ processorCount = 2 THEN "fallback" ELSE "cancel"
    /\ UNCHANGED <<block, enabled, pc, left, res, processorCount>>

\* The first result; a failed parallel result is not the final one if serial
\* is running: it is waited for before anything is cancelled.
ReceiveFirst ==
    /\ main = "first" /\ resultChan # <<>>
    /\ result' = Head(resultChan)
    /\ resultChan' = Tail(resultChan)
    /\ LET failed == result' = "parallel" /\ res["parallel"].err
       IN  /\ prefetchers' = IF failed THEN prefetchers \ {"parallel"} ELSE prefetchers
           /\ main' = IF failed /\ processorCount = 2 THEN "fallback" ELSE "cancel"
    /\ UNCHANGED <<block, enabled, ctxDone, pc, left, res, processorCount>>

\* Mutant: the count of outstanding results is not decremented.
ReceiveFallbackNotCounted ==
    /\ main = "fallback" /\ resultChan # <<>>
    /\ result' = Head(resultChan)
    /\ resultChan' = Tail(resultChan)
    /\ prefetchers' = prefetchers \ {result'}
    /\ main' = "cancel"
    /\ UNCHANGED <<block, enabled, ctxDone, pc, left, res, processorCount>>

ReceiveFallback ==
    /\ main = "fallback" /\ resultChan # <<>>
    /\ result' = Head(resultChan)
    /\ resultChan' = Tail(resultChan)
    /\ prefetchers' = prefetchers \ {result'}
    /\ processorCount' = processorCount - 1
    /\ main' = "cancel"
    /\ UNCHANGED <<block, enabled, ctxDone, pc, left, res>>

Cancel ==
    /\ main = "cancel"
    /\ ctxDone' = TRUE
    /\ main' = IF processorCount = 2 THEN "join" ELSE "returned"
    /\ UNCHANGED <<block, enabled, pc, left, res, prefetchers, resultChan,
                   processorCount, result>>

\* Mutant: the loser is joined but keeps its prefetcher.
ReceiveLoserKeepsPrefetcher ==
    /\ main = "join" /\ resultChan # <<>>
    /\ resultChan' = Tail(resultChan)
    /\ main' = "returned"
    /\ UNCHANGED <<block, enabled, ctxDone, pc, left, res, prefetchers,
                   processorCount, result>>

\* The loser is joined and its prefetcher stopped before the caller commits.
ReceiveLoser ==
    /\ main = "join" /\ resultChan # <<>>
    /\ prefetchers' = prefetchers \ {Head(resultChan)}
    /\ resultChan' = Tail(resultChan)
    /\ main' = "returned"
    /\ UNCHANGED <<block, enabled, ctxDone, pc, left, res, processorCount, result>>

Main == Setup \/ ReceiveFirst \/ ReceiveFallback \/ Cancel \/ ReceiveLoser

Next ==
    \/ \E p \in Processors : Processor(p)
    \/ Main
    \/ main = "returned" /\ UNCHANGED vars

Spec == Init /\ [][Next]_vars

FairSpec == Spec /\ WF_vars(Main) /\ \A p \in Processors : WF_vars(Processor(p))

-----------------------------------------------------------------------------

\* The block is accepted exactly if it is valid and a processor that can handle
\* it runs, and what is returned is never the partial state of a cancelled run:
\* a V2-only failure is recovered by the serial result, which the cancellation
\* must not reach ("The fallback IS the recovery; it must run to completion").
RightVerdict ==
    main = "returned" /\ result # "none" =>
        /\ ~res[result].err => res[result].whole
        /\ res[result].err <=> ~block.valid \/ (enabled = {"parallel"} /\ block.v2fails)

\* When ProcessBlock returns (and the caller commits, moving the trie layer) no
\* processor is still running and only the returned state may still prefetch
\* ("This must happen BEFORE ProcessBlock returns").
LoserJoined ==
    main = "returned" =>
        /\ \A p \in Processors : pc[p] \in {"off", "sent"}
        /\ prefetchers \subseteq {result}

\* ProcessBlock returns, whichever processor fails or loses.
Returns == <>(main = "returned")

=============================================================================
