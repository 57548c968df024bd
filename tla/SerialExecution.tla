-------------------------- MODULE SerialExecution --------------------------
(***************************************************************************)
(* The serial processor (core/state_processor.go, Process): transactions   *)
(* are applied one after the other, each on the state the earlier ones     *)
(* left, until one fails or the context is done.  This is what the         *)
(* parallel executor promises to implement: outs is the sequence of        *)
(* outcomes applied so far.  Once the call is abandoned (cancelled, or     *)
(* given up with an error) its partial result means nothing.               *)
(***************************************************************************)
EXTENDS Transactions, Sequences

CONSTANT MaxReads       \* bound on the reads of one transaction (its gas)

VARIABLES block, outs, abandoned

\* The local state of program p after at most n reads as transaction i.
LocalState(p, i, prior) ==
    LET after[n \in 0 .. MaxReads] ==
            IF n = 0 THEN Start(p)
            ELSE LET l == after[n - 1]
                 IN  IF l \in Ends(p) THEN l
                     ELSE Step(p, l, SerialObs(NextRead(p, l), i, prior))
    IN  after[MaxReads]

\* ApplyTransactionWithEVM on the state the prior transactions left.
Apply(i) ==
    LET p == block.prog[i]
    IN  Output(p, LocalState(p, i, [j \in 0 .. (i - 1) |-> outs[j + 1]]))

Failed == \E n \in DOMAIN outs : outs[n].status # "ok"

Init == outs = <<>> /\ abandoned = FALSE

ApplyNext ==
    /\ ~abandoned /\ ~Failed /\ Len(outs) < N
    /\ outs' = Append(outs, Apply(Len(outs)))
    /\ UNCHANGED <<block, abandoned>>

\* The caller cancels the context, or the executor reports an error of its own.
Abandon ==
    /\ ~abandoned /\ abandoned' = TRUE
    /\ UNCHANGED <<block, outs>>

\* What an abandoned call does to its private state is discarded.
Discarded == abandoned /\ UNCHANGED <<block, abandoned>>

Next == ApplyNext \/ Abandon \/ Discarded

\* A call that is not abandoned goes on to the end of the block.
Spec == Init /\ [][Next]_<<block, outs, abandoned>> /\ WF_<<block, outs, abandoned>>(ApplyNext)

=============================================================================
