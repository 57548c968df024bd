---------------------------- MODULE MCV2Executor ----------------------------
(***************************************************************************)
(* V2Executor on small blocks.  One account holds a storage slot, its      *)
(* destruction marker and a balance.  A program is the list of its reads   *)
(* and an outcome that is a function of what they returned; the local      *)
(* state of a run is the tuple of observations so far.                     *)
(***************************************************************************)
EXTENDS V2Executor, TLC

CONSTANTS slot, marker, acct, none

MCKeys    == {slot, marker}
MCMarkers == {marker}
MCAddrs   == {acct}
MCValues  == 0 .. 3
MCBase    == [k \in {slot} |-> 0]

NoWrites == [k \in MCKeys |-> none]

Plain(w)     == [status |-> "ok", writes |-> w, deltas |-> [a \in MCAddrs |-> ZeroDelta]]
Credit(x, y) == [status |-> "ok", writes |-> NoWrites,
                 deltas |-> [a \in MCAddrs |-> [add |-> x, sub |-> y]]]

\* How many cells each program reads.
Length == [add    |-> 2,    \* adds one to the slot
           set    |-> 0,    \* overwrites the slot
           setrm  |-> 0,    \* writes the slot and destroys the account
           rm     |-> 0,    \* destroys the account
           copy   |-> 2,    \* credits the account with the slot's value
           fund   |-> 0,    \* credits the account
           spend  |-> 1,    \* debits the account if it was credited, else fails
           guard  |-> 1,    \* panics unless the account was credited
           load   |-> 2,    \* fails a base read if the slot holds 1
           rmif   |-> 1,    \* destroys the account if it was credited
           both   |-> 1]    \* debits what was credited and notes it in the slot

MCPrograms == DOMAIN Length

MCStart(p) == <<>>

MCReading(p) ==
    CASE Length[p] = 0 -> {}
      [] Length[p] = 1 -> {<<>>}
      [] OTHER         -> {<<>>} \cup {<<m>> : m \in -1 .. (N - 1)}

MCEnds(p) ==
    LET marks == -1 .. (N - 1)
        sums  == [add : 0 .. 4, sub : 0 .. 4]
    IN  CASE Length[p] = 0 -> {<<>>}
          [] Length[p] = 1 -> {<<s>> : s \in sums}
          [] OTHER         -> {<<m, v>> : m \in marks, v \in MCValues}

\* Reading a slot looks at the destruction marker first (priorDestructedAt).
MCNextRead(p, l) ==
    IF Length[p] = 1 THEN [cell |-> acct, after |-> -1]
    ELSE IF l = <<>> THEN [cell |-> marker, after |-> -1]
    ELSE [cell |-> slot, after |-> l[1]]

MCStep(p, l, o) == Append(l, o)

MCOutput(p, l) ==
    CASE p = "add"   -> Plain([NoWrites EXCEPT ![slot] = (l[2] + 1) % 4])
      [] p = "set"   -> Plain([NoWrites EXCEPT ![slot] = 1])
      [] p = "setrm" -> Plain(slot :> 1 @@ marker :> 1)
      [] p = "rm"    -> Plain([NoWrites EXCEPT ![marker] = 1])
      [] p = "copy"  -> Credit(l[2], 0)
      [] p = "fund"  -> Credit(1, 0)
      [] p = "spend" -> IF l[1].add > l[1].sub THEN Credit(0, 1)
                        ELSE [Plain(NoWrites) EXCEPT !.status = "execErr"]
      [] p = "guard" -> IF l[1].add > l[1].sub
                        THEN Plain([NoWrites EXCEPT ![slot] = 2])
                        ELSE [Plain([NoWrites EXCEPT ![slot] = 3]) EXCEPT !.status = "panicked"]
      [] p = "load"  -> [Plain(NoWrites) EXCEPT !.status = IF l[2] = 1 THEN "readErr" ELSE "ok"]
      [] p = "rmif"  -> IF l[1].add > 0 THEN Plain([NoWrites EXCEPT ![marker] = 1])
                                        ELSE Plain([NoWrites EXCEPT ![slot] = 1])
      [] p = "both"  -> [Credit(0, IF l[1].add > 0 THEN 1 ELSE 0)
                            EXCEPT !.writes = IF l[1].add > 0
                                              THEN NoWrites
                                              ELSE [NoWrites EXCEPT ![slot] = 2]]

\* The programs that touch the slot and its marker, and those that move the
\* balance (with runs that panic or fail only while they are speculative).
SlotPrograms    == {"add", "set", "setrm", "rm", "copy"}
BalancePrograms == {"fund", "spend", "guard", "rmif", "both", "add"}

\* Predicted predecessors: none, a chain, a chain that skips a transaction.
Predictions == {p \in [Tx -> -1 .. (N - 1)] : \A i \in Tx : p[i] < i}

MCBlocks ==
    [prog : [Tx -> SlotPrograms] \cup [Tx -> BalancePrograms],
     toPrev : {p \in Predictions : \A i \in Tx : p[i] \in {-1, i - 1}}]

\* Where the context may be cancelled, chains are what can block; the last
\* block fails serially.
Block(p, t) == [prog |-> [i \in Tx |-> p[i + 1]], toPrev |-> [i \in Tx |-> t[i + 1]]]

MCChains ==
    {Block(<<"add", "add", "add">>, <<-1, -1, 1>>),
     Block(<<"add", "add", "add">>, <<-1, 0, 1>>),
     Block(<<"fund", "guard", "add">>, <<-1, -1, 1>>),
     Block(<<"add", "add", "load">>, <<-1, -1, 1>>),
     Block(<<"fund", "both", "spend">>, <<-1, -1, 0>>)}

-----------------------------------------------------------------------------
\* What settlement has applied, up to and including the first transaction that
\* did not succeed (newV2SettleFn records it and Process fails the block).
SettledOuts ==
    LET bad == {n \in DOMAIN settled : applied[settled[n]].out.status # "ok"}
    IN  [n \in 1 .. (IF bad = {} THEN Len(settled) ELSE Min(bad)) |->
            applied[settled[n]].out]

Serial == INSTANCE SerialExecution WITH
            MaxReads <- 2,
            outs <- SettledOuts,
            abandoned <- (cancelled \/ vpc = "panicked")

\* Settlement implements the serial processor: it applies the outcomes of the
\* serial execution, in order, up to the first failure; and unless the call is
\* cancelled or validation panics it gets to the end of the block.
ImplementsSerial == Serial!Spec

=============================================================================
