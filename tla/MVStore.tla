------------------------------- MODULE MVStore -------------------------------
(***************************************************************************)
(* The multi-version store (core/blockstm/mvstore.go) and the balance      *)
(* delta store (core/blockstm/mvbalance_store.go) that the speculative     *)
(* executions of one block share.  mv[k][j] is the entry transaction j     *)
(* holds for key k; bals[a][j] its delta for address a (no entry and a     *)
(* zero entry are the same to every reader, so absence is the zero delta). *)
(* The sorted entry slice of the code, searched by txIdx, is a function of *)
(* txIdx here; the bloom filter only short-cuts reads of absent keys.      *)
(***************************************************************************)
EXTENDS Transactions

VARIABLES mv, bals

storeVars == <<mv, bals>>

Entries == [there : BOOLEAN, inc : 0 .. 1, val : Values \cup {Nil}, est : BOOLEAN]

Absent == [there |-> FALSE, inc |-> 0, val |-> Nil, est |-> FALSE]

StoreInit ==
    /\ mv   = [k \in Keys |-> [j \in Tx |-> Absent]]
    /\ bals = [a \in Addrs |-> [j \in Tx |-> ZeroDelta]]

StoreTypeOK ==
    /\ mv \in [Keys -> [Tx -> Entries]]
    /\ bals \in [Addrs -> [Tx -> Deltas]]

-----------------------------------------------------------------------------

NotFound == [found |-> FALSE, writer |-> -1, inc |-> 0, val |-> Nil, est |-> FALSE]

\* Latest entry of a column (the entries of the transactions before the
\* reader), as ReadVersionFull returns it.
LatestOf(col) ==
    IF \A j \in DOMAIN col : ~col[j].there
    THEN NotFound
    ELSE LET w == Max({j \in DOMAIN col : col[j].there})
         IN  [found |-> TRUE, writer |-> w, inc |-> col[w].inc,
              val |-> col[w].val, est |-> col[w].est]

ReadVersionFull(k, i) == LatestOf([j \in 0 .. (i - 1) |-> mv[k][j]])

ReadDelta(a, i) == SumDeltas([j \in 0 .. (i - 1) |-> bals[a][j]])

WriteInc(k, i, inc, v) ==
    mv' = [mv EXCEPT ![k][i] = [there |-> TRUE, inc |-> inc, val |-> v, est |-> FALSE]]

MarkEstimate(k, i) ==
    mv' = [mv EXCEPT ![k][i] = IF @.there THEN [@ EXCEPT !.est = TRUE] ELSE @]

CleanupEstimate(k, i) ==
    mv' = [mv EXCEPT ![k][i] = IF @.there /\ @.est THEN Absent ELSE @]

WriteDelta(a, i, d) ==
    bals' = [bals EXCEPT ![a][i] = [add |-> @.add + d.add, sub |-> @.sub + d.sub]]

\* Mutant: the delta of the failed incarnation stays.
ZeroDeltaKept(a, i) == bals' = [bals EXCEPT ![a][i] = @]

ZeroDeltaAt(a, i) == bals' = [bals EXCEPT ![a][i] = ZeroDelta]

DeleteSingle(a, i) == bals' = [bals EXCEPT ![a][i] = ZeroDelta]

=============================================================================
