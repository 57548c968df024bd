---------------------------- MODULE Transactions ----------------------------
(***************************************************************************)
(* The transactions of one block as the executors see them: the EVM run of *)
(* a transaction is a deterministic automaton that reads cells of the      *)
(* state one at a time and ends with an outcome (status, writes, balance   *)
(* deltas).  The automaton itself (the EVM) is a parameter.                *)
(*                                                                         *)
(* Two kinds of cells: store keys (nonce, storage slot, code, and the      *)
(* markers CreatePath / SuicidePath, where the index of the writer is what *)
(* the reader uses) and balance addresses, which hold commutative deltas.  *)
(***************************************************************************)
EXTENDS Integers, FiniteSets, FiniteSetsExt

CONSTANTS
    N,                  \* number of transactions in the block
    Programs,           \* identifiers of transaction automata
    Keys,               \* versioned store keys
    Markers,            \* the CreatePath / SuicidePath keys
    Addrs,              \* addresses whose balance is read or changed
    Values,             \* values of store keys
    Zero,               \* the value of a wiped key
    Nil,                \* "no value" (Go nil)
    Base,               \* block-start value of every key that is no marker
    Start(_),           \* initial local state of an automaton
    Reading(_),         \* the local states in which it asks for a read
    Ends(_),            \* the local states in which it has ended
    NextRead(_, _),     \* the read it asks for in this local state
    Step(_, _, _),      \* its local state after an observation
    Output(_, _)        \* its outcome when it has ended

Tx == 0 .. (N - 1)

Cells == Keys \cup Addrs

\* A read: the cell, and for a store key the index of the latest destruction
\* of the account the program has seen (-1: none).  A write that is not later
\* than that destruction has been wiped by it.
Requests == [cell : Cells, after : -1 .. (N - 1)]

Deltas == [add : Nat, sub : Nat]

ZeroDelta == [add |-> 0, sub |-> 0]

Statuses == {"ok", "panicked", "execErr", "readErr"}

\* writes[k] = Nil: the key is not written.
Outcomes == [status : Statuses,
             writes : [Keys -> Values \cup {Nil}],
             deltas : [Addrs -> Deltas]]

NoOutcome == [status |-> "ok",
              writes |-> [k \in Keys |-> Nil],
              deltas |-> [a \in Addrs |-> ZeroDelta]]

ASSUME TransactionsAssumption ==
    /\ N \in Nat \ {0}
    /\ Markers \subseteq Keys
    /\ Keys \cap Addrs = {}
    /\ Nil \notin Values
    /\ Zero \in Values
    /\ Base \in [Keys \ Markers -> Values]
    /\ \A p \in Programs : /\ \A l \in Reading(p) : NextRead(p, l) \in Requests
                           /\ \A l \in Ends(p) : Output(p, l) \in Outcomes

-----------------------------------------------------------------------------
(***************************************************************************)
(* What a program learns from a read of key rq.cell whose latest writer is *)
(* w (-1: none) with value v.                                              *)
(***************************************************************************)

\* The value read when no earlier transaction wrote the key.
Default(rq) ==
    IF rq.cell \in Markers THEN Nil
    ELSE IF rq.after >= 0 THEN Zero ELSE Base[rq.cell]

Interpret(rq, w, v) ==
    IF rq.cell \in Markers THEN w
    ELSE IF w = -1 THEN Default(rq)
    ELSE IF w > rq.after THEN v ELSE Zero

\* (add, sub) totals of a vector of deltas, summed separately.
SumDeltas(f) ==
    [add |-> MapThenSumSet(LAMBDA j : f[j].add, DOMAIN f),
     sub |-> MapThenSumSet(LAMBDA j : f[j].sub, DOMAIN f)]

-----------------------------------------------------------------------------
(***************************************************************************)
(* Serial semantics.  outs maps the transactions before i to outcomes.     *)
(***************************************************************************)

\* A panicked transaction publishes nothing.
Published(out, k) == IF out.status = "panicked" THEN Nil ELSE out.writes[k]

PublishedDelta(out, a) ==
    IF out.status = "panicked" THEN ZeroDelta ELSE out.deltas[a]

\* The latest transaction of a column of optional values that holds one.
LastIn(col) == IF \A j \in DOMAIN col : col[j] = Nil
               THEN -1
               ELSE Max({j \in DOMAIN col : col[j] # Nil})

SerialObs(rq, i, outs) ==
    IF rq.cell \in Addrs
    THEN SumDeltas([j \in 0 .. (i - 1) |-> PublishedDelta(outs[j], rq.cell)])
    ELSE LET col == [j \in 0 .. (i - 1) |-> Published(outs[j], rq.cell)]
             w   == LastIn(col)
         IN  Interpret(rq, w, IF w = -1 THEN Nil ELSE col[w])

=============================================================================
