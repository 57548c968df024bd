-------------------------- MODULE SchedulingHints --------------------------
(***************************************************************************)
(* The hints BlockSTM V2 computes from the tasks of a block before it runs *)
(* them (core/blockstm/v2_executor.go).                                    *)
(*                                                                         *)
(* computeToPrev predicts for each task an earlier one to wait for: one    *)
(* pass with the last task of every chain of tasks to the same address and *)
(* the last task of the chain across addresses that conflicted in the      *)
(* previous block.                                                         *)
(*                                                                         *)
(* computeSenderNonces pre-computes nonces.  GetNonce then records no read *)
(* and validation skips it: nothing would ever correct a wrong one.  The   *)
(* model runs the block serially, with every nonce change the EVM can make *)
(* to an account that sends transactions: its own transactions, EIP-7702   *)
(* authorizations that apply, and CREATE inside a call to the account      *)
(* while it is delegated.                                                  *)
(***************************************************************************)
EXTENDS Integers, FiniteSets, FiniteSetsExt

CONSTANTS
    Addresses,      \* recipients
    NoAddress,      \* To() = nil: a contract creation
    MinChainSize,   \* from how many tasks on a recipient gets a chain
    Accounts,       \* accounts that can send transactions
    BaseNonce,      \* their nonces before the block
    MaxNonce,       \* bound of the model on nonces
    Inputs          \* the tasks, the recipients of tasks that failed validation
                    \* one block ago, the accounts with code before the block

ASSUME HintsAssumption ==
    /\ MinChainSize \in Nat /\ MaxNonce \in Nat
    /\ NoAddress \notin Addresses
    /\ BaseNonce \in [Accounts -> 0 .. MaxNonce]

VARIABLES
    block,                      \* the input
    i,                          \* next task
    lastTo, lastConflict, out,  \* the pass of computeToPrev
    delegated, nonce            \* serial execution: delegated accounts, nonces

vars == <<block, i, lastTo, lastConflict, out, delegated, nonce>>

tasks == block.tasks

Tasks == DOMAIN tasks

NTasks == Cardinality(Tasks)

Init ==
    /\ block \in Inputs
    /\ i = 0
    /\ lastTo = [a \in Addresses |-> -1] /\ lastConflict = -1
    /\ out = [t \in Tasks |-> -1]
    /\ delegated = block.baseCode /\ nonce = BaseNonce

-----------------------------------------------------------------------------

ToCount(a) == Cardinality({t \in Tasks : tasks[t].to = a})

\* Mutant: the tracker of the chain is not moved to the current task.
ChainedStuck(a) ==
    [prev |-> IF ToCount(a) >= MinChainSize THEN lastTo[a] ELSE -1,
     last |-> IF ToCount(a) >= MinChainSize /\ lastTo[a] = -1 THEN i ELSE lastTo[a]]

\* The same-recipient chain of address a: predecessor and new last task.
Chained(a) ==
    [prev |-> IF ToCount(a) >= MinChainSize THEN lastTo[a] ELSE -1,
     last |-> IF ToCount(a) >= MinChainSize THEN i ELSE lastTo[a]]

Predecessor ==
    LET to == tasks[i].to
    IN  IF to = NoAddress
        THEN UNCHANGED <<lastTo, lastConflict, out>>
        ELSE LET c     == Chained(to)
                 cross == c.prev = -1 /\ to \in block.conflictAddrs
             IN  /\ lastTo' = [lastTo EXCEPT ![to] = c.last]
                 /\ lastConflict' = IF cross THEN i ELSE lastConflict
                 /\ out' = [out EXCEPT ![i] = IF cross THEN lastConflict ELSE c.prev]

-----------------------------------------------------------------------------

AuthoritySet == UNION {tasks[t].auths : t \in Tasks}

TaskIdxs(s) == {t \in Tasks : tasks[t].sender = s}

\* Mutant: accounts with code before the block are not excluded.
PrecomputeAnyCode(s) == Cardinality(TaskIdxs(s)) >= 2 /\ s \notin AuthoritySet

PrecomputeSenderNonces(s) ==
    /\ Cardinality(TaskIdxs(s)) >= 2
    /\ s \notin AuthoritySet
    /\ s \notin block.baseCode

\* The position of task t in the chain of its sender.
AssignedNonce(t) ==
    LET s == tasks[t].sender
    IN  BaseNonce[s] + Cardinality({u \in TaskIdxs(s) : u < t})

\* Serial execution: the transaction starts by bumping its sender, the
\* authorizations that are valid bump and delegate their authority, and the
\* calls may create contracts from delegated accounts.
Execute ==
    \E applied \in SUBSET tasks[i].auths :
        \E creators \in SUBSET (delegated \cup applied) :
            /\ nonce' = [a \in Accounts |->
                            nonce[a] + (IF a = tasks[i].sender THEN 1 ELSE 0)
                                     + (IF a \in applied THEN 1 ELSE 0)
                                     + (IF a \in creators THEN 1 ELSE 0)]
            /\ \A a \in Accounts : nonce'[a] <= MaxNonce
            /\ delegated' = delegated \cup applied

-----------------------------------------------------------------------------

Step ==
    /\ i < NTasks
    /\ Predecessor
    /\ Execute
    /\ i' = i + 1
    /\ UNCHANGED block

Next == Step \/ (i = NTasks /\ UNCHANGED vars)

Spec == Init /\ [][Next]_vars

\* The earlier tasks of t's own chain.
SameTo(t) ==
    LET to == tasks[t].to
    IN  {s \in 0 .. (t - 1) : to # NoAddress /\ tasks[s].to = to /\ ToCount(to) >= MinChainSize}

\* The tasks that enter the cross-recipient chain: no predecessor of their own.
Cross == {t \in Tasks : tasks[t].to \in block.conflictAddrs /\ SameTo(t) = {}}

Latest(S) == IF S = {} THEN -1 ELSE Max(S)

\* The pass of computeToPrev computes, for every task, the latest earlier task
\* of its own chain, or else (for a recipient that conflicted) the latest
\* earlier task of the cross-recipient chain: no link skips a task.
ToPrevRight ==
    \A t \in Tasks : t < i =>
        out[t] = IF SameTo(t) # {} THEN Latest(SameTo(t))
                 ELSE IF t \in Cross THEN Latest({s \in Cross : s < t})
                 ELSE -1

\* A pre-computed nonce is the nonce the sender has when the transaction runs
\* serially: the senders computeSenderNonces excludes are all those another
\* transaction can touch.
PrecomputedExact ==
    i < NTasks /\ PrecomputeSenderNonces(tasks[i].sender) =>
        AssignedNonce(i) = nonce[tasks[i].sender]

=============================================================================
