------------------------- MODULE MCSchedulingHints -------------------------
(***************************************************************************)
(* SchedulingHints for TLC: all recipients and conflicts of five tasks of  *)
(* one sender, and all senders, authorizations and delegations of three    *)
(* tasks of two senders whose nonces differ.                               *)
(***************************************************************************)
EXTENDS SchedulingHints

CONSTANTS s1, s2

MCAccounts == {s1, s2}

MCBaseNonce == [a \in MCAccounts |-> IF a = s1 THEN 0 ELSE 2]

Task(to, sender, auths) == [to |-> to, sender |-> sender, auths |-> auths]

MCInputs ==
    {[tasks |-> [t \in 0 .. 4 |-> Task(to[t], s1, {})], conflictAddrs |-> c, baseCode |-> {}] :
        to \in [0 .. 4 -> Addresses \cup {NoAddress}], c \in SUBSET Addresses}
    \cup
    {[tasks |-> [t \in 0 .. 2 |-> Task(NoAddress, st[t][1], st[t][2])], conflictAddrs |-> {}, baseCode |-> b] :
        st \in [0 .. 2 -> MCAccounts \X SUBSET MCAccounts], b \in SUBSET MCAccounts}

=============================================================================
