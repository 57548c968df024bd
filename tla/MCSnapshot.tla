----------------------------- MODULE MCSnapshot -----------------------------
(***************************************************************************)
(* Snapshot for TLC: a short chain with changing validators, forks and     *)
(* restarts, and a long chain with few changes to watch the rotation.      *)
(***************************************************************************)
EXTENDS Snapshot

MCForked == {1 :> 3 @@ 2 :> 1, 1 :> 1 @@ 2 :> 1 @@ 3 :> 4}

MCSmall == MCForked \cup {2 :> 5}

MCWeights == {1 :> 8 @@ 2 :> 4 @@ 3 :> 3, 1 :> 1 @@ 2 :> 13 @@ 3 :> 1}

MCLeaving == {1 :> 7 @@ 3 :> 1, 1 :> 1 @@ 2 :> 6}

MCJoining == {1 :> 1, 1 :> 1 @@ 2 :> 13, 1 :> 1 @@ 2 :> 2 @@ 3 :> 11}

Setup(length, lists, signers, reorgs, queries, rio) ==
    [length |-> length, lists |-> lists, signers |-> signers, reorgs |-> reorgs, queries |-> queries, rio |-> rio]

MCSetups == {Setup(4, MCForked, {1}, 1, 1..5, 5), Setup(5, MCSmall, {1}, 0, 1..5, 5),
             Setup(4, MCSmall, {1, 2}, 0, 1..4, 4),
             Setup(13, MCWeights, {1}, 0, {1}, 14), Setup(13, MCLeaving, {1}, 0, {1}, 14),
             Setup(11, MCJoining, {1}, 0, {1}, 12)}

MCProducers == 1 :> 2 @@ 3 :> 1

=============================================================================
