----------------------------- MODULE MCFailover -----------------------------
(***************************************************************************)
(* Failover for TLC.                                                       *)
(***************************************************************************)
EXTENDS Failover

Setup(k, n, threshold, requests, f) ==
    [kind |-> k, n |-> n, threshold |-> threshold, requests |-> requests, flips |-> f]

MCSetups ==
    {Setup("http", 3, 1, 1, 1), Setup("http", 2, 2, 2, 1),
     Setup("ws", 1, 1, 0, 2), Setup("ws", 2, 2, 0, 2), Setup("ws", 3, 1, 0, 0)}

=============================================================================
