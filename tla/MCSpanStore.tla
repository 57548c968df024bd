----------------------------- MODULE MCSpanStore ----------------------------
(***************************************************************************)
(* SpanStore for TLC: one verifier over many spans, two verifiers, a       *)
(* verifier of a heimdall that fails and falls behind, and a waiter.       *)
(***************************************************************************)
EXTENDS SpanStore

CONSTANTS v1, v2, w

Setup(verifiers, waiters, a, f, l, p) ==
    [verifiers |-> verifiers, waiters |-> waiters,
     budget |-> [adds |-> a, faults |-> f, lags |-> l, producers |-> p]]

MCSetups ==
    {Setup({v1}, {}, 3, 0, 0, {Author}), Setup({v1, v2}, {}, 1, 0, 0, {Author}),
     Setup({v1}, {}, 1, 1, 1, {Author}), Setup({}, {w}, 2, 1, 0, Producers)}

=============================================================================
