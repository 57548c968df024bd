----------------------------- MODULE MCFinality -----------------------------
(***************************************************************************)
(* Finality for TLC: a chain g-a1-a2-a3-a4 that heimdall finalises, and a  *)
(* fork b2-b3-b4 on a1 whose blocks weigh more.                            *)
(***************************************************************************)
EXTENDS Finality

MCNumber == [g |-> 0, a1 |-> 1, a2 |-> 2, a3 |-> 3, a4 |-> 4, b2 |-> 2, b3 |-> 3, b4 |-> 4]

MCParent == [a1 |-> "g", a2 |-> "a1", a3 |-> "a2", a4 |-> "a3", b2 |-> "a1", b3 |-> "b2", b4 |-> "b3"]

MCTd == [g |-> 0, a1 |-> 1, a2 |-> 2, a3 |-> 3, a4 |-> 4, b2 |-> 3, b3 |-> 5, b4 |-> 7]

MCHeavyTd == [MCTd EXCEPT !["a2"] = 6, !["a3"] = 7, !["a4"] = 8]

MCRank == [g |-> 0, a1 |-> 1, a2 |-> 2, a3 |-> 3, a4 |-> 4, b2 |-> 5, b3 |-> 6, b4 |-> 7]

MCBlocks == DOMAIN MCNumber

MCMilestones == <<[start |-> 1, end |-> 2, hash |-> "a2"], [start |-> 3, end |-> 4, hash |-> "a4"]>>

MCEarlyMilestones == <<[start |-> 1, end |-> 1, hash |-> "a1"], [start |-> 2, end |-> 3, hash |-> "a3"]>>

MCOneMilestone == <<[start |-> 1, end |-> 2, hash |-> "a2"]>>

=============================================================================
