--------------------------- MODULE HealthRegistry ---------------------------
(***************************************************************************)
(* The health registry of N heimdall endpoints as a record, and what each  *)
(* of its critical sections makes of it                                    *)
(* (consensus/bor/heimdall/health_registry.go).  Endpoint 0 is the primary;*)
(* the smaller the index, the higher the priority.  HealthySince is        *)
(* abstracted to cooled: whether PromotionCooldown has passed since then.  *)
(***************************************************************************)
EXTENDS Integers, Sequences, SequencesExt

Endpoints(r) == 0 .. (r.n - 1)

\* The primary starts healthy, its zero HealthySince long past.
NewHealthRegistry(n, threshold) ==
    [n |-> n, ConsecutiveThreshold |-> threshold, active |-> 0,
     health |-> [i \in 0 .. (n - 1) |->
                    [Healthy |-> i = 0, ConsecutiveSuccess |-> 0, cooled |-> i = 0]]]

\* Mutant: the count of successes survives a failure.
MarkUnhealthyKeepsCount(r, i) ==
    [r EXCEPT !.health[i].Healthy = FALSE, !.health[i].cooled = FALSE]

\* HealthySince is read for healthy endpoints only.
MarkUnhealthy(r, i) ==
    [r EXCEPT !.health[i] = [Healthy |-> FALSE, ConsecutiveSuccess |-> 0, cooled |-> FALSE]]

\* The count is compared with the threshold only, and capped there.
MarkSuccess(r, i) ==
    LET h == r.health[i]
        n == IF h.ConsecutiveSuccess < r.ConsecutiveThreshold THEN h.ConsecutiveSuccess + 1
             ELSE h.ConsecutiveSuccess
    IN  [r EXCEPT !.health[i].ConsecutiveSuccess = n,
                  !.health[i].Healthy = @ \/ n >= r.ConsecutiveThreshold]

SetActive(r, i) == [r EXCEPT !.active = i]

\* External: the cooldown of a healthy endpoint passes.
Cooled(r, i) == [r EXCEPT !.health[i].cooled = TRUE]

HealthyOnes(r) == {i \in Endpoints(r) : r.health[i].Healthy}

CooledOnes(r) == {i \in HealthyOnes(r) : r.health[i].cooled}

\* Mutant: only the next higher priority is looked at.
PromotedByOne(r) ==
    IF r.active - 1 \in CooledOnes(r) THEN SetActive(r, r.active - 1) ELSE r

\* maybePromote: the first endpoint before the active one that is healthy and cooled.
Promoted(r) ==
    LET better == {i \in CooledOnes(r) : i < r.active}
    IN  IF better = {} THEN r ELSE SetActive(r, Min(better))

\* maybeProactiveSwitch: away from an unhealthy active endpoint, to a cooled one first.
Switched(r) ==
    LET cooled  == CooledOnes(r) \ {r.active}
        healthy == HealthyOnes(r) \ {r.active}
    IN  IF r.health[r.active].Healthy \/ healthy = {} THEN r
        ELSE SetActive(r, Min(IF cooled # {} THEN cooled ELSE healthy))

InOrder(S) == SetToSortSeq(S, <)

\* Mutant: the last resort is left out.
CandidatesHealthyOnly(r, failed) ==
    InOrder(CooledOnes(r) \ {failed}) \o InOrder((HealthyOnes(r) \ CooledOnes(r)) \ {failed})

\* The three passes of cascadeClients over a snapshot.
Candidates(r, failed) ==
    InOrder(CooledOnes(r) \ {failed})
       \o InOrder((HealthyOnes(r) \ CooledOnes(r)) \ {failed})
       \o InOrder((Endpoints(r) \ HealthyOnes(r)) \ {failed})

\* Mutant: without a healthy alternative the client stays where it is.
AlternativeHealthyOnly(r, failed) ==
    LET healthy == HealthyOnes(r) \ {failed}
    IN  IF healthy # {} THEN Min(healthy) ELSE failed

\* Where the websocket client goes after a failed dial: the first healthy other
\* endpoint, or the next one.
Alternative(r, failed) ==
    LET healthy == HealthyOnes(r) \ {failed}
    IN  IF healthy # {} THEN Min(healthy) ELSE (failed + 1) % r.n

=============================================================================
