------------------------------ MODULE Failover ------------------------------
(***************************************************************************)
(* Failover between heimdall endpoints: the goroutine of the health        *)
(* registry that probes, promotes and switches, together with its client,  *)
(* either concurrent requests over HTTP                                    *)
(* (consensus/bor/heimdall/failover_client.go) or the websocket            *)
(* subscription to milestones (consensus/bor/heimdallws/client.go).  Each  *)
(* step is one critical section of the registry, one of the websocket      *)
(* client, or one call to an endpoint.                                     *)
(***************************************************************************)
EXTENDS HealthRegistry, FiniteSets

CONSTANTS Setups,      \* kind of client, endpoints, threshold, concurrent requests,
                       \* and the bound on changes of reachability
          NoConn       \* conn = nil

ASSUME FailoverAssumption ==
    /\ NoConn \notin Nat
    /\ \A s \in Setups :
          /\ s.kind \in {"http", "ws"}
          /\ s.n \in Nat \ {0} /\ s.threshold \in Nat \ {0} /\ s.requests \in Nat /\ s.flips \in Nat

VARIABLES kind,      \* the client the registry belongs to
          reg,       \* the registry
          pristine,  \* history: the primary was never marked unhealthy
          up,        \* endpoints that can be reached
          flips,     \* how many times reachability will still change
          prober,    \* the goroutine run: its step and the probes under way
          quit,      \* Close or Unsubscribe was called
          cancelled, \* the context of the subscription
          req,       \* the requests over HTTP
          ws         \* the websocket client and its reader

vars == <<kind, reg, pristine, up, flips, prober, quit, cancelled, req, ws>>

\* failed: history, the endpoints this request has failed on.
NoRequest == [pc |-> "idle", at |-> 0, rest |-> <<>>, cascading |-> FALSE, failed |-> {}]

\* stale: connEpoch has changed since the reader took the connection it reads.
NewWS(pc) == [pc |-> pc, at |-> 0, conn |-> NoConn, stale |-> FALSE, sent |-> TRUE, first |-> TRUE]

Init ==
    \E s \in Setups :
        /\ kind = s.kind
        /\ reg = NewHealthRegistry(s.n, s.threshold)
        /\ pristine = TRUE
        /\ up \in SUBSET (0 .. (s.n - 1))
        /\ flips = s.flips
        /\ prober = [pc |-> "off", pending |-> {}]
        /\ quit = FALSE /\ cancelled = FALSE
        /\ req = [q \in 1 .. s.requests |-> NoRequest]
        /\ ws = NewWS(IF s.kind = "ws" THEN "dial" ELSE "off")

\* External: an endpoint goes down or comes back; a cooldown passes.
Flip ==
    /\ flips > 0
    /\ flips' = flips - 1
    /\ \E i \in Endpoints(reg) : up' = IF i \in up THEN up \ {i} ELSE up \cup {i}
    /\ UNCHANGED <<kind, reg, pristine, prober, quit, cancelled, req, ws>>

CooldownPasses(i) ==
    /\ i \in HealthyOnes(reg) \ CooledOnes(reg)
    /\ reg' = Cooled(reg, i)
    /\ UNCHANGED <<kind, pristine, up, flips, prober, quit, cancelled, req, ws>>

\* The outcome of a call or probe is counted.
Count(i, ok) ==
    /\ reg' = IF ok THEN MarkSuccess(reg, i) ELSE MarkUnhealthy(reg, i)
    /\ pristine' = (pristine /\ (ok \/ i # 0))

-----------------------------------------------------------------------------
(* The registry's goroutine.                                               *)

\* Start, once, and only with more than one endpoint.
Started == IF reg.n > 1 /\ prober.pc = "off" THEN [prober EXCEPT !.pc = "begin"] ELSE prober

ProberAt(pc) == prober' = [prober EXCEPT !.pc = pc]

\* At the start and at every tick probeAll starts a probe per endpoint, unless the registry is being stopped.
BeginProbes ==
    /\ prober.pc \in {"begin", "tick"}
    /\ prober' = IF quit THEN [prober EXCEPT !.pc = "promote"]
                 ELSE [pc |-> "probe", pending |-> Endpoints(reg)]
    /\ UNCHANGED <<kind, reg, pristine, up, flips, quit, cancelled, req, ws>>

\* A probe answers and its result is applied; Close aborts the probes over HTTP.
Probe ==
    /\ prober.pc = "probe"
    /\ \E i \in prober.pending :
          /\ Count(i, i \in up /\ ~(quit /\ kind = "http"))
          /\ prober' = [prober EXCEPT !.pending = @ \ {i},
                                      !.pc = IF prober.pending = {i} THEN "promote" ELSE @]
    /\ UNCHANGED <<kind, up, flips, quit, cancelled, req, ws>>

\* The active endpoint has changed, and the client wants to know.
Notifies == reg'.active # reg.active /\ kind = "ws"

\* onWSSwitch: the epoch changes, the connection is closed.
OnSwitch == [ws EXCEPT !.conn = NoConn, !.stale = (ws.pc = "reading")]

MaybePromote ==
    /\ prober.pc = "promote"
    /\ reg' = Promoted(reg)
    /\ ProberAt(IF Notifies THEN "promoted" ELSE "switch")
    /\ UNCHANGED <<kind, pristine, up, flips, quit, cancelled, req, ws>>

MaybeProactiveSwitch ==
    /\ prober.pc = "switch"
    /\ reg' = Switched(reg)
    /\ ProberAt(IF Notifies THEN "switched" ELSE "tick")
    /\ UNCHANGED <<kind, pristine, up, flips, quit, cancelled, req, ws>>

\* onSwitch is called without the registry's lock.
SwitchCallback ==
    /\ prober.pc \in {"promoted", "switched"}
    /\ ws' = OnSwitch
    /\ ProberAt(IF prober.pc = "promoted" THEN "switch" ELSE "tick")
    /\ UNCHANGED <<kind, reg, pristine, up, flips, quit, cancelled, req>>

StopRun ==
    /\ prober.pc = "tick" /\ quit
    /\ ProberAt("done")
    /\ UNCHANGED <<kind, reg, pristine, up, flips, quit, cancelled, req, ws>>

ProberStep ==
    BeginProbes \/ Probe \/ MaybePromote \/ MaybeProactiveSwitch \/ SwitchCallback

\* Mutant: Stop waits for a goroutine that was never started.
StopUnstarted ==
    /\ ~quit
    /\ quit' = TRUE
    /\ UNCHANGED <<kind, reg, pristine, up, flips, prober, cancelled, req, ws>>

\* Close of the HTTP client, Unsubscribe of the websocket client: Stop makes a
\* later Start do nothing.
Stop ==
    /\ ~quit
    /\ quit' = TRUE
    /\ prober' = IF prober.pc = "off" THEN [prober EXCEPT !.pc = "done"] ELSE prober
    /\ UNCHANGED <<kind, reg, pristine, up, flips, cancelled, req, ws>>

Cancel ==
    /\ kind = "ws" /\ ~cancelled
    /\ cancelled' = TRUE
    /\ UNCHANGED <<kind, reg, pristine, up, flips, prober, quit, req, ws>>

-----------------------------------------------------------------------------
(* callWithFailover and cascadeClients.                                    *)

Request(q, r) == req' = [req EXCEPT ![q] = r]

BeginRequest(q) ==
    /\ req[q].pc = "idle" /\ ~quit
    /\ prober' = Started
    /\ Request(q, [NoRequest EXCEPT !.pc = "call", !.at = reg.active])
    /\ UNCHANGED <<kind, reg, pristine, up, flips, quit, cancelled, ws>>

\* The answer of the endpoint.
CallSucceeds(q) ==
    /\ req[q].pc = "call" /\ req[q].at \in up
    /\ Request(q, IF req[q].cascading THEN [req[q] EXCEPT !.pc = "set"] ELSE NoRequest)
    /\ UNCHANGED <<kind, reg, pristine, up, flips, prober, quit, cancelled, ws>>

\* A refusal no other endpoint would answer differently, or the caller's context
\* has ended (isFailoverError).
CallRefused(q) ==
    /\ req[q].pc = "call"
    /\ Request(q, NoRequest)
    /\ UNCHANGED <<kind, reg, pristine, up, flips, prober, quit, cancelled, ws>>

CallFails(q) ==
    /\ req[q].pc = "call" /\ req[q].at \notin up
    /\ Request(q, [req[q] EXCEPT !.pc = "mark", !.failed = @ \cup {req[q].at}])
    /\ UNCHANGED <<kind, reg, pristine, up, flips, prober, quit, cancelled, ws>>

\* The request goes on with the next candidate, or has none left.
Following(r, rest) ==
    IF rest = <<>> THEN [r EXCEPT !.pc = "lost", !.rest = <<>>]
    ELSE [r EXCEPT !.pc = "call", !.at = Head(rest), !.rest = Tail(rest), !.cascading = TRUE]

MarkFailed(q) ==
    /\ req[q].pc = "mark"
    /\ Count(req[q].at, FALSE)
    /\ Request(q, IF req[q].cascading THEN Following(req[q], req[q].rest)
                  ELSE [req[q] EXCEPT !.pc = "snapshot"])
    /\ UNCHANGED <<kind, up, flips, prober, quit, cancelled, ws>>

Snapshot(q) ==
    /\ req[q].pc = "snapshot"
    /\ Request(q, Following(req[q], Candidates(reg, req[q].at)))
    /\ UNCHANGED <<kind, reg, pristine, up, flips, prober, quit, cancelled, ws>>

SetActiveClient(q) ==
    /\ req[q].pc = "set"
    /\ reg' = SetActive(reg, req[q].at)
    /\ Request(q, [req[q] EXCEPT !.pc = "success"])
    /\ UNCHANGED <<kind, pristine, up, flips, prober, quit, cancelled, ws>>

MarkClientSuccess(q) ==
    /\ req[q].pc = "success"
    /\ Count(req[q].at, TRUE)
    /\ Request(q, NoRequest)
    /\ UNCHANGED <<kind, up, flips, prober, quit, cancelled, ws>>

ReturnLost(q) ==
    /\ req[q].pc = "lost"
    /\ Request(q, NoRequest)
    /\ UNCHANGED <<kind, reg, pristine, up, flips, prober, quit, cancelled, ws>>

RequestStep(q) ==
    CallSucceeds(q) \/ CallRefused(q) \/ CallFails(q) \/ MarkFailed(q) \/ Snapshot(q)
       \/ SetActiveClient(q) \/ MarkClientSuccess(q) \/ ReturnLost(q)

-----------------------------------------------------------------------------
(* SubscribeMilestoneEvents, tryUntilSubscribeMilestoneEvents and          *)
(* readMessages.  While the reader is reading, conn is its connection or   *)
(* has been closed by a switch.                                            *)

Stopping == quit \/ cancelled

WSAt(pc) == ws' = [ws EXCEPT !.pc = pc]

\* tryUntilSubscribeMilestoneEvents returns; the first time the registry starts.
Subscribed ==
    /\ ws' = [ws EXCEPT !.pc = "read", !.first = FALSE, !.at = 0]
    /\ prober' = IF ws.first THEN Started ELSE prober

ReadActive ==
    /\ ws.pc = "dial"
    /\ IF Stopping THEN Subscribed
       ELSE ws' = [ws EXCEPT !.pc = "dialing", !.at = reg.active] /\ UNCHANGED prober
    /\ UNCHANGED <<kind, reg, pristine, up, flips, quit, cancelled, req>>

Dial ==
    /\ ws.pc = "dialing"
    /\ WSAt(IF ws.at \in up THEN "store" ELSE "mark")
    /\ UNCHANGED <<kind, reg, pristine, up, flips, prober, quit, cancelled, req>>

MarkDialFailed ==
    /\ ws.pc = "mark"
    /\ Count(ws.at, FALSE)
    /\ ws' = IF reg.n > 1 THEN [ws EXCEPT !.pc = "alternative"] ELSE [ws EXCEPT !.pc = "dial", !.at = 0]
    /\ UNCHANGED <<kind, up, flips, prober, quit, cancelled, req>>

ChooseAlternative ==
    /\ ws.pc = "alternative"
    /\ ws' = [ws EXCEPT !.pc = "set", !.at = Alternative(reg, ws.at)]
    /\ UNCHANGED <<kind, reg, pristine, up, flips, prober, quit, cancelled, req>>

SetActiveURL ==
    /\ ws.pc = "set"
    /\ reg' = SetActive(reg, ws.at)
    /\ ws' = [ws EXCEPT !.pc = IF Notifies THEN "callback" ELSE "dial", !.at = 0]
    /\ UNCHANGED <<kind, pristine, up, flips, prober, quit, cancelled, req>>

OwnCallback ==
    /\ ws.pc = "callback"
    /\ ws' = [OnSwitch EXCEPT !.pc = "dial"]
    /\ UNCHANGED <<kind, reg, pristine, up, flips, prober, quit, cancelled, req>>

\* The connection is stored and the subscription sent under the client's lock;
\* the sending may fail once the endpoint is down.
StoreConn ==
    /\ ws.pc = "store"
    /\ \E sent \in {TRUE, ws.at \in up} :
          ws' = [ws EXCEPT !.pc = "success", !.conn = ws.at, !.sent = sent]
    /\ UNCHANGED <<kind, reg, pristine, up, flips, prober, quit, cancelled, req>>

NotSent == [ws EXCEPT !.pc = "dial", !.at = 0, !.sent = TRUE]

MarkConnected ==
    /\ ws.pc = "success"
    /\ Count(ws.at, TRUE)
    /\ IF ws.sent THEN Subscribed ELSE ws' = NotSent /\ UNCHANGED prober
    /\ UNCHANGED <<kind, up, flips, quit, cancelled, req>>

\* The head of the reader's loop.
TakeConn ==
    /\ ws.pc = "read"
    /\ ws' = IF Stopping THEN [ws EXCEPT !.pc = "stopped"]
             ELSE IF ws.conn = NoConn THEN [ws EXCEPT !.pc = "dial"]
             ELSE [ws EXCEPT !.pc = "reading"]
    /\ UNCHANGED <<kind, reg, pristine, up, flips, prober, quit, cancelled, req>>

\* A message: a milestone, or something else.
ReadMessage ==
    /\ ws.pc = "reading" /\ ws.conn \in up
    /\ \E next \in {"deliver", "read"} : ws' = [ws EXCEPT !.pc = next, !.stale = FALSE]
    /\ UNCHANGED <<kind, reg, pristine, up, flips, prober, quit, cancelled, req>>

\* The connection is closed or broken, or the deadline has passed.
ReadError ==
    /\ ws.pc = "reading"
    /\ ws' = [ws EXCEPT !.pc = IF ws.stale THEN "read" ELSE "dial", !.stale = FALSE]
    /\ UNCHANGED <<kind, reg, pristine, up, flips, prober, quit, cancelled, req>>

\* The consumer takes the milestone, or has left with the context.
Deliver ==
    /\ ws.pc = "deliver"
    /\ \/ WSAt("read")
       \/ cancelled /\ WSAt("stopped")
    /\ UNCHANGED <<kind, reg, pristine, up, flips, prober, quit, cancelled, req>>

WSStep ==
    ReadActive \/ Dial \/ MarkDialFailed \/ ChooseAlternative \/ SetActiveURL \/ OwnCallback
       \/ StoreConn \/ MarkConnected \/ TakeConn \/ ReadMessage \/ ReadError \/ Deliver

-----------------------------------------------------------------------------

Next ==
    \/ Flip \/ (\E i \in Endpoints(reg) : CooldownPasses(i))
    \/ ProberStep \/ StopRun
    \/ Stop \/ Cancel
    \/ \E q \in DOMAIN req : BeginRequest(q) \/ RequestStep(q)
    \/ WSStep

Spec == Init /\ [][Next]_vars

\* The goroutines run, the select of a stopped registry does not choose the ticker
\* for ever, time passes.
Fairness ==
    /\ WF_vars(ProberStep) /\ SF_vars(StopRun)
    /\ WF_vars(WSStep)
    /\ \A q \in 1 .. Max({s.requests : s \in Setups}) :
          WF_vars(q \in DOMAIN req /\ RequestStep(q))
    /\ \A i \in 0 .. Max({s.n : s \in Setups}) : WF_vars(i \in Endpoints(reg) /\ CooldownPasses(i))

FairSpec == Spec /\ Fairness

-----------------------------------------------------------------------------

\* An endpoint is healthy exactly when it has had ConsecutiveThreshold successes
\* since it was last marked, whoever did the marking: prober, requests and the
\* websocket client share the counts.  Only the primary has credit at the start.
HealthEarned ==
    \A i \in Endpoints(reg) :
        \/ i = 0 /\ pristine /\ reg.health[i].Healthy
        \/ reg.health[i].Healthy <=> reg.health[i].ConsecutiveSuccess >= reg.ConsecutiveThreshold

\* A request is lost only after it has failed on every endpoint, and it calls none
\* twice, although the health it ordered them by may change on the way.
RequestTriesAll ==
    \A q \in DOMAIN req :
        /\ req[q].pc = "lost" => req[q].failed = Endpoints(reg)
        /\ req[q].pc = "call" => req[q].at \notin req[q].failed

\* Once the endpoints are stable, the active one is and stays the reachable
\* endpoint of highest priority.
ActiveSettles ==
    <>[](quit \/ prober.pc = "off" \/ up = {} \/ reg.active = Min(up))

\* Once the endpoints are stable, the websocket client always comes back to reading
\* from one that can be reached, whatever switches close its connection.
ListensAgain ==
    []<>(kind = "http" \/ Stopping \/ up = {} \/ (ws.pc = "reading" /\ ws.conn \in up))

\* After Close or Unsubscribe the registry's goroutine ends, so that Stop returns;
\* the reader ends after Unsubscribe or the end of its context.
StopReturns ==
    /\ quit ~> prober.pc = "done"
    /\ Stopping /\ kind = "ws" ~> ws.pc = "stopped"

=============================================================================
