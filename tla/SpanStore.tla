----------------------------- MODULE SpanStore ------------------------------
(***************************************************************************)
(* The store of spans (consensus/bor/span_store.go): lookups of the span a *)
(* block belongs to, and waits for a new producer, run concurrently with   *)
(* the loop that polls heimdall.  Heimdall, which appends spans and        *)
(* replaces the rest of a span by one with another producer, is external.  *)
(***************************************************************************)
EXTENDS Integers, FiniteSets, FiniteSetsExt, TLC

CONSTANTS Setups,              \* the callers, and the bounds on heimdall: spans it adds, calls
                               \* that fail, changes between catching up and in sync, producers
          zerothSpanEnd, defaultSpanLength,
          Producers, Target, Author,   \* what the waiters wait for
          None,                \* a nil pointer
          Lengths              \* how far a new span may extend the last

ASSUME SpanStoreAssumption ==
    /\ Lengths \subseteq 1 .. defaultSpanLength
    /\ zerothSpanEnd \in Nat /\ defaultSpanLength \in Nat \ {0}
    /\ Target \in Nat /\ Author \in Producers /\ None \notin Nat
    /\ \A s \in Setups : s.budget \in [adds : Nat, faults : Nat, lags : Nat, producers : SUBSET Producers]
                           /\ s.verifiers \cap s.waiters = {}

VARIABLES spans,      \* the spans of heimdall, by id
          tip,        \* the chain has at least this block
          catchingUp, \* heimdall is catching up
          budget,     \* what heimdall may still do: adds, faults, lags, and its producers
          latestSpanCache, lastUsedSpan, heimdallStatus,   \* the store: ids
          poll,       \* the poll loop
          call        \* the lookups under way

heimdall == <<spans, tip, catchingUp, budget>>
vars == <<heimdall, latestSpanCache, lastUsedSpan, heimdallStatus, poll, call>>

Callers == DOMAIN call
Waits(c) == call[c].waits
Latest == Max(DOMAIN spans)
Covers(id, b) == spans[id].StartBlock <= b /\ b <= spans[id].EndBlock

\* top: the latest span the lookup has heard of; expired: the context of the caller
\* has ended; failed: history, a call to heimdall failed during this lookup.
NewCall(b, waits) ==
    [pc |-> "sync", waits |-> waits, block |-> b, estimated |-> 0, id |-> 0, top |-> None, res |-> None,
     candidate |-> None, skipped |-> 0, failed |-> FALSE, expired |-> FALSE]

Init ==
    /\ spans = (0 :> [StartBlock |-> 0, EndBlock |-> zerothSpanEnd, producer |-> Author])
    /\ tip = 0
    /\ \E s \in Setups :
          /\ catchingUp \in {FALSE, s.budget.lags > 0}
          /\ budget = s.budget
          /\ call = [c \in s.verifiers \cup s.waiters |-> [NewCall(0, c \in s.waiters) EXCEPT !.pc = "idle"]]
    /\ latestSpanCache = None /\ lastUsedSpan = None /\ heimdallStatus = None
    /\ poll = [pc |-> "span", fetched |-> None]

-----------------------------------------------------------------------------
(* External: heimdall.                                                     *)

\* Once the chain has entered the last span, a new one extends it; or else, and as
\* long as the chain has not passed its end, a new one takes over the rest of it.
AddSpan ==
    /\ budget.adds > 0
    /\ budget' = [budget EXCEPT !.adds = @ - 1]
    /\ LET last == spans[Latest] IN
       \E p \in budget.producers :
          \/ \E n \in Lengths :
                /\ spans' = spans @@ (Latest + 1 :> [StartBlock |-> last.EndBlock + 1, producer |-> p,
                                                      EndBlock |-> last.EndBlock + n])
                /\ tip' = last.StartBlock
          \/ \E start \in (tip + 1) .. last.EndBlock :
                /\ spans' = spans @@ (Latest + 1 :> [last EXCEPT !.StartBlock = start, !.producer = p])
                /\ tip' = start - 1
    /\ UNCHANGED <<catchingUp, latestSpanCache, lastUsedSpan, heimdallStatus, poll, call>>

Lag ==
    /\ budget.lags > 0
    /\ budget' = [budget EXCEPT !.lags = @ - 1]
    /\ catchingUp' = ~catchingUp
    /\ UNCHANGED <<spans, tip, latestSpanCache, lastUsedSpan, heimdallStatus, poll, call>>

\* A call to heimdall answers, or fails.
Answers == UNCHANGED heimdall
Fails ==
    /\ budget.faults > 0
    /\ budget' = [budget EXCEPT !.faults = @ - 1]
    /\ UNCHANGED <<spans, tip, catchingUp>>

-----------------------------------------------------------------------------
(* The poll loop.                                                          *)

\* Mutant: a status is never replaced.
StatusKept(answered) ==
    heimdallStatus' = IF heimdallStatus # None THEN heimdallStatus
                      ELSE IF answered THEN IF catchingUp THEN "catching up" ELSE "synced" ELSE None

\* updateHeimdallStatus: an error clears the status.
UpdateHeimdallStatus(answered) ==
    heimdallStatus' = IF ~answered THEN None ELSE IF catchingUp THEN "catching up" ELSE "synced"

PollFetch ==
    /\ poll.pc = "span"
    /\ \/ Answers /\ poll' = [pc |-> "store", fetched |-> Latest]
       \/ Fails /\ poll' = [poll EXCEPT !.pc = "status"]
    /\ UNCHANGED <<latestSpanCache, lastUsedSpan, heimdallStatus, call>>

\* Mutant: the poll loop only fills an empty cache.
CacheFilled(id) == latestSpanCache' = IF latestSpanCache = None THEN id ELSE latestSpanCache

\* The end of updateLatestSpan.
StoreLatestSpan(id) == latestSpanCache' = id

PollStore ==
    /\ poll.pc = "store"
    /\ StoreLatestSpan(poll.fetched)
    /\ poll' = [pc |-> "status", fetched |-> None]
    /\ UNCHANGED <<heimdall, lastUsedSpan, heimdallStatus, call>>

PollStatus ==
    /\ poll.pc = "status"
    /\ \/ Answers /\ UpdateHeimdallStatus(TRUE)
       \/ Fails /\ UpdateHeimdallStatus(FALSE)
    /\ poll' = [poll EXCEPT !.pc = "span"]
    /\ UNCHANGED <<latestSpanCache, lastUsedSpan, call>>

Poll == PollFetch \/ PollStore \/ PollStatus

-----------------------------------------------------------------------------
(* spanByBlockNumber.                                                      *)

\* Mutant: rounded the wrong way at the end of a span.
SpansInRoundedUp(n) == 1 + n \div defaultSpanLength

\* How many spans n blocks take.
SpansIn(n) == 1 + (n - 1) \div defaultSpanLength

\* estimateSpanId: from the last span used, or else from the end of span 0.
EstimateSpanId(b) ==
    IF b <= zerothSpanEnd THEN 0
    ELSE IF lastUsedSpan = None THEN SpansIn(b - zerothSpanEnd)
    ELSE LET s == spans[lastUsedSpan] IN
         IF b > s.EndBlock THEN lastUsedSpan + SpansIn(b - s.EndBlock)
         ELSE IF b >= s.StartBlock THEN lastUsedSpan
         ELSE IF lastUsedSpan >= SpansIn(s.StartBlock - b) THEN lastUsedSpan - SpansIn(s.StartBlock - b)
         ELSE SpansIn(b - zerothSpanEnd)

Call(c, r) == call' = [call EXCEPT ![c] = r]

Begin(c) ==
    /\ call[c].pc = "idle" \/ (~Waits(c) /\ call[c].pc \in {"answer", "error"})
    /\ \E b \in IF Waits(c) THEN {Target} ELSE 0 .. spans[Latest].EndBlock + 1 :
          Call(c, NewCall(b, Waits(c)))
    /\ UNCHANGED <<heimdall, latestSpanCache, lastUsedSpan, heimdallStatus, poll>>

\* waitUntilHeimdallIsSynced lets the lookup go on, or asks for the status again.
Synced(c) ==
    /\ call[c].pc = "sync" /\ (heimdallStatus = "synced" \/ call[c].expired)
    /\ LET id == EstimateSpanId(call[c].block) IN
       Call(c, [call[c] EXCEPT !.pc = "known", !.id = id, !.estimated = id])
    /\ UNCHANGED <<heimdall, latestSpanCache, lastUsedSpan, heimdallStatus, poll>>

AskStatus(c) ==
    /\ call[c].pc = "sync" /\ heimdallStatus # "synced" /\ ~call[c].expired
    /\ \/ Answers /\ UpdateHeimdallStatus(TRUE)
       \/ Fails /\ UpdateHeimdallStatus(FALSE)
    /\ UNCHANGED <<latestSpanCache, lastUsedSpan, poll, call>>

\* spanById: the span is in the cache, or heimdall answers; or it is not, and heimdall
\* fails or does not know it.  The cache keeps ten spans: any of them may be there.
SpanById(c) == call[c].id \in DOMAIN spans /\ Answers

SpanByIdFails(c) == IF call[c].id \notin DOMAIN spans \/ call[c].expired THEN Answers ELSE Fails

\* The call returns: the newest candidate, and lastUsedSpan with it, or an error.
Return(c, r) ==
    LET span == IF r.candidate # None THEN r.candidate ELSE r.res IN
    /\ Call(c, [r EXCEPT !.pc = IF span = None THEN "error" ELSE "answer", !.res = span,
                         !.candidate = None, !.skipped = 0, !.id = 0, !.estimated = 0])
    /\ lastUsedSpan' = IF span = None THEN lastUsedSpan ELSE span

Failing(c) == [call[c] EXCEPT !.failed = @ \/ call[c].id \in DOMAIN spans]

\* The search from the estimated span downwards; then upwards from the estimated one.
SearchKnown(c) ==
    LET r == call[c]
        future == [r EXCEPT !.pc = "latest", !.id = r.estimated + 1, !.estimated = 0] IN
    /\ r.pc = "known"
    /\ \/ /\ SpanById(c)
          /\ \/ Covers(r.id, r.block) /\ Call(c, [future EXCEPT !.res = r.id]) /\ UNCHANGED lastUsedSpan
             \/ ~Covers(r.id, r.block) /\
                IF r.id = r.estimated /\ r.block > spans[r.id].EndBlock
                THEN Call(c, future) /\ UNCHANGED lastUsedSpan
                ELSE IF r.id = 0 THEN Return(c, r)
                ELSE Call(c, [r EXCEPT !.id = @ - 1]) /\ UNCHANGED lastUsedSpan
       \/ SpanByIdFails(c) /\ Return(c, [Failing(c) EXCEPT !.top = Latest])
    /\ UNCHANGED <<latestSpanCache, heimdallStatus, poll>>

\* getLatestSpan: the cached one, or else heimdall's, which is stored later.
GetLatestSpan(c) ==
    LET r == call[c] IN
    /\ r.pc = "latest"
    /\ \/ /\ latestSpanCache # None
          /\ Call(c, [r EXCEPT !.pc = "future", !.top = latestSpanCache])
          /\ Answers /\ UNCHANGED lastUsedSpan
       \/ /\ latestSpanCache = None /\ ~r.expired
          /\ Call(c, [r EXCEPT !.pc = "store", !.top = Latest])
          /\ Answers /\ UNCHANGED lastUsedSpan
       \/ /\ latestSpanCache = None
          /\ IF r.expired THEN Answers ELSE Fails
          /\ Return(c, [r EXCEPT !.failed = TRUE])
    /\ UNCHANGED <<latestSpanCache, heimdallStatus, poll>>

StoreFetched(c) ==
    /\ call[c].pc = "store"
    /\ StoreLatestSpan(call[c].top)
    /\ Call(c, [call[c] EXCEPT !.pc = "future"])
    /\ UNCHANGED <<heimdall, lastUsedSpan, heimdallStatus, poll>>

\* Mutant: the search ends at the first span that starts after the block.
SkipsEnough1(skipped) == skipped > 0

\* The search ends at the second span that starts after the block.
SkipsEnough(skipped) == skipped > 1

\* getFutureSpan, upwards to the latest span.
SearchFuture(c) ==
    LET r == call[c]
        starts == r.block < spans[r.id].StartBlock IN
    /\ r.pc = "future"
    /\ IF r.id > r.top THEN Return(c, r) /\ Answers
       ELSE \/ /\ SpanById(c)
               /\ \/ /\ Covers(r.id, r.block)
                     /\ Call(c, [r EXCEPT !.id = @ + 1, !.candidate = r.id, !.skipped = 0])
                     /\ UNCHANGED lastUsedSpan
                  \/ /\ ~Covers(r.id, r.block)
                     /\ IF starts /\ SkipsEnough(r.skipped + 1) THEN Return(c, r)
                        ELSE /\ Call(c, [r EXCEPT !.id = @ + 1, !.skipped = IF starts THEN @ + 1 ELSE @])
                             /\ UNCHANGED lastUsedSpan
            \/ SpanByIdFails(c) /\ Return(c, Failing(c))
    /\ UNCHANGED <<latestSpanCache, heimdallStatus, poll>>

Lookup(c) ==
    Synced(c) \/ AskStatus(c) \/ SearchKnown(c) \/ GetLatestSpan(c) \/ StoreFetched(c) \/ SearchFuture(c)

-----------------------------------------------------------------------------
(* waitForNewSpan.                                                         *)

Check(c) ==
    LET r == call[c] IN
    /\ Waits(c) /\ r.pc = "answer"
    /\ Call(c, IF Covers(r.res, Target) /\ spans[r.res].producer # Author THEN [r EXCEPT !.pc = "found"]
               ELSE IF r.expired THEN [r EXCEPT !.pc = "timeout"]
               ELSE NewCall(Target, TRUE))
    /\ UNCHANGED <<heimdall, latestSpanCache, lastUsedSpan, heimdallStatus, poll>>

Expire(c) ==
    /\ Waits(c) /\ call[c].pc \notin {"idle", "found", "timeout", "error"} /\ ~call[c].expired
    /\ Call(c, [call[c] EXCEPT !.expired = TRUE])
    /\ UNCHANGED <<heimdall, latestSpanCache, lastUsedSpan, heimdallStatus, poll>>

-----------------------------------------------------------------------------

Next ==
    \/ AddSpan \/ Lag
    \/ Poll
    \/ \E c \in Callers : Begin(c) \/ Lookup(c) \/ Check(c) \/ Expire(c)

Spec == Init /\ [][Next]_vars

\* Everyone there may be.
AllCallers == UNION {s.verifiers \cup s.waiters : s \in Setups}

\* The poll loop and the callers run.
FairSpec == Spec /\ WF_vars(Poll) /\ \A c \in AllCallers : WF_vars(c \in Callers /\ (Lookup(c) \/ Check(c)))

-----------------------------------------------------------------------------

\* spanByBlockNumber answers with a span that contains the block, and with the newest
\* such span among those it has heard of, unless a call to heimdall failed on the way:
\* wherever the last span used lies, and whatever was added while it searched.
AnswerNewest ==
    \A c \in Callers : call[c].pc = "answer" =>
        /\ Covers(call[c].res, call[c].block)
        /\ \A id \in DOMAIN spans :
              Covers(id, call[c].block) /\ ~call[c].failed /\ id <= call[c].top => id <= call[c].res

\* Without a failing call spanByBlockNumber fails only for a block no span it has heard
\* of contains: the estimate never overshoots the spans of heimdall.
ErrorJustified ==
    \A c \in Callers : call[c].pc = "error" /\ ~call[c].failed /\ ~call[c].expired =>
        \A id \in DOMAIN spans : id <= call[c].top => ~Covers(id, call[c].block)

\* A lookup ends once heimdall stays in sync.
LookupEnds ==
    \A c \in AllCallers :
        []<>(catchingUp \/ (c \in Callers => call[c].pc \in {"idle", "answer", "error", "found", "timeout"}))

\* The newest span of the target has another producer than the author.
Rotated ==
    \E id \in DOMAIN spans :
        /\ Covers(id, Target) /\ spans[id].producer # Author
        /\ \A j \in DOMAIN spans : Covers(j, Target) => j <= id

\* Once the span of the target is rotated for good, waitForNewSpan ends: the poll loop
\* brings it what it waits for.
NewProducerSeen ==
    \A c \in AllCallers :
        []<>(Rotated /\ ~catchingUp /\ c \in Callers /\ Waits(c)
                => call[c].pc \in {"idle", "found", "timeout", "error"})

=============================================================================
