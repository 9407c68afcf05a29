------------------------------ MODULE Traversal ------------------------------
(***************************************************************************)
(* failoverLoop (internal/proxy/handler.go, traversal.go, retry.go): how a  *)
(* request visits the routes, the (channel, key) pairs, until one answers.  *)
(* Requests run concurrently and share the health of the channels, the      *)
(* state of the keys and the cached successful route of their model.        *)
(*                                                                          *)
(* The loop runs one dispatch per route (a RetryState with a forced key), so *)
(* the native, converted, streaming and non-streaming forward paths are one *)
(* state machine here: Attempt, Answer, Settle.  The fanout branch, taken   *)
(* only when failover is off, is not part of this module.                   *)
(*                                                                          *)
(* Of a key's state only its availability is kept, which is what            *)
(* NextExcluding and FindAvailable see (module KeyPool has the rest).  Time *)
(* is measured in ticks; every timer variable holds the ticks it has left.  *)
(***************************************************************************)
EXTENDS ChannelHealth, Sequences, SequencesExt

CONSTANTS
    Request,
    Route,          \* the (channel, key) pairs
    Candidates,     \* the channels of the model, in priority order
    Owner,          \* the channel of each route
    RotationRounds, \* retry.max_rotation_rounds of each channel
    RetryDelay,     \* retry.retry_delay_429_ms in ticks
    Failover,       \* failover.enabled
    Deadline,       \* may a channel's max_total_wait_ms pass before the request's?
    Fallback,       \* channels that serve the model by their default model
    Classes,        \* bound: the attempt results explored
    None            \* no route

\* classifyAttempt, and the two outcomes that come after a 2xx: a stream that
\* breaks once 200 is committed, and a local error that was written at once.
AttemptClasses ==
    {"success", "unauthorized", "rateLimited", "badRequest", "clientError", "serverError",
     "networkError", "streamBroken", "localError"}

ASSUME TraversalAssumption ==
    /\ Candidates \in Seq(ToSet(Candidates))
    /\ Candidates # <<>>
    /\ \A i, j \in DOMAIN Candidates : Candidates[i] = Candidates[j] => i = j
    /\ IsFiniteSet(Route)
    /\ IsFiniteSet(Request)
    /\ Owner \in [Route -> ToSet(Candidates)]
    /\ RotationRounds \in [ToSet(Candidates) -> Int]
    /\ RetryDelay \in Nat
    /\ Failover \in BOOLEAN
    /\ Deadline \in BOOLEAN
    /\ Fallback \subseteq ToSet(Candidates)
    /\ Classes \subseteq AttemptClasses
    /\ None \notin Route

VARIABLES
    health,     \* ch.health of each channel
    available,  \* the routes whose key is neither skipped nor paused
    cached,     \* successRoutes[model]
    pc,         \* where each request is in failoverLoop
    ctx,        \* traversalCtx.Err()
    eligible, preferred,              \* the request's snapshot
    round, pos, passAttempted, wait,  \* the loops; wait is earliestCooldown
    attempted, cooldown,              \* traversalChannelState, over its routes
    current, outcome,                 \* the attempt under way
    lastErr,
    replies,    \* what sendError or a response wrote to the client: code and status
    limited,    \* history: ticks left of the last 400 or 429's cooldown, per route
    dropped,    \* history: routes whose last cooldown a channel's deadline took away
    tries,      \* history: attempts per route
    outages,    \* history: per channel, the outages that upstreams answered with since
                \* the last success was reported, or were still unreported then
    steady      \* history: routes whose key was available ever since the request came

shared == <<health, available, cached>>
snapshot == <<eligible, preferred>>
loop == <<round, pos, passAttempted, wait>>
vars == <<health, available, cached, pc, ctx, eligible, preferred, round, pos, passAttempted, wait,
          attempted, cooldown, current, outcome, lastErr, replies, limited, dropped, tries, outages,
          steady>>

Channel == ToSet(Candidates)
NoWait == -1

\* newChannelTraversal: a number of rounds that is not positive means one.
RoundsOf(c) == IF RotationRounds[c] <= 0 THEN 1 ELSE RotationRounds[c]
MaxRounds(r) == Max({1} \cup {RoundsOf(c) : c \in ToSet(eligible[r])})

\* The history moves with every step.
Watch ==
    steady' = [r \in Request |->
        {p \in (IF pc[r] = "idle" THEN Route ELSE steady[r]) : p \in available'}]

-----------------------------------------------------------------------------
(* Errors and their statuses. *)

Limiting == {"rateLimited", "badRequest"}
Handled == {"streamBroken", "localError"}
\* Mutant: the 400 of a request counts against the channel.
AffectsHealthWithBadRequests == {"serverError", "networkError", "badRequest"}
AffectsHealth == {"serverError", "networkError"}
CountsOnKey == {"clientError", "networkError", "streamBroken"}

\* A FailoverError: its status, and RetryNext, which every class sets that goes
\* back to nextKey.
ErrorOf(o) ==
    CASE o = "unauthorized" -> [status |-> 401, retry |-> TRUE]
      [] o = "rateLimited"  -> [status |-> 429, retry |-> TRUE]
      [] o = "badRequest"   -> [status |-> 400, retry |-> TRUE]
      [] o = "serverError"  -> [status |-> 500, retry |-> TRUE]
      [] o = "networkError" -> [status |-> 0,   retry |-> TRUE]
      [] o = "clientError"  -> [status |-> 403, retry |-> FALSE]
      [] o = "deadline"     -> [status |-> 504, retry |-> FALSE]
      [] o = "canceled"     -> [status |-> 0,   retry |-> FALSE]

NoError == [status |-> -1, retry |-> FALSE]

\* Mutant: the status of the last attempt, whatever it was.
FinalStatusRaw(err) == IF err.status > 0 THEN err.status ELSE 502

\* normalizedTraversalStatus(err, true), and sendError for a zero status.
FinalStatus(err) ==
    CASE err.status > 0 /\ ~err.retry -> err.status
      [] err.status = 504 -> 504
      [] err.status = 0 -> 502
      [] OTHER -> 503

-----------------------------------------------------------------------------
(* Steps shared by the actions. *)

GoTo(r, label) == pc' = [pc EXCEPT ![r] = label]

\* code is the error code of sendError, "local" for those that a dispatch writes
\* itself, or "ok" for the status of a response.
Reply(r, code, status) ==
    replies' = [replies EXCEPT ![r] = Append(@, [code |-> code, status |-> status])]

\* no_conversion_path, convert_failed, convert_to_source_failed,
\* convert_from_source_failed and the rest.
LocalStatuses == {400, 500, 502, 503}

\* Mutant: the flag of the last pass is kept, so passes never end.
NewPassKeepingFlag(r) ==
    /\ pos' = [pos EXCEPT ![r] = 1]
    /\ wait' = [wait EXCEPT ![r] = NoWait]
    /\ UNCHANGED passAttempted
    /\ GoTo(r, "pass")

\* The top of a pass over the eligible channels.
NewPass(r) ==
    /\ pos' = [pos EXCEPT ![r] = 1]
    /\ passAttempted' = [passAttempted EXCEPT ![r] = FALSE]
    /\ wait' = [wait EXCEPT ![r] = NoWait]
    /\ GoTo(r, "pass")

\* Mutant: the route is not marked as attempted.
BeginUnmarked(r, p) ==
    /\ UNCHANGED attempted
    /\ current' = [current EXCEPT ![r] = p]
    /\ IF ctx[r] # "alive"
       THEN GoTo(r, "done") /\ UNCHANGED tries
       ELSE GoTo(r, "attempt") /\ tries' = [tries EXCEPT ![r][p] = @ + 1]

\* processAttempt's entry: a request whose context has ended stops here, with
\* nothing written.  pos is 0 for the attempt of the preferred route.
Begin(r, p) ==
    /\ attempted' = [attempted EXCEPT ![r] = @ \cup {p}]
    /\ current' = [current EXCEPT ![r] = p]
    /\ IF ctx[r] # "alive"
       THEN GoTo(r, "done") /\ UNCHANGED tries
       ELSE GoTo(r, "attempt") /\ tries' = [tries EXCEPT ![r][p] = @ + 1]

\* Mutants: a committed response does not stop the loops; a channel is used up
\* before the next one is visited.
ResumeAfterCommit(r) ==
    /\ IF pos[r] = 0 THEN GoTo(r, "round") /\ UNCHANGED pos
       ELSE GoTo(r, "pass") /\ pos' = [pos EXCEPT ![r] = @ + 1]
    /\ current' = [current EXCEPT ![r] = None]
    /\ outcome' = [outcome EXCEPT ![r] = "none"]

ResumeSameChannel(r) ==
    /\ IF outcome[r] \in Handled THEN GoTo(r, "done")
       ELSE IF pos[r] = 0 THEN GoTo(r, "round")
       ELSE GoTo(r, "pass")
    /\ current' = [current EXCEPT ![r] = None]
    /\ outcome' = [outcome EXCEPT ![r] = "none"]
    /\ UNCHANGED pos

\* The attempt is over and its locals are gone.  A handled one has answered the
\* client; the preferred one comes before round one.
Resume(r) ==
    /\ IF outcome[r] \in Handled THEN GoTo(r, "done") /\ UNCHANGED pos
       ELSE IF pos[r] = 0 THEN GoTo(r, "round") /\ UNCHANGED pos
       ELSE GoTo(r, "pass") /\ pos' = [pos EXCEPT ![r] = @ + 1]
    /\ current' = [current EXCEPT ![r] = None]
    /\ outcome' = [outcome EXCEPT ![r] = "none"]

-----------------------------------------------------------------------------
(* The start of a request. *)

\* ReorderCandidates: the balancer's choice first, the others in their order.
Reordered(i) == <<Candidates[i]>> \o RemoveAt(Candidates, i)

\* The candidate channels of the request: all of them, or with failover off the
\* cached route's channel if it is healthy, else the balancer's choice.
CandidateOrders ==
    IF Failover THEN {Reordered(i) : i \in DOMAIN Candidates}
    ELSE IF cached # None /\ IsHealthy(health[Owner[cached]]) THEN {<<Owner[cached]>>}
    ELSE {<<c>> : c \in Channel}

\* The loop over the ordered candidates that keeps the healthy ones.
Healthy(order) ==
    LET kept[n \in 0..Len(order)] ==
            IF n = 0 THEN <<>>
            ELSE IF IsHealthy(health[order[n]]) THEN Append(kept[n - 1], order[n])
            ELSE kept[n - 1]
    IN  kept[Len(order)]

\* The eligible channels are those healthy at this instant.
Receive(r) ==
    /\ pc[r] = "idle"
    /\ \E order \in CandidateOrders :
          LET healthy == Healthy(order) IN
          /\ eligible' = [eligible EXCEPT ![r] = healthy]
          /\ preferred' = [preferred EXCEPT ![r] =
                IF cached # None /\ (Failover \/ order = <<Owner[cached]>>) THEN cached ELSE None]
          /\ IF healthy = <<>>
             THEN GoTo(r, "done") /\ Reply(r, "no_healthy_channel", 503)
             ELSE GoTo(r, "preferred") /\ UNCHANGED replies
    /\ UNCHANGED <<shared, ctx, loop, attempted, cooldown, current, outcome, lastErr, limited,
                   dropped, tries, outages>>
    /\ Watch

\* selectPreferred: the cached route is tried once, before the first round, if
\* its channel is eligible and its key available; else it is forgotten.
SelectPreferred(r) ==
    /\ pc[r] = "preferred"
    /\ LET p == preferred[r] IN
       IF p = None
       THEN GoTo(r, "round") /\ UNCHANGED <<attempted, current, tries>>
       ELSE IF Owner[p] \in ToSet(eligible[r]) /\ p \in available
       THEN Begin(r, p)
       ELSE /\ current' = [current EXCEPT ![r] = p]
            /\ GoTo(r, "forget")
            /\ UNCHANGED <<attempted, tries>>
    /\ UNCHANGED <<shared, ctx, snapshot, loop, cooldown, outcome, lastErr, replies, limited,
                   dropped, outages>>
    /\ Watch

-----------------------------------------------------------------------------
(* The rounds. *)

\* The head of "for round := 1; ...".
StartRound(r) ==
    /\ pc[r] = "round"
    /\ IF round[r] <= MaxRounds(r) /\ ctx[r] = "alive"
       THEN NewPass(r)
       ELSE GoTo(r, "finish") /\ UNCHANGED <<pos, passAttempted, wait>>
    /\ UNCHANGED <<shared, ctx, snapshot, round, attempted, cooldown, current, outcome, lastErr,
                   replies, limited, dropped, tries, outages>>
    /\ Watch

\* The routes of channel c that selectKey offers NextExcluding.
Untried(r, c) == {p \in Route : Owner[p] = c /\ p \notin attempted[r]}

\* Mutant: the request's cooldowns are ignored.
SelectableWhileCooling(r, c) == {p \in Untried(r, c) : p \in available}

Selectable(r, c) == {p \in Untried(r, c) : cooldown[r][p] = 0 /\ p \in available}

\* One channel of a pass: at most one of its routes.  Without one, the earliest
\* cooldown among its untried routes counts for the wait.
VisitChannel(r) ==
    /\ pc[r] = "pass"
    /\ pos[r] <= Len(eligible[r])
    /\ round[r] <= RoundsOf(eligible[r][pos[r]])
    /\ LET c == eligible[r][pos[r]]
           cooling == {cooldown[r][p] : p \in Untried(r, c)} \ {0}
       IN  \/ /\ \E p \in Selectable(r, c) : Begin(r, p)
              /\ passAttempted' = [passAttempted EXCEPT ![r] = TRUE]
              /\ UNCHANGED <<pos, wait>>
           \/ /\ Selectable(r, c) = {}
              /\ wait' = [wait EXCEPT ![r] =
                    IF cooling = {} THEN @
                    ELSE IF @ = NoWait THEN Min(cooling) ELSE Min(cooling \cup {@})]
              /\ pos' = [pos EXCEPT ![r] = @ + 1]
              /\ UNCHANGED <<pc, passAttempted, attempted, current, tries>>
    /\ UNCHANGED <<shared, ctx, snapshot, round, cooldown, outcome, lastErr, replies, limited,
                   dropped, outages>>
    /\ Watch

\* A channel whose own number of rounds is used up is passed over.
PassOver(r) ==
    /\ pc[r] = "pass"
    /\ pos[r] <= Len(eligible[r])
    /\ round[r] > RoundsOf(eligible[r][pos[r]])
    /\ pos' = [pos EXCEPT ![r] = @ + 1]
    /\ UNCHANGED <<shared, pc, ctx, snapshot, round, passAttempted, wait, attempted, cooldown,
                   current, outcome, lastErr, replies, limited, dropped, tries, outages>>
    /\ Watch

\* Mutant: attempted is never emptied.
NextRoundKeeping(r) ==
    /\ round' = [round EXCEPT ![r] = @ + 1]
    /\ UNCHANGED attempted
    /\ GoTo(r, "round")

\* The end of a round; resetRound empties attempted except after the last one.
NextRound(r) ==
    /\ round' = [round EXCEPT ![r] = @ + 1]
    /\ attempted' = [attempted EXCEPT ![r] = IF round[r] < MaxRounds(r) THEN {} ELSE @]
    /\ GoTo(r, "round")

EndPass(r) ==
    /\ pc[r] = "pass"
    /\ pos[r] > Len(eligible[r])
    /\ \/ passAttempted[r] /\ NewPass(r) /\ UNCHANGED <<round, attempted>>
       \/ /\ ~passAttempted[r]
          /\ wait[r] # NoWait
          /\ GoTo(r, "wait")
          /\ UNCHANGED <<round, attempted, pos, passAttempted, wait>>
       \/ /\ ~passAttempted[r]
          /\ wait[r] = NoWait
          /\ NextRound(r)
          /\ UNCHANGED <<pos, passAttempted, wait>>
    /\ UNCHANGED <<shared, ctx, snapshot, cooldown, current, outcome, lastErr, replies, limited,
                   dropped, tries, outages>>
    /\ Watch

\* waitForTraversalCooldown: the timer, or the end of the context, whichever
\* the select takes.
WaitOver(r) ==
    /\ pc[r] = "wait"
    /\ \/ wait[r] = 0 /\ NewPass(r) /\ UNCHANGED <<round, attempted, lastErr>>
       \/ /\ ctx[r] # "alive"
          /\ lastErr' = [lastErr EXCEPT ![r] = ErrorOf("deadline")]
          /\ NextRound(r)
          /\ UNCHANGED <<pos, passAttempted, wait>>
    /\ UNCHANGED <<shared, ctx, snapshot, cooldown, current, outcome, replies, limited, dropped,
                   tries, outages>>
    /\ Watch

\* After the rounds: the context's error comes before the last attempt's.
Finish(r) ==
    /\ pc[r] = "finish"
    /\ Reply(r, "all_routes_failed",
             FinalStatus(IF ctx[r] = "alive" THEN lastErr[r] ELSE ErrorOf(ctx[r])))
    /\ GoTo(r, "done")
    /\ UNCHANGED <<shared, ctx, snapshot, loop, attempted, cooldown, current, outcome, lastErr,
                   limited, dropped, tries, outages>>
    /\ Watch

-----------------------------------------------------------------------------
(* One attempt: the forward paths with a forced key. *)

\* The report of the attempt: a 401 skips the key, an error that counts may
\* reach the threshold that pauses it, a success ends its pause but no skip.  A
\* local error comes before the attempt or after its success was reported.
KeyAfter(p, o) ==
    CASE o = "unauthorized" -> {available \ {p}}
      [] o \in CountsOnKey  -> {available, available \ {p}}
      [] o \in {"success", "localError"} -> {available, available \cup {p}}
      [] OTHER              -> {available}

\* What the histories take from the answer of an upstream.
Outage == {"serverError", "networkError"}
Hear(r, o) ==
    LET p == current[r] IN
    /\ limited' = IF o \in Limiting THEN [limited EXCEPT ![r][p] = RetryDelay] ELSE limited
    /\ dropped' = IF o \in Limiting THEN [dropped EXCEPT ![r] = @ \ {p}] ELSE dropped
    /\ outages' = IF o \in Outage THEN [outages EXCEPT ![Owner[p]] = @ + 1] ELSE outages

\* The requests that have an outage of channel c still to report.
Unreported(c) ==
    {r \in Request : pc[r] = "settle" /\ outcome[r] \in Outage /\ Owner[current[r]] = c}

\* Mutant: a local error is reported as handled but never written.
AnswerSilently(r, o) ==
    /\ pc[r] = "attempt"
    /\ outcome' = [outcome EXCEPT ![r] = o]
    /\ available' \in KeyAfter(current[r], o)
    /\ IF o \in {"success", "streamBroken"} THEN Reply(r, "ok", 200) ELSE UNCHANGED replies
    /\ Hear(r, o)
    /\ GoTo(r, "settle")
    /\ UNCHANGED <<health, cached, ctx, snapshot, loop, attempted, cooldown, current, lastErr, tries>>
    /\ Watch

\* The upstream call ends and the key hears of it.  A success, a stream that
\* was committed and a local error also write to the client.
Answer(r, o) ==
    /\ pc[r] = "attempt"
    /\ outcome' = [outcome EXCEPT ![r] = o]
    /\ available' \in KeyAfter(current[r], o)
    /\ IF o \in {"success", "streamBroken"} THEN Reply(r, "ok", 200)
       ELSE IF o = "localError" THEN \E status \in LocalStatuses : Reply(r, "local", status)
       ELSE UNCHANGED replies
    /\ Hear(r, o)
    /\ GoTo(r, "settle")
    /\ UNCHANGED <<health, cached, ctx, snapshot, loop, attempted, cooldown, current, lastErr, tries>>
    /\ Watch

\* The error of a context that has ended: the request's own, or the deadline of
\* the attempt (RetryState.withDeadline), which starts later than the request's
\* and is no longer when the request has one channel.
ContextErrors(r) ==
    IF ctx[r] # "alive" THEN {ctx[r]}
    ELSE IF Deadline /\ Len(eligible[r]) > 1 THEN {"deadline"}
    ELSE {}

\* The upstream call is interrupted; nothing is reported on the key.
Interrupt(r) ==
    /\ pc[r] = "attempt"
    /\ \E e \in ContextErrors(r) : outcome' = [outcome EXCEPT ![r] = e]
    /\ GoTo(r, "settle")
    /\ UNCHANGED <<shared, ctx, snapshot, loop, attempted, cooldown, current, lastErr, replies,
                   limited, dropped, tries, outages>>
    /\ Watch

\* processAttempt after a success.
SettleSuccess(r) ==
    /\ pc[r] = "settle"
    /\ outcome[r] = "success"
    /\ health' = [health EXCEPT ![Owner[current[r]]] = ReportSuccess(@)]
    /\ cached' = IF Owner[current[r]] \in Fallback THEN cached ELSE current[r]
    /\ GoTo(r, "done")
    /\ LET c == Owner[current[r]] IN
       outages' = [outages EXCEPT ![c] = Cardinality(Unreported(c))]
    /\ UNCHANGED <<available, ctx, snapshot, loop, attempted, cooldown, current, outcome, lastErr, replies,
                   limited, dropped, tries>>
    /\ Watch

\* processAttempt after a failure that another route may repair.
SettleFailure(r) ==
    /\ pc[r] = "settle"
    /\ outcome[r] \notin Handled \cup {"success"}
    /\ ErrorOf(outcome[r]).retry => ctx[r] = "alive"
    /\ cooldown' = [cooldown EXCEPT ![r][current[r]] =
          IF outcome[r] \in Limiting /\ limited[r][current[r]] > 0
          THEN limited[r][current[r]] ELSE @]
    /\ health' = IF outcome[r] \in AffectsHealth
                 THEN [health EXCEPT ![Owner[current[r]]] = ReportFailure(@)]
                 ELSE health
    /\ lastErr' = [lastErr EXCEPT ![r] = ErrorOf(outcome[r])]
    /\ GoTo(r, "forget")
    /\ UNCHANGED <<available, cached, ctx, snapshot, loop, attempted, current, outcome, replies,
                   limited, dropped, tries, outages>>
    /\ Watch

\* nextKey looks at the context before it makes the error of the attempt: when
\* it has ended, the cooldown and the blame on the channel are lost.
SettleEnded(r) ==
    /\ pc[r] = "settle"
    /\ outcome[r] \in AttemptClasses \ (Handled \cup {"success"})
    /\ ErrorOf(outcome[r]).retry
    /\ \E e \in ContextErrors(r) : lastErr' = [lastErr EXCEPT ![r] = ErrorOf(e)]
    /\ dropped' = IF outcome[r] \in Limiting THEN [dropped EXCEPT ![r] = @ \cup {current[r]}]
                  ELSE dropped
    /\ GoTo(r, "forget")
    /\ UNCHANGED <<shared, ctx, snapshot, loop, attempted, cooldown, current, outcome, replies,
                   limited, tries, outages>>
    /\ Watch

\* A handled error changes nothing but the cached route.
SettleHandled(r) ==
    /\ pc[r] = "settle"
    /\ outcome[r] \in Handled
    /\ GoTo(r, "forget")
    /\ UNCHANGED <<shared, ctx, snapshot, loop, attempted, cooldown, current, outcome, lastErr,
                   replies, limited, dropped, tries, outages>>
    /\ Watch

\* forgetSuccessfulRoute loads the cached route and compares it, then deletes
\* whatever is cached.
Forget(r) ==
    /\ pc[r] = "forget"
    /\ IF cached = current[r] THEN GoTo(r, "delete") /\ UNCHANGED <<pos, current, outcome>> ELSE Resume(r)
    /\ UNCHANGED <<shared, ctx, snapshot, round, passAttempted, wait, attempted, cooldown, lastErr,
                   replies, limited, dropped, tries, outages>>
    /\ Watch

Delete(r) ==
    /\ pc[r] = "delete"
    /\ cached' = None
    /\ Resume(r)
    /\ UNCHANGED <<health, available, ctx, snapshot, round, passAttempted, wait, attempted,
                   cooldown, lastErr, replies, limited, dropped, tries, outages>>
    /\ Watch

-----------------------------------------------------------------------------
(* The environment: the request's context, the pools' other users, time. *)

ContextEnds(r) ==
    /\ pc[r] \notin {"idle", "done"}
    /\ ctx[r] = "alive"
    /\ \E why \in {"deadline", "canceled"} : ctx' = [ctx EXCEPT ![r] = why]
    /\ UNCHANGED <<shared, pc, snapshot, loop, attempted, cooldown, current, outcome, lastErr,
                   replies, limited, dropped, tries, outages>>
    /\ Watch

\* Reports of other requests, operators and pauses that run out.
KeyChanges(p) ==
    /\ available' = IF p \in available THEN available \ {p} ELSE available \cup {p}
    /\ UNCHANGED <<health, cached, pc, ctx, snapshot, loop, attempted, cooldown, current, outcome,
                   lastErr, replies, limited, dropped, tries, outages>>
    /\ Watch

\* A cooldown that has run out is deleted (selectKey).
Down(n) == IF n > 0 THEN n - 1 ELSE n

Tick ==
    /\ health' = [c \in Channel |-> Recover(health[c])]
    /\ cooldown' = [r \in Request |-> [p \in Route |-> Down(cooldown[r][p])]]
    /\ limited' = [r \in Request |-> [p \in Route |-> Down(limited[r][p])]]
    /\ wait' = [r \in Request |-> Down(wait[r])]
    /\ <<health, cooldown, limited, wait>>' # <<health, cooldown, limited, wait>>
    /\ UNCHANGED <<available, cached, pc, ctx, snapshot, round, pos, passAttempted, attempted,
                   current, outcome, lastErr, replies, dropped, tries, outages>>
    /\ Watch

-----------------------------------------------------------------------------
Init ==
    /\ health = [c \in Channel |-> NewChannelHealth]
    /\ available = Route
    /\ cached \in {p \in Route : Owner[p] \notin Fallback} \cup {None}  \* by earlier requests
    /\ pc = [r \in Request |-> "idle"]
    /\ ctx = [r \in Request |-> "alive"]
    /\ eligible = [r \in Request |-> <<>>]
    /\ preferred = [r \in Request |-> None]
    /\ round = [r \in Request |-> 1]
    /\ pos = [r \in Request |-> 0]
    /\ passAttempted = [r \in Request |-> FALSE]
    /\ wait = [r \in Request |-> NoWait]
    /\ attempted = [r \in Request |-> {}]
    /\ cooldown = [r \in Request |-> [p \in Route |-> 0]]
    /\ current = [r \in Request |-> None]
    /\ outcome = [r \in Request |-> "none"]
    /\ lastErr = [r \in Request |-> NoError]
    /\ replies = [r \in Request |-> <<>>]
    /\ limited = [r \in Request |-> [p \in Route |-> 0]]
    /\ dropped = [r \in Request |-> {}]
    /\ tries = [r \in Request |-> [p \in Route |-> 0]]
    /\ outages = [c \in Channel |-> 0]
    /\ steady = [r \in Request |-> Route]

\* The steps of a request that is under way.
RequestStep(r) ==
    \/ SelectPreferred(r) \/ StartRound(r) \/ VisitChannel(r) \/ PassOver(r) \/ EndPass(r)
    \/ WaitOver(r) \/ Finish(r)
    \/ (\E o \in Classes : Answer(r, o)) \/ Interrupt(r)
    \/ SettleSuccess(r) \/ SettleFailure(r) \/ SettleEnded(r) \/ SettleHandled(r)
    \/ Forget(r) \/ Delete(r)

Next ==
    \/ \E r \in Request : Receive(r) \/ RequestStep(r) \/ ContextEnds(r)
    \/ \E p \in Route : KeyChanges(p)
    \/ Tick

Spec == Init /\ [][Next]_vars

\* A handler goroutine keeps running, an upstream call ends by the HTTP
\* client's own timeout, and timers fire.
FairSpec == Spec /\ WF_vars(Tick) /\ \A r \in Request : WF_vars(RequestStep(r))
=============================================================================
