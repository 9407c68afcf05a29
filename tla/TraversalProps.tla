---------------------------- MODULE TraversalProps ----------------------------
(***************************************************************************)
(* What the dispatch of a request promises.                                 *)
(***************************************************************************)
EXTENDS Traversal

\* docs/06 2, docs/18 5: a request attempts a route at most once per round, and
\* in no more rounds than its channel has, the preferred attempt included.
AtMostOncePerRound ==
    \A r \in Request, p \in Route :
        tries[r][p] <= round[r] /\ tries[r][p] <= RoundsOf(Owner[p])

\* docs/18 7: after a 400 or a 429 the request leaves the route alone until the
\* cooldown, counted from that answer, has run out - over passes, rounds and the
\* attempts of other routes.  The one way to lose a cooldown is that the deadline
\* of the attempt's channel passed before the answer was settled (nextKey).
CooldownRespected ==
    [][\A r \in Request, p \in Route :
          tries'[r][p] > tries[r][p] => limited[r][p] = 0 \/ p \in dropped[r]]_vars

\* docs/18 10: a client gets at most one response, and once anything has been
\* written to it no other route is attempted.
NoReplayAfterReply ==
    \A r \in Request :
        /\ Len(replies[r]) <= 1
        /\ pc[r] \in {"preferred", "round", "pass", "wait", "attempt"} => replies[r] = <<>>

\* handler.go:642: no channel monopolizes the retries.  In the first round two
\* more routes of one channel than of another are tried (the preferred one, which
\* may come before the passes, does not count for the first channel) only if the
\* other has no route left that stayed available.
TriedOf(r, c) == {p \in Route : Owner[p] = c /\ tries[r][p] > 0}

NoMonopoly ==
    \A r \in Request : round[r] = 1 =>
        \A c, d \in ToSet(eligible[r]) :
            Cardinality(TriedOf(r, c) \ {preferred[r]}) >= Cardinality(TriedOf(r, d)) + 2 =>
                \A p \in steady[r] : Owner[p] = d => tries[r][p] > 0

\* docs/18 1 and 5: a request whose context lives gives up only when every
\* route of its channels that stayed available was tried in every round.
GivesUpOnlyWhenExhausted ==
    \A r \in Request :
        (pc[r] = "finish" /\ ctx[r] = "alive") =>
            \A p \in steady[r] :
                Owner[p] \in ToSet(eligible[r]) => tries[r][p] = RoundsOf(Owner[p])

\* A request that ends while its context lives has been answered.
AnsweredWhileAlive ==
    \A r \in Request : (pc[r] = "done" /\ ctx[r] = "alive") => replies[r] # <<>>

\* docs/18 6: a request whose routes have all failed never shows the client the
\* fault of a single key, an upstream's 400, 401 or 429, as its status.  (The 400
\* of a request that cannot be converted is another: sendError writes it with a
\* code of its own.)
KeyFaults == {400, 401, 429}
NoKeyFaultShown ==
    \A r \in Request : \A i \in DOMAIN replies[r] :
        replies[r][i].code = "all_routes_failed" => replies[r][i].status \notin KeyFaults

\* docs/18 9: a channel is unhealthy only after FailureThreshold failures with
\* no success in between, whatever requests interleave.
UnhealthyOnlyByFailures ==
    \A c \in Channel : health[c].healthy <=> health[c].failures < FailureThreshold

\* docs/18 9: what counts against a channel are its own outages, 5xx and connection
\* errors, each at most once, and of those that came before a success only the ones
\* that were still on their way to be reported when it was: however late a request
\* settles its attempt, the channel is never blamed more often than that.
BlamedOnlyForOutages ==
    \A c \in Channel : health[c].failures + Cardinality(Unreported(c)) <= outages[c]

\* Every request ends.
EveryRequestEnds == \A r \in Request : pc[r] # "idle" ~> pc[r] = "done"

-----------------------------------------------------------------------------
\* docs/18:136 "timeouts return 504": a request that runs out of time is told.
TimeoutIsAnswered ==
    \A r \in Request : (pc[r] = "done" /\ ctx[r] = "deadline") => replies[r] # <<>>

-----------------------------------------------------------------------------
(* The inductive invariant behind the theorems of TraversalProofs.          *)

Pcs == {"idle", "preferred", "round", "pass", "wait", "attempt", "settle", "forget", "delete",
        "finish", "done"}
Outcomes == AttemptClasses \cup {"none", "deadline", "canceled"}
Errors == {NoError} \cup {ErrorOf(o) : o \in Outcomes \ (Handled \cup {"none", "success"})}
Timers == [Route -> Nat]
Codes == {"ok", "local", "no_healthy_channel", "all_routes_failed"}
Replies == Seq([code : Codes, status : Nat])

\* The variables keep the types of the Go values they stand for.
TypeOK ==
    /\ health \in [Channel -> Healths]
    /\ available \subseteq Route
    /\ cached \in Route \cup {None}
    /\ pc \in [Request -> Pcs]
    /\ ctx \in [Request -> {"alive", "deadline", "canceled"}]
    /\ eligible \in [Request -> Seq(Channel)]
    /\ preferred \in [Request -> Route \cup {None}]
    /\ round \in [Request -> Nat \ {0}]
    /\ pos \in [Request -> Nat]
    /\ passAttempted \in [Request -> BOOLEAN]
    /\ wait \in [Request -> Nat \cup {NoWait}]
    /\ attempted \in [Request -> SUBSET Route]
    /\ cooldown \in [Request -> Timers]
    /\ current \in [Request -> Route \cup {None}]
    /\ outcome \in [Request -> Outcomes]
    /\ lastErr \in [Request -> Errors]
    /\ replies \in [Request -> Replies]
    /\ limited \in [Request -> Timers]
    /\ dropped \in [Request -> SUBSET Route]
    /\ tries \in [Request -> Timers]
    /\ outages \in [Channel -> Nat]
    /\ steady \in [Request -> SUBSET Route]

\* What holds of each request.  Before the first attempt nothing has been tried;
\* during one there is a route, and a result only once it has ended.
Attempting == {"attempt", "settle", "forget", "delete"}
AttemptInv(r) ==
    /\ pc[r] \in {"idle", "preferred"} =>
          /\ pos[r] = 0 /\ round[r] = 1 /\ attempted[r] = {}
          /\ \A p \in Route : tries[r][p] = 0 /\ cooldown[r][p] = 0 /\ limited[r][p] = 0
    /\ pc[r] \in Attempting => current[r] \in Route
    /\ pc[r] = "settle" => outcome[r] # "none"
    /\ pc[r] \in {"forget", "delete"} => outcome[r] # "success"
    /\ pc[r] \notin {"settle", "forget", "delete", "done"} => outcome[r] = "none"
    /\ pc[r] \in {"pass", "wait"} => pos[r] > 0
    /\ pc[r] = "wait" => pos[r] > Len(eligible[r])

\* The client has been answered exactly by the results that answer it, and
\* never with the fault of a key.
AnsweredBy == Handled \cup {"success"}
RepliesInv(r) ==
    /\ Len(replies[r]) <= 1
    /\ pc[r] \notin {"settle", "forget", "delete", "done"} => replies[r] = <<>>
    /\ pc[r] \in {"settle", "forget", "delete"} =>
          (replies[r] # <<>> <=> outcome[r] \in AnsweredBy)
    /\ pc[r] = "done" /\ ctx[r] = "alive" => replies[r] # <<>>
    /\ \A i \in DOMAIN replies[r] :
          replies[r][i].code = "all_routes_failed" => replies[r][i].status \notin KeyFaults

\* A route has been tried once in each earlier round at most, and in this one
\* only if it is marked.
TriesInv(r) ==
    \A p \in Route :
        /\ tries[r][p] <= RoundsOf(Owner[p])
        /\ tries[r][p] <= round[r] - (IF p \in attempted[r] THEN 0 ELSE 1)

\* While the context lives, a route that stayed available has been tried in every
\* earlier round of its channel and, if marked, in this one; what a pass without
\* an attempt or a cooldown has visited is marked.  So nothing is owed at the end.
Owed(r) == {p \in steady[r] : Owner[p] \in ToSet(eligible[r])}
ExhaustInv(r) ==
    /\ steady[r] \subseteq available
    /\ pc[r] \notin {"idle", "finish", "done"} /\ ctx[r] = "alive" =>
          \A p \in Owed(r) :
              tries[r][p] >= IF round[r] > RoundsOf(Owner[p]) THEN RoundsOf(Owner[p])
                             ELSE IF p \in attempted[r] THEN round[r] ELSE round[r] - 1
    /\ pc[r] = "pass" /\ ~passAttempted[r] /\ wait[r] = NoWait =>
          \A i \in DOMAIN eligible[r], p \in steady[r] :
              i < pos[r] /\ Owner[p] = eligible[r][i] /\ round[r] <= RoundsOf(Owner[p])
                => p \in attempted[r]
    /\ pc[r] \in Attempting /\ pos[r] > 0 => passAttempted[r]
    /\ pc[r] = "finish" /\ ctx[r] = "alive" =>
          \A p \in Owed(r) : tries[r][p] = RoundsOf(Owner[p])

\* A mark, a result or a cooldown stands for an attempt; the passes start at the
\* first channel.
MarksInv(r) ==
    /\ IsInjective(eligible[r])
    /\ pc[r] \in {"attempt", "settle"} => tries[r][current[r]] > 0
    /\ \A p \in Route : cooldown[r][p] > 0 => tries[r][p] > 0
    /\ round[r] = 1 /\ pc[r] # "done" => \A p \in attempted[r] : tries[r][p] > 0
    /\ round[r] = 1 /\ pc[r] = "round" => pos[r] = 0

\* In the first round a channel is ahead of one that still has a route to try by
\* the visit of the current pass only.
Visited(r, c) ==
    \E i \in DOMAIN eligible[r] :
        /\ eligible[r][i] = c
        /\ i < pos[r] \/ (i = pos[r] /\ pc[r] \in Attempting)
Turn(r, c) == IF Visited(r, c) THEN 1 ELSE 0
HasMore(r, c) == \E p \in steady[r] : Owner[p] = c /\ tries[r][p] = 0
Ahead(r, c, d) == Cardinality(TriedOf(r, c) \ {preferred[r]}) - Cardinality(TriedOf(r, d))
SpreadInv(r) ==
    round[r] = 1 => \A c, d \in ToSet(eligible[r]) : HasMore(r, d) =>
        /\ Ahead(r, c, d) <= 1
        /\ pc[r] \notin {"finish", "done"} => Ahead(r, c, d) <= Turn(r, c) - Turn(r, d)

RequestInv(r) ==
    /\ AttemptInv(r) /\ RepliesInv(r) /\ TriesInv(r)
    /\ ExhaustInv(r) /\ MarksInv(r) /\ SpreadInv(r)

IInv == TypeOK /\ \A r \in Request : RequestInv(r)

\* A live request has noted every cooldown except that of the attempt it is about
\* to settle and those that it was never told of.
CoolingInv(r) ==
    \A p \in Route : ctx[r] = "alive" =>
        \/ limited[r][p] <= cooldown[r][p]
        \/ p \in dropped[r]
        \/ pc[r] = "settle" /\ current[r] = p /\ outcome[r] \in Limiting
=============================================================================
