-------------------------------- MODULE Fanout --------------------------------
(***************************************************************************)
(* One request sent to several keys of a channel at once                    *)
(* (internal/channel/fanout.go), from the launch of the workers to what the *)
(* client, the keys and the channel's health are told by the fanout branch  *)
(* of failoverLoop and the three forward functions.                         *)
(*                                                                          *)
(* The modes are Fanout with wait_all off ("first") and on ("all"), and     *)
(* FanoutStream ("stream").  Each worker is a goroutine, the caller         *)
(* collects what they put into the buffered channel "queue", and once there *)
(* is a winner another goroutine drains it.                                 *)
(***************************************************************************)
EXTENDS Naturals, Sequences, SequencesExt

CONSTANTS
    Worker,    \* the keys that may take part
    Modes,     \* bound: the modes explored
    Results,   \* bound: the results of the upstream calls explored
    NoOne,     \* no winner yet
    Nobody     \* all failed

FailureStatuses == {"badRequest", "unauthorized", "rateLimited", "clientError", "serverError"}

ASSUME FanoutAssumption ==
    /\ Modes \subseteq {"first", "all", "stream"}
    /\ Results \subseteq FailureStatuses \cup {"ok", "network"}
    /\ NoOne \notin Worker /\ Nobody \notin Worker /\ NoOne # Nobody

VARIABLES
    mode,
    workers,    \* the workers that GetN found a key for
    result,     \* what each worker's call ended with
    queue,      \* the results channel
    cancelled,  \* the workers whose context was cancelled
    gone,       \* the request's own context has ended
    pc,         \* the caller
    drain,      \* the draining goroutine
    collected,  \* wait_all: the results taken so far
    last, blame, bad,   \* lastStatus, affectsChannelHealth and badRequest
    winner,
    body,       \* the response body of each worker of a stream
    reports,    \* what the pool was told of each key
    replies,    \* what the client was sent
    told        \* what the channel's health was told

collecting == <<collected, last, blame, bad>>
vars == <<mode, workers, result, queue, cancelled, gone, pc, drain, collected, last, blame, bad,
          winner, body, reports, replies, told>>

Responded(w) == result[w] \notin {"none", "network", "canceled"}
Failed(w) == result[w] \in FailureStatuses \cup {"network"}

\* The last sender closes the channel (wg.Wait).
Closed == \A w \in workers : result[w] # "none"

\* normalizeFanoutStatus: the pool is told of a 400 as of a 429.
Normalized(r) == IF r = "badRequest" THEN "rateLimited" ELSE r

\* Mutant: a cancelled call is reported like a broken connection.
ReportedAsIfBroken(w) == [reports EXCEPT ![w] = Append(@, Normalized(result[w]))]

\* reportFanoutResult and its counterparts in FanoutStream: the error of a
\* cancelled call is not the key's.
Reported(w) ==
    IF result[w] = "canceled" THEN reports
    ELSE [reports EXCEPT ![w] = Append(@, Normalized(result[w]))]

\* fanoutResultAffectsChannelHealth
Blames(w) == result[w] \in {"network", "serverError"}

-----------------------------------------------------------------------------
(* The workers. *)

\* An upstream call ends, or is seen to have been cancelled.  A worker of a
\* stream keeps the response's body, and cancels its own context on an error.
Respond(w) ==
    /\ w \in workers
    /\ result[w] = "none"
    /\ \E r \in Results \cup (IF w \in cancelled \/ gone THEN {"canceled"} ELSE {}) :
          result' = [result EXCEPT ![w] = r]
    /\ queue' = Append(queue, w)
    /\ IF mode # "stream" THEN UNCHANGED <<body, cancelled>>
       ELSE IF result'[w] \in {"network", "canceled"}
       THEN cancelled' = cancelled \cup {w} /\ UNCHANGED body
       ELSE body' = [body EXCEPT ![w] = "open"] /\ UNCHANGED cancelled
    /\ UNCHANGED <<mode, workers, gone, pc, drain, collecting, winner, reports, replies, told>>

-----------------------------------------------------------------------------
(* The caller's loop over the results. *)

\* Mutants: no goroutine drains the losers; the winner is cancelled as well.
TakeWinnerUndrained(w) ==
    /\ winner' = w
    /\ pc' = "answer"
    /\ cancelled' = IF mode = "stream" THEN workers \ {w} ELSE workers
    /\ UNCHANGED drain

TakeWinnerCancellingAll(w) ==
    /\ winner' = w
    /\ pc' = "answer"
    /\ cancelled' = workers
    /\ drain' = "on"

\* The first good result ends the loop: the losers are cancelled and left to
\* the draining goroutine.  A stream's winner keeps its context.
TakeWinner(w) ==
    /\ winner' = w
    /\ pc' = "answer"
    /\ cancelled' = IF mode = "stream" THEN workers \ {w} ELSE workers
    /\ drain' = "on"

\* Any other result is reported and remembered.  A broken call of a stream
\* leaves lastStatus alone, elsewhere it makes it zero ("network" here).
TakeLoser(w) ==
    /\ reports' = Reported(w)
    /\ last' = IF Responded(w) THEN result[w] ELSE IF mode = "stream" THEN last ELSE "network"
    /\ blame' = (blame \/ Blames(w))
    /\ bad' = (bad \/ result[w] = "badRequest")
    /\ IF mode = "stream"
       THEN /\ body' = IF Responded(w) THEN [body EXCEPT ![w] = "closed"] ELSE body
            /\ cancelled' = cancelled \cup {w}
       ELSE UNCHANGED <<body, cancelled>>

Take ==
    /\ pc = "collect"
    /\ mode # "all"
    /\ queue # <<>>
    /\ queue' = Tail(queue)
    /\ LET w == Head(queue) IN
       \/ /\ result[w] = "ok"
          /\ TakeWinner(w)
          /\ reports' = IF mode = "first" THEN Reported(w) ELSE reports
          /\ UNCHANGED <<body, collecting>>
       \/ /\ result[w] # "ok"
          /\ TakeLoser(w)
          /\ UNCHANGED <<pc, winner, drain, collected>>
    /\ UNCHANGED <<mode, workers, result, gone, replies, told>>

\* Mutant: the caller gives up as soon as the channel is empty.
AllFailedEarly ==
    /\ pc = "collect"
    /\ mode # "all"
    /\ queue = <<>>
    /\ winner' = Nobody
    /\ pc' = "fail"
    /\ cancelled' = workers
    /\ UNCHANGED <<mode, workers, result, queue, gone, drain, collecting, body, reports, replies, told>>

\* The channel is closed and there was no winner.
AllFailed ==
    /\ pc = "collect"
    /\ mode # "all"
    /\ queue = <<>> /\ Closed
    /\ winner' = Nobody
    /\ pc' = "fail"
    /\ cancelled' = workers
    /\ UNCHANGED <<mode, workers, result, queue, gone, drain, collecting, body, reports, replies, told>>

Collect ==
    /\ pc = "collect"
    /\ mode = "all"
    /\ queue # <<>>
    /\ queue' = Tail(queue)
    /\ collected' = Append(collected, Head(queue))
    /\ UNCHANGED <<mode, workers, result, cancelled, gone, pc, drain, last, blame, bad, winner, body,
                   reports, replies, told>>

\* wait_all: the fastest good result wins (which one that is, is not modelled),
\* every result is reported, and without a winner the first 400 stands for all,
\* or the last status.
Choose ==
    /\ pc = "collect"
    /\ mode = "all"
    /\ queue = <<>> /\ Closed
    /\ LET good == {w \in ToSet(collected) : result[w] = "ok"} IN
       \/ good # {} /\ winner' \in good /\ pc' = "answer" /\ UNCHANGED <<last, blame, bad>>
       \/ /\ good = {}
          /\ winner' = Nobody
          /\ pc' = "fail"
          /\ bad' = (\E w \in ToSet(collected) : result[w] = "badRequest")
          /\ blame' = (\E w \in ToSet(collected) : Blames(w))
          /\ last' = IF collected # <<>> /\ Responded(Last(collected))
                     THEN result[Last(collected)] ELSE "network"
    /\ reports' = [w \in Worker |-> IF w \in ToSet(collected) THEN Reported(w)[w] ELSE reports[w]]
    /\ cancelled' = workers
    /\ UNCHANGED <<mode, workers, result, queue, gone, drain, collected, body, replies, told>>

-----------------------------------------------------------------------------
(* After the collection: the forward functions and failoverLoop. *)

\* Mutant: a 400 does not shield the channel.
BlamedInSpiteOfBadRequest == blame
Blamed == blame /\ ~bad

\* A 400 stands for all failures; it is no fault of the channel.  Without any
\* status the client is sent a 502 (normalizedTraversalStatus).
Fail ==
    /\ pc = "fail"
    /\ replies' = Append(replies, IF bad THEN "badRequest"
                                  ELSE IF last = "network" THEN "badGateway" ELSE last)
    /\ told' = IF Blamed THEN Append(told, "failure") ELSE told
    /\ pc' = "done"
    /\ UNCHANGED <<mode, workers, result, queue, cancelled, gone, drain, collecting, winner, body, reports>>

\* The answer is written, or could not be converted and an error is.
Answer ==
    /\ pc = "answer"
    /\ mode # "stream"
    /\ \/ replies' = Append(replies, "ok") /\ told' = Append(told, "success")
       \/ replies' = Append(replies, "localError") /\ UNCHANGED told
    /\ pc' = "done"
    /\ UNCHANGED <<mode, workers, result, queue, cancelled, gone, drain, collecting, winner, body, reports>>

Commit ==
    /\ pc = "answer"
    /\ mode = "stream"
    /\ replies' = Append(replies, "ok")
    /\ pc' = "pipe"
    /\ UNCHANGED <<mode, workers, result, queue, cancelled, gone, drain, collecting, winner, body,
                   reports, told>>

\* The stream has ended.  Closing the winner's body cancels its context.
PipeEnds ==
    /\ pc = "pipe"
    /\ \/ reports' = [reports EXCEPT ![winner] = Append(@, "ok")] /\ told' = Append(told, "success")
       \/ reports' = [reports EXCEPT ![winner] = Append(@, "streamBroken")] /\ UNCHANGED told
    /\ body' = [body EXCEPT ![winner] = "closed"]
    /\ cancelled' = cancelled \cup {winner}
    /\ pc' = "done"
    /\ UNCHANGED <<mode, workers, result, queue, gone, drain, collecting, winner, replies>>

-----------------------------------------------------------------------------
(* The draining goroutine, and the client. *)

\* drainFanoutResults, and the goroutine in FanoutStream, which closes what the
\* losers opened and says nothing of those that did well.
Drain ==
    /\ drain = "on"
    /\ queue # <<>>
    /\ queue' = Tail(queue)
    /\ LET w == Head(queue) IN
       /\ reports' = IF mode = "stream" /\ result[w] = "ok" THEN reports ELSE Reported(w)
       /\ body' = IF body[w] = "open" THEN [body EXCEPT ![w] = "closed"] ELSE body
       /\ cancelled' = cancelled \cup {w}
    /\ UNCHANGED <<mode, workers, result, gone, pc, drain, collecting, winner, replies, told>>

DrainEnds ==
    /\ drain = "on"
    /\ queue = <<>> /\ Closed
    /\ drain' = "done"
    /\ UNCHANGED <<mode, workers, result, queue, cancelled, gone, pc, collecting, winner, body,
                   reports, replies, told>>

\* The client goes away, or the server ends the context of a finished request.
ContextEnds ==
    /\ ~gone
    /\ gone' = TRUE
    /\ UNCHANGED <<mode, workers, result, queue, cancelled, pc, drain, collecting, winner, body,
                   reports, replies, told>>

-----------------------------------------------------------------------------
Init ==
    /\ mode \in Modes
    /\ workers \in SUBSET Worker
    /\ result = [w \in Worker |-> "none"]
    /\ queue = <<>>
    /\ cancelled = {}
    /\ gone = FALSE
    /\ pc = "collect"
    /\ drain = "off"
    /\ collected = <<>>
    /\ last = "network"
    /\ blame = FALSE
    /\ bad = FALSE
    /\ winner = NoOne
    /\ body = [w \in Worker |-> "none"]
    /\ reports = [w \in Worker |-> <<>>]
    /\ replies = <<>>
    /\ told = <<>>

Caller == Take \/ AllFailed \/ Collect \/ Choose \/ Fail \/ Answer \/ Commit \/ PipeEnds
Drainer == Drain \/ DrainEnds

Next == (\E w \in Worker : Respond(w)) \/ Caller \/ Drainer \/ ContextEnds

Spec == Init /\ [][Next]_vars

\* Upstream calls and streams end (the HTTP client has a timeout), goroutines run.
FairSpec ==
    Spec /\ WF_vars(Caller) /\ WF_vars(Drainer) /\ \A w \in Worker : WF_vars(Respond(w))
=============================================================================
