------------------------------ MODULE FanoutProps ------------------------------
(***************************************************************************)
(* What a fanout promises.                                                  *)
(***************************************************************************)
EXTENDS Fanout, FiniteSets

AllResults == FailureStatuses \cup {"ok", "network", "canceled", "none"}

\* The variables keep the types of the Go values they stand for.
TypeOK ==
    /\ mode \in {"first", "all", "stream"}
    /\ workers \subseteq Worker
    /\ result \in [Worker -> AllResults]
    /\ queue \in Seq(workers)
    /\ cancelled \subseteq workers
    /\ gone \in BOOLEAN
    /\ pc \in {"collect", "fail", "answer", "pipe", "done"}
    /\ drain \in {"off", "on", "done"}
    /\ collected \in Seq(workers)
    /\ last \in FailureStatuses \cup {"network"}
    /\ blame \in BOOLEAN
    /\ bad \in BOOLEAN
    /\ winner \in workers \cup {NoOne, Nobody}
    /\ body \in [Worker -> {"none", "open", "closed"}]
    /\ reports \in [Worker -> Seq(AllResults \cup {"streamBroken"})]
    /\ replies \in Seq(AllResults \cup {"localError", "badGateway"})
    /\ told \in Seq({"success", "failure"})

\* The pool hears of each key at most once, whoever takes its result from the
\* channel, and never of a call that the fanout itself or the client cancelled
\* (reportFanoutResult, the loops and the draining goroutine of FanoutStream).
ReportedAtMostOnce ==
    \A w \in Worker :
        Len(reports[w]) <= (IF result[w] \in {"none", "canceled"} THEN 0 ELSE 1)

\* While the winner's stream is read nobody cancels its context or closes its
\* body: not the caller, not the draining goroutine.
WinnerUndisturbed ==
    (mode = "stream" /\ pc \in {"answer", "pipe"}) => winner \notin cancelled /\ body[winner] = "open"

\* docs/18 9: a failed fanout counts against the channel once, if and only if
\* some call met a 5xx or a broken connection and none a 400, in whatever
\* order the results arrived.
BlameMatchesOutages ==
    pc = "done" =>
        (told = <<"failure">>
         <=> /\ winner = Nobody
             /\ \E w \in workers : Blames(w)
             /\ \A w \in workers : result[w] # "badRequest")

\* In the end every call that failed on its own was reported, every body is
\* closed, every context released, no goroutine is left, and the client has had
\* one answer.
Settled ==
    /\ pc = "done"
    /\ Len(replies) = 1
    /\ drain # "on"
    /\ queue = <<>>
    /\ cancelled = workers
    /\ \A w \in Worker : body[w] # "open"
    /\ \A w \in workers : result[w] # "none" /\ (Failed(w) => reports[w] = <<Normalized(result[w])>>)

EverythingSettles == <>[]Settled

\* The fanout implements the race: the first good answer wins, and it fails
\* only when all have failed.
EndOf(w) ==
    IF w \notin workers THEN "bad"
    ELSE IF result[w] = "none" THEN "running"
    ELSE IF result[w] = "ok" THEN "well" ELSE "bad"

TheRace == INSTANCE Race WITH
    Contender <- Worker, ended <- [w \in Worker |-> EndOf(w)], answer <- winner

ImplementsRace == TheRace!RaceSpec

-----------------------------------------------------------------------------
(* The inductive invariant behind the theorems of FanoutProofs. *)

\* The caller has a winner only after the collection, and only then is drained.
PhaseInv ==
    /\ pc = "collect" => winner = NoOne /\ drain = "off"
    /\ pc \in {"answer", "pipe"} => winner \in workers /\ result[winner] = "ok"
    /\ pc = "pipe" => mode = "stream"
    /\ mode = "all" => drain = "off"
    /\ mode # "all" => collected = <<>>

\* Each worker sends once, and no good result is lost while there is no winner.
QueueInv ==
    /\ IsInjective(queue)
    /\ \A w \in ToSet(queue) \cup ToSet(collected) : result[w] # "none"
    /\ pc = "collect" =>
          \A w \in workers : result[w] = "ok" => w \in ToSet(queue) \cup ToSet(collected)

\* Results that are still to be reported, by the drainer, by Choose, or when the
\* winner's stream ends.
Waiting(w) ==
    \/ w \in ToSet(queue)
    \/ pc = "collect" /\ w \in ToSet(collected)
    \/ mode = "stream" /\ pc \in {"answer", "pipe"} /\ w = winner

ReportInv ==
    \A w \in Worker :
        Len(reports[w]) <= (IF result[w] \in {"none", "canceled"} \/ Waiting(w) THEN 0 ELSE 1)

\* A good response keeps its body and its context until it has lost.
StreamInv ==
    mode = "stream" =>
        /\ pc = "collect" =>
              /\ \A w \in workers : result[w] = "none" => w \notin cancelled
              /\ \A w \in ToSet(queue) :
                    result[w] = "ok" => body[w] = "open" /\ w \notin cancelled
        /\ pc \in {"answer", "pipe"} =>
              winner \notin ToSet(queue) /\ winner \notin cancelled /\ body[winner] = "open"

IInv == TypeOK /\ PhaseInv /\ QueueInv /\ ReportInv /\ StreamInv

-----------------------------------------------------------------------------
(* The inductive invariant behind BlameMatchesOutages. *)

\* The results the caller has seen.
Taken == {w \in workers : result[w] # "none" /\ w \notin ToSet(queue)}

\* blame and bad sum up the results of S.
SumUp(S) ==
    /\ blame <=> \E w \in S : Blames(w)
    /\ bad <=> \E w \in S : result[w] = "badRequest"

\* The caller's two flags follow the results it has taken, it fails only once
\* every worker has sent, and the channel's health is told of nothing before.
BlameInv ==
    /\ pc # "done" => told = <<>>
    /\ pc = "collect" => IF mode = "all" THEN Taken \subseteq ToSet(collected) ELSE SumUp(Taken)
    /\ pc = "fail" => winner = Nobody /\ SumUp(workers)
    /\ winner = Nobody => Closed
    /\ BlameMatchesOutages
=============================================================================
