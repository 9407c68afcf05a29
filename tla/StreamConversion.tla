--------------------------- MODULE StreamConversion ---------------------------
(***************************************************************************)
(* pipeConvertedStream and streamFromChatSource (internal/proxy/stream.go): *)
(* the answer of an upstream is converted while it streams.  The source     *)
(* converter runs in a goroutine of its own and writes Chat chunks into an  *)
(* io.Pipe, where a write blocks until the reader has taken it; the target  *)
(* converter reads them and writes to the client.  For a Chat client the    *)
(* source writes to the client, for a Chat upstream the target reads the    *)
(* upstream.  200 is committed before the first byte.                       *)
(***************************************************************************)
EXTENDS StreamSources, StreamTargets

CONSTANTS
    Sources, Targets,   \* the protocols of the upstreams and of the clients
    MaxFragments,       \* bound: fragments of an answer
    MaxCalls            \* bound: tool calls of an answer

ASSUME StreamAssumption ==
    /\ Sources \subseteq Protocols
    /\ Targets \subseteq Protocols
    /\ MaxFragments \in Nat
    /\ MaxCalls \in Nat

VARIABLES
    source, target,
    held,       \* kinds of items a Responses upstream sends in its snapshot only
    read,       \* the fragments the upstream has sent
    complete,   \* the source's terminal flag; for a Chat upstream, what makes the target's
    whole,      \* has the upstream sent its protocol's terminal event?
    pending,    \* chunks that the source is writing, or the line of a Chat upstream
    src,        \* the source: running, closing (after the upstream's end), ok or failed
    t, tgt,     \* the target: its translator; starting, running, ok or failed
    terminal,   \* the target's terminal flag
    gone,       \* do writes to the client fail?
    cancelled,  \* ctx.Err() # nil
    outcome     \* what the handler reports: none yet, success or streamError

vars == <<source, target, held, read, complete, whole, pending, src, t, tgt, terminal, gone,
          cancelled, outcome>>
sourceVars == <<read, complete, whole, src>>
targetVars == <<t, tgt, terminal>>
fixed == <<source, target, held, gone, cancelled, outcome>>

Ended == {"ok", "failed"}
Kinds == {"reasoning", "text", "call"}

Init ==
    /\ source \in Sources
    /\ target \in Targets \ {source}
    /\ held \in (IF source = "responses" THEN SUBSET Kinds ELSE {{}})
    /\ read = <<>> /\ complete = FALSE /\ whole = FALSE
    /\ pending = <<>>
    /\ src = "running"
    /\ t = NewTranslator
    /\ tgt = IF target = "chat" THEN "running" ELSE "starting"
    /\ terminal = FALSE
    /\ gone = FALSE /\ cancelled = FALSE
    /\ outcome = "none"

------------------------------------------------------------------------------
(* The source, or for a Chat upstream the body that the target reads.       *)

\* External: what an upstream may send next.  Only Claude and Gemini keep the
\* pieces of a call together; Gemini sends a call whole, with arguments that parse.
LastItem(s) == SelectLastInSeq(s, LAMBDA f : f.kind # "args")
ArgsAllowed(call) ==
    \/ source \in {"chat", "responses"}
    \/ source = "messages" /\ read[LastItem(read)] = Fragment("call", call)
NextFragments ==
    {Fragment("text", 0), Fragment("reasoning", 0)}
    \cup {Fragment("call", c) : c \in
            {d \in {Cardinality(CallsIn(read)) + 1} \cap 1..MaxCalls :
                source = "generateContent" => <<Len(read) + 1>> \in Json}}
    \cup {Fragment("args", c) : c \in {d \in CallsIn(read) : ArgsAllowed(d)}}

MayRead ==
    /\ src = "running"
    /\ pending = <<>>
    /\ outcome = "none"
    /\ source = "chat" => tgt = "running"

ReadFragment ==
    /\ MayRead /\ ~cancelled /\ ~complete
    /\ Len(read) < MaxFragments
    /\ \E f \in NextFragments :
        /\ read' = Append(read, f)
        /\ pending' = FragmentChunks(source, read', held)
    /\ UNCHANGED <<complete, whole, src, targetVars, fixed>>

ReadTerminal ==
    /\ MayRead /\ ~cancelled /\ ~complete
    /\ complete' = TRUE /\ whole' = TRUE
    /\ pending' = TerminalChunks(source, read, held)
    /\ UNCHANGED <<read, src, targetVars, fixed>>

\* A [DONE], with a terminal event before it or without one.  It is a Chat line like
\* the others; a Responses or Gemini source leaves its loop, and the latter wants to
\* have seen a chunk, be it one without a fragment.  A Claude source cannot parse it.
ReadDone ==
    /\ MayRead /\ ~cancelled
    /\ \/ /\ source = "chat"
          /\ complete' = TRUE /\ pending' = <<DoneChunk>> /\ UNCHANGED src
       \/ /\ source \in {"responses", "generateContent"}
          /\ complete' = TRUE /\ pending' = ClosingChunks(source) /\ src' = "closing"
       \/ /\ source = "generateContent" /\ read = <<>> /\ ~complete
          /\ src' = "failed" /\ UNCHANGED <<complete, pending>>
    /\ UNCHANGED <<read, whole, targetVars, fixed>>

\* Mutant: any end of the stream is a good one.
ReadEndUnchecked ==
    /\ MayRead
    /\ src' = IF source = "chat" THEN "ok" ELSE "closing"
    /\ pending' = ClosingChunks(source)
    /\ UNCHANGED <<read, complete, whole, targetVars, fixed>>

\* The stream ends.  A source that has seen no terminal event fails; the end of a
\* Chat upstream is judged by the target.
ReadEnd ==
    /\ MayRead
    /\ src' = CASE source = "chat" -> "ok"
                [] source # "chat" /\ complete -> "closing"
                [] OTHER -> "failed"
    /\ pending' = IF complete THEN ClosingChunks(source) ELSE <<>>
    /\ UNCHANGED <<read, complete, whole, targetVars, fixed>>

\* The connection breaks, or a line comes after the context has ended.
ReadError ==
    /\ MayRead
    /\ src' = "failed"
    /\ UNCHANGED <<read, complete, whole, pending, targetVars, fixed>>

\* A line that does not parse, or an event that reports a failure.
ReadMalformed ==
    /\ MayRead /\ ~cancelled
    /\ IF source = "chat"
       THEN pending' = <<BadChunk>> /\ UNCHANGED src
       ELSE src' = "failed" /\ UNCHANGED pending
    /\ UNCHANGED <<read, complete, whole, targetVars, fixed>>

\* The last write has returned.
SourceReturns ==
    /\ src = "closing" /\ pending = <<>>
    /\ src' = "ok"
    /\ UNCHANGED <<read, complete, whole, pending, targetVars, fixed>>

\* Mutant: a target that fails leaves its end of the pipe open.
SinkLeftOpen == IF target = "chat" THEN gone ELSE tgt = "ok"

SinkClosed == IF target = "chat" THEN gone ELSE tgt \in Ended

\* A write finds its reader closed.  The Gemini source does not look at the
\* result of writing content, only at that of the last write.
SourceWriteFails ==
    /\ source # "chat" /\ pending # <<>> /\ SinkClosed
    /\ IF source = "generateContent" /\ Head(pending) # DoneChunk
       THEN pending' = Tail(pending) /\ UNCHANGED src
       ELSE pending' = <<>> /\ src' = "failed"
    /\ UNCHANGED <<read, complete, whole, targetVars, fixed>>

------------------------------------------------------------------------------
(* The target.                                                              *)

\* The step writes what new.out adds to t.out and leaves the target at result;
\* once the client is gone only a part of it is written, and the target fails.
Write(new, result) ==
    IF gone /\ new.out # t.out
    THEN /\ \E n \in Len(t.out)..(Len(new.out) - 1) : t' = [new EXCEPT !.out = SubSeq(@, 1, n)]
         /\ tgt' = "failed"
    ELSE t' = new /\ tgt' = result

TargetStarts ==
    /\ tgt = "starting"
    /\ Write(Begin(target, t), "running")
    /\ UNCHANGED <<sourceVars, pending, terminal, fixed>>

TakeChunk ==
    /\ target # "chat" /\ tgt = "running"
    /\ pending # <<>> /\ ~cancelled
    /\ LET c == Head(pending)
       IN  CASE c.kind = "done" -> Write(Complete(target, t), "ok") /\ UNCHANGED terminal
             [] c.kind = "malformed" -> Write(Abandon(target, t), "failed") /\ UNCHANGED terminal
             [] OTHER -> /\ Write(Process(target, t, c), "running")
                         /\ terminal' = (terminal \/ c.kind = "finish")
    /\ pending' = Tail(pending)
    /\ UNCHANGED <<sourceVars, fixed>>

TakeCancelled ==
    /\ target # "chat" /\ tgt = "running"
    /\ pending # <<>> /\ cancelled
    /\ Write(Abandon(target, t), "failed")
    /\ pending' = Tail(pending)
    /\ UNCHANGED <<sourceVars, terminal, fixed>>

\* Mutant: EOF is success.
TakeEndUnchecked ==
    /\ target # "chat" /\ tgt = "running"
    /\ pending = <<>> /\ src \in Ended
    /\ IF src = "ok"
       THEN Write(Complete(target, t), "ok")
       ELSE Write(Abandon(target, t), "failed")
    /\ UNCHANGED <<sourceVars, pending, terminal, fixed>>

\* The reader's end: the error the source closed the pipe with, or EOF.
TakeEnd ==
    /\ target # "chat" /\ tgt = "running"
    /\ pending = <<>> /\ src \in Ended
    /\ IF src = "ok" /\ terminal
       THEN Write(Complete(target, t), "ok")
       ELSE Write(Abandon(target, t), "failed")
    /\ UNCHANGED <<sourceVars, pending, terminal, fixed>>

\* A Chat client takes the chunk that the source writes.
DeliverChunk ==
    /\ target = "chat" /\ ~gone
    /\ pending # <<>>
    /\ t' = Process(target, t, Head(pending))
    /\ pending' = Tail(pending)
    /\ UNCHANGED <<sourceVars, tgt, terminal, fixed>>

------------------------------------------------------------------------------
(* The handler and its surroundings.                                        *)

\* The handler waits for both ends; one failure is a stream error.
Return ==
    /\ outcome = "none"
    /\ source = "chat" \/ src \in Ended
    /\ target = "chat" \/ tgt \in Ended
    /\ outcome' = IF (source # "chat" /\ src = "failed") \/ (target # "chat" /\ tgt = "failed")
                  THEN "streamError" ELSE "success"
    /\ UNCHANGED <<source, target, held, gone, cancelled, sourceVars, pending, targetVars>>

ClientLeaves ==
    /\ ~gone /\ outcome = "none"
    /\ gone' = TRUE
    /\ UNCHANGED <<source, target, held, cancelled, outcome, sourceVars, pending, targetVars>>

\* The client's or the channel's context ends.
Cancel ==
    /\ ~cancelled /\ outcome = "none"
    /\ cancelled' = TRUE
    /\ UNCHANGED <<source, target, held, gone, outcome, sourceVars, pending, targetVars>>

Reading == ReadFragment \/ ReadTerminal \/ ReadDone \/ ReadEnd \/ ReadError \/ ReadMalformed
Source == Reading \/ SourceReturns \/ SourceWriteFails
Target == TargetStarts \/ TakeChunk \/ TakeCancelled \/ TakeEnd \/ DeliverChunk

Next == Source \/ Target \/ Return \/ ClientLeaves \/ Cancel

Spec == Init /\ [][Next]_vars

\* Both goroutines run, the handler returns, and an upstream's stream goes on or ends.
FairSpec == Spec /\ WF_vars(Source) /\ WF_vars(Target) /\ WF_vars(Return)
===============================================================================
