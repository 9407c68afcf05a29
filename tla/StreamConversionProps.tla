------------------------- MODULE StreamConversionProps -------------------------
(***************************************************************************)
(* What a converted stream promises its client and its handler.             *)
(***************************************************************************)
EXTENDS StreamConversion

Out == t.out
Of(type) == {i \in DOMAIN Out : Out[i].type = type}

\* The data of events, one after the other: those of these types (of any, for {}), of
\* this kind and, unless at is AnyIndex, with this index.
AnyIndex == -1
Speaks(e, types, kind, at) == (types = {} \/ e.type \in types) /\ e.kind = kind /\ at \in {AnyIndex, e.index}
Word(e, types, kind, at) == IF Speaks(e, types, kind, at) THEN e.data ELSE <<>>
Words(out, types, kind, at) == [i \in DOMAIN out |-> Word(out[i], types, kind, at)]
Text(out, types, kind, at) == FlattenSeq(Words(out, types, kind, at))
Wordy(out, types, kind, at) == \A e \in ToSet(out) : Speaks(e, types, kind, at) => e.data \in Seq(Nat)

\* Types of the variables; a source closes only what its upstream has completed.
TypeOK ==
    /\ source \in Sources /\ target \in Targets \ {source}
    /\ held \subseteq Kinds
    /\ Len(read) <= MaxFragments
    /\ \A i \in DOMAIN read : read[i] \in [kind : FragmentKinds, call : 0..MaxCalls]
    /\ \A i \in DOMAIN pending : pending[i] \in [kind : {"reasoning", "text", "tool", "finish", "done", "malformed"},
                                                index : 0..MaxFragments, call : 0..MaxCalls, data : Seq(0..MaxFragments)]
    /\ src \in {"running", "closing"} \cup Ended
    /\ src = "closing" => complete
    /\ tgt \in {"starting", "running"} \cup Ended
    /\ {complete, whole, terminal, gone, cancelled} \subseteq BOOLEAN
    /\ outcome \in {"none", "success", "streamError"}

\* What has gone out before an event.
TypesOf(past) == {e.type : e \in ToSet(past)}
Events(past, type) == {e \in ToSet(past) : e.type = type}
Count(past, type) == Cardinality({i \in DOMAIN past : past[i].type = type})
Indexes(past, type) == {e.index : e \in Events(past, type)}
Opened(past, e) == \E a \in Events(past, "added") : a.index = e.index /\ a.kind = e.kind
Before(i) == SubSeq(Out, 1, i - 1)

\* docs/01 2.1.4: every output item is opened, gets deltas and is finalized, once and
\* in that order, with an index of its own; what closes an item repeats all its
\* deltas, or gives {} for the arguments of a call whose deltas do not parse; the
\* terminal event closes the stream and repeats every item.
Ends == {"completed", "failed"}
Item(e) == [index |-> e.index, kind |-> e.kind, call |-> e.call, data |-> e.data]
Closed(kind, data) == IF kind = "call" THEN Salvage(data) ELSE data
ItemFits(past, e) ==
    /\ e.type = "created" <=> past = <<>>
    /\ Ends \cap TypesOf(past) = {}
    /\ e.type = "added" => e.index = Count(past, "added")
    /\ e.type \in {"delta", "done"} => Opened(past, e) /\ e.index \notin Indexes(past, "done")
    /\ e.type = "done" => e.data = Closed(e.kind, Text(past, {"delta"}, e.kind, e.index))
    /\ e.type \in Ends =>
        /\ Indexes(past, "done") = Indexes(past, "added")
        /\ ToSet(e.data) = {Item(d) : d \in Events(past, "done")}
ItemsWellFormed == target = "responses" => \A i \in DOMAIN Out : ItemFits(Before(i), Out[i])

\* Does the upstream keep the pieces of a call together?
Sequential ==
    \A i \in DOMAIN read : read[i].kind = "args" =>
        \E j \in 1..(i - 1) : /\ read[j] = Fragment("call", read[i].call)
                              /\ \A k \in (j + 1)..i : read[k].kind = "args"

\* Claude's blocks come one after another, with consecutive indexes: a delta goes to
\* the block that is open and is of its type, and the message stops with none open.
BlockFits(past, e) ==
    LET opened == Count(past, "added")
        closed == Count(past, "done")
    IN  /\ e.type = "created" <=> past = <<>>
        /\ "completed" \notin TypesOf(past)
        /\ e.type = "added" => opened = closed /\ e.index = opened
        /\ e.type \in {"delta", "done"} => opened = closed + 1 /\ e.index = closed /\ Opened(past, e)
        /\ e.type = "completed" => opened = closed
BlocksWellFormed == target = "messages" /\ Sequential => \A i \in DOMAIN Out : BlockFits(Before(i), Out[i])

Types == IF target = "chat" THEN {"text", "reasoning"} ELSE {"delta"}
Said(kind) == Text(Out, Types, kind, AnyIndex)

\* An upstream that keeps a kind for its snapshot has not sent it without one.
Withheld(kind) == source = "responses" /\ kind \in held /\ ~whole

\* Text reaches the client in the order it was sent, none of it twice, and all of it
\* when the handler reports success; so does reasoning where both protocols have it.
TextDelivered ==
    \A kind \in {"text", "reasoning"} :
        /\ IsPrefix(Said(kind), OfKind(read, kind))
        /\ outcome = "success" /\ (kind = "reasoning" => source # "messages" /\ target \in {"chat", "responses"})
            => Said(kind) = IF Withheld(kind) THEN <<>> ELSE OfKind(read, kind)

\* The events that announce a call to the client, and the arguments it gets for it.  A
\* chat client puts chunks together by their index.
Announced(out) ==
    IF target = "chat"
    THEN {i \in DOMAIN out : /\ out[i].type = "tool"
                             /\ \A j \in 1..(i - 1) : out[j].type = "tool" => out[j].index # out[i].index}
    ELSE {i \in DOMAIN out : out[i].type = "added" /\ out[i].kind = "call"}
CallsOut == Announced(Out)
Pieces == IF target = "chat" THEN {"tool"} ELSE {"delta"}
ArgsSeen(i) == Text(Out, Pieces, Out[i].kind, Out[i].index)

\* What was sent of a call; a Gemini call is one piece, and one in a snapshot parses.
CallsHeld == source = "responses" /\ "call" \in held
ArgsSent(sent, call) ==
    IF source = "generateContent" THEN <<CHOOSE i \in DOMAIN sent : sent[i] = Fragment("call", call)>>
    ELSE IF CallsHeld THEN Salvage(ArgsOf(sent, call))
    ELSE ArgsOf(sent, call)
\* Claude calls without a piece of arguments are not announced.
CallsSent(sent) == {c \in CallsIn(sent) : source = "messages" => ArgsSent(sent, c) # <<>>}

\* To Chat and Responses clients, and to Claude clients of upstreams that name a call
\* once, every tool call goes out once, with its own arguments in order, whatever
\* calls and text are interleaved with them.
CallsKept ==
    \/ target \in {"chat", "responses"}
    \/ target = "messages" /\ source \in {"chat", "generateContent"} /\ Sequential
CallsDelivered ==
    CallsKept =>
        /\ \A i, j \in CallsOut : Out[i].call = Out[j].call => i = j
        /\ \A i \in CallsOut :
            Out[i].call \in CallsSent(read) /\ IsPrefix(ArgsSeen(i), ArgsSent(read, Out[i].call))
        /\ outcome = "success" =>
            {[call |-> Out[i].call, args |-> ArgsSeen(i)] : i \in CallsOut}
              = {[call |-> c, args |-> ArgsSent(read, c)] :
                    c \in IF Withheld("call") THEN {} ELSE CallsSent(read)}

\* docs/16 0.6: success is reported, and a client told that its answer is complete,
\* only after the upstream has marked the end of its answer - by the terminal event of
\* its protocol or, which the sources accept from all but Claude upstreams, a [DONE] -
\* and not when its stream just ends, breaks or is cancelled.
ToldComplete == IF target = "chat" THEN Of("done") # {} ELSE Of("completed") # {}
SuccessIsComplete ==
    /\ outcome = "success" => complete /\ (target # "generateContent" => ToldComplete)
    /\ ToldComplete => complete /\ outcome # "streamError" /\ Of("failed") = {}

\* A Responses client of a stream that fails is told so, unless it has left.
FailureIsTold ==
    target = "responses" /\ outcome = "streamError" /\ ~gone => Of("failed") # {}

\* The two goroutines and the pipe come to an end, whichever of them fails first.
HandlerReturns == <>(outcome # "none")

-----------------------------------------------------------------------------
(* The inductive invariant behind SuccessIsComplete and FailureIsTold.      *)

IsSeq(s) == s \in Seq(ToSet(s))

IsTranslator(x) ==
    /\ DOMAIN x = {"active", "buffer", "next", "toolCalls", "finalOutput", "out"}
    /\ IsFiniteSet(DOMAIN x.toolCalls)
    /\ IsSeq(x.out)

\* Chunks of an answer, and those that end one.
Plain(chunks) ==
    /\ IsSeq(chunks)
    /\ \A c \in ToSet(chunks) : c.kind \in {"reasoning", "text", "tool", "malformed"}
Endings == {<<FinishChunk>>, <<DoneChunk>>, <<FinishChunk, DoneChunk>>}

Shape ==
    /\ source \in Protocols /\ target \in Protocols \ {source}
    /\ read \in Seq([kind : FragmentKinds, call : 0..MaxCalls])
    /\ src \in {"running", "closing"} \cup Ended
    /\ tgt \in {"starting", "running"} \cup Ended
    /\ outcome \in {"none", "success", "streamError"}
    /\ IsTranslator(t)

\* A source writes the end of an answer only after its upstream has sent its
\* own, and nothing after that.
SourceInv ==
    /\ whole => complete
    /\ Plain(pending) \/ (pending \in Endings /\ complete)
    /\ source = "chat" => src # "closing"
    /\ source # "chat" =>
        /\ pending \in Endings => src = "closing" /\ pending # <<FinishChunk>>
        /\ src \in Ended \/ (src = "closing" /\ Plain(pending)) => pending = <<>>
        /\ src \in {"closing", "ok"} => complete

\* A target that has ended well has taken the end of the answer, and only then
\* has it told its client of a completed one.
TargetInv ==
    target # "chat" =>
        /\ terminal \/ tgt = "ok" => complete
        /\ tgt = "ok" /\ source # "chat" => pending = <<>> /\ src \in {"closing", "ok"}
        /\ tgt = "ok" /\ target # "generateContent" => "completed" \in TypesOf(Out)
        /\ "completed" \in TypesOf(Out) => tgt = "ok"
        /\ "failed" \in TypesOf(Out) => tgt = "failed"
        /\ target = "responses" /\ tgt = "failed" /\ ~gone => "failed" \in TypesOf(Out)

\* So for the source of a Chat client, which has no target converter.
ChatClientInv ==
    target = "chat" =>
        /\ tgt = "running"
        /\ {"completed", "failed"} \cap TypesOf(Out) = {}
        /\ "done" \in TypesOf(Out) => complete /\ pending = <<>> /\ src \in {"closing", "ok"}
        /\ src = "ok" \/ (src = "closing" /\ pending = <<>>) => "done" \in TypesOf(Out)

\* The handler has reported what both ends came to.
OutcomeInv ==
    outcome # "none" =>
        /\ source # "chat" => src \in Ended
        /\ target # "chat" => tgt \in Ended
        /\ outcome = "streamError" <=>
            (source # "chat" /\ src = "failed") \/ (target # "chat" /\ tgt = "failed")

IInv == Shape /\ SourceInv /\ TargetInv /\ ChatClientInv /\ OutcomeInv

-----------------------------------------------------------------------------
(* The inductive invariant behind TextDelivered.                             *)

\* What the source has put into the pipe of a kind, and what is still in it.
Forwarded(kind) ==
    IF \/ source = "messages" /\ kind = "reasoning"
       \/ Withheld(kind)
    THEN <<>> ELSE OfKind(read, kind)
Piped(kind) == Text(pending, {}, kind, AnyIndex)

\* Nothing is lost on the way unless the client leaves or the target fails.
Carries(kind) == kind = "text" \/ target \in {"chat", "responses"}
Intact == IF target = "chat" THEN ~gone \/ "done" \in TypesOf(Out) ELSE tgt # "failed"

FlowInv(kind) ==
    /\ Wordy(Out, Types, kind, AnyIndex) /\ Wordy(pending, {}, kind, AnyIndex)
    /\ Intact /\ Carries(kind) => Said(kind) \o Piped(kind) = Forwarded(kind)
    /\ ~Carries(kind) => Said(kind) = <<>>
    /\ IsPrefix(Said(kind), OfKind(read, kind))

TextInv ==
    /\ IInv
    /\ tgt = "ok" => pending = <<>>
    /\ FlowInv("text") /\ FlowInv("reasoning")
-----------------------------------------------------------------------------
(* The inductive invariant behind TypeOK: how an answer is put together.     *)

\* Calls are numbered in the order they are opened, each once, and a piece of
\* arguments follows the opening of its call.
ReadInv ==
    /\ CallsIn(read) = 1..Cardinality(CallsIn(read))
    /\ Cardinality(CallsIn(read)) <= Len(read)
    /\ \A i \in DOMAIN read :
        /\ read[i].kind \in {"text", "reasoning"} <=> read[i].call = 0
        /\ read[i].kind = "args" => \E j \in 1..(i - 1) : read[j] = Fragment("call", read[i].call)
        /\ read[i].kind = "call" => \A j \in DOMAIN read : read[j] = read[i] => j = i

TypeInv == IInv /\ TypeOK /\ ReadInv

-----------------------------------------------------------------------------
(* The inductive invariant behind ItemsWellFormed: x is the translator while *)
(* it runs, whose fields are what its events tell of the items.              *)

\* The events so far, of which n open an item.
ItemEvents(out, n) ==
    /\ out # <<>>
    /\ \A i \in DOMAIN out : ItemFits(SubSeq(out, 1, i - 1), out[i])
    /\ Ends \cap TypesOf(out) = {}
    /\ n = Count(out, "added") /\ Indexes(out, "added") = 0..(n - 1)
    /\ Indexes(out, "delta") \cup Indexes(out, "done") \subseteq 0..(n - 1)
    /\ \A e \in Events(out, "delta") : e.data \in Seq(Nat)

\* An item that is open, with the deltas it has had.
OpenInItems(out, index, kind, data) ==
    /\ index \notin Indexes(out, "done")
    /\ \E a \in Events(out, "added") : a.index = index /\ a.kind = kind
    /\ data = Text(out, {"delta"}, kind, index)

ActiveItem(x) ==
    IF x.active = "" THEN x.buffer = <<>>
    ELSE /\ x.active \in {"text", "reasoning"}
         /\ OpenInItems(x.out, x.next - 1, x.active, x.buffer)
CallItems(x) ==
    /\ DOMAIN x.toolCalls \subseteq Nat
    /\ \A i \in DOMAIN x.toolCalls :
        LET tc == x.toolCalls[i]
        IN  /\ DOMAIN tc = {"index", "call", "args"}
            /\ OpenInItems(x.out, tc.index, "call", tc.args)
            /\ x.active # "" => tc.index # x.next - 1
    /\ \A i, j \in DOMAIN x.toolCalls : x.toolCalls[i].index = x.toolCalls[j].index => i = j

\* No item is forgotten.
OpenItems(x) ==
    (IF x.active = "" THEN {} ELSE {x.next - 1}) \cup {x.toolCalls[i].index : i \in DOMAIN x.toolCalls}
Accounted(x) ==
    /\ Indexes(x.out, "added") = Indexes(x.out, "done") \cup OpenItems(x)
    /\ IsSeq(x.finalOutput)
    /\ ToSet(x.finalOutput) = {Item(e) : e \in Events(x.out, "done")}

ItemsInv(x) == ItemEvents(x.out, x.next) /\ ActiveItem(x) /\ CallItems(x) /\ Accounted(x)

ItemsStreamInv ==
    /\ TypeInv
    /\ ItemsWellFormed
    /\ target = "responses" =>
        /\ tgt = "starting" => t = NewTranslator
        /\ tgt = "running" => ItemsInv(t)
-----------------------------------------------------------------------------
(* The inductive invariant behind BlocksWellFormed: active and next of the    *)
(* translator are the block that is open.                                    *)

BlocksInv(x) ==
    /\ x.out # <<>> /\ "completed" \notin TypesOf(x.out)
    /\ \A i \in DOMAIN x.out : BlockFits(SubSeq(x.out, 1, i - 1), x.out[i])
    /\ x.next = Count(x.out, "done")
    /\ IF x.active = "" THEN Count(x.out, "added") = x.next
       ELSE /\ x.active \in {"text", "call"}
            /\ Count(x.out, "added") = x.next + 1
            /\ \E a \in Events(x.out, "added") : a.index = x.next /\ a.kind = x.active

\* A Chat upstream names a call once: while its pieces come, its block is open or
\* about to be.  The other sources name the call in every chunk.
LastKind == read[Len(read)].kind
ChatPipe ==
    /\ tgt = "starting" => read = <<>>
    /\ \/ pending \in {<<>>, <<FinishChunk>>, <<DoneChunk>>, <<BadChunk>>}
       \/ read # <<>> /\ pending = ChatChunks(read)
CallIsOpen ==
    read # <<>> /\ LastKind \in {"call", "args"} =>
        t.active = "call" \/ (LastKind = "call" /\ pending = ChatChunks(read))
NamesItsCalls == \A c \in ToSet(pending) : c.kind = "tool" => c.call # 0

BlocksStreamInv ==
    /\ TypeInv
    /\ BlocksWellFormed
    /\ target = "messages" =>
        /\ tgt = "starting" => t = NewTranslator
        /\ IF source = "chat" THEN ChatPipe ELSE NamesItsCalls
        /\ tgt = "running" /\ Sequential =>
            BlocksInv(t) /\ (source = "chat" => CallIsOpen)
-----------------------------------------------------------------------------
(* The inductive invariant behind CallsDelivered: of each call in sent, what  *)
(* the client has heard of it in out, and what is in the pipe p for it.       *)

CallKind == IF target = "chat" THEN "tool" ELSE "call"
Heard(out, at) == Text(out, Pieces, CallKind, at)

\* No two announcements share a call or an index, and none says what was not sent.
CallsSafe(out, sent) ==
    /\ Wordy(out, Pieces, CallKind, AnyIndex)
    /\ \A i, j \in Announced(out) : out[i].call = out[j].call \/ out[i].index = out[j].index => i = j
    /\ \A i \in Announced(out) :
        /\ out[i].kind = CallKind /\ out[i].index \in Nat
        /\ out[i].call \in CallsSent(sent)
        /\ IsPrefix(Heard(out, out[i].index), ArgsSent(sent, out[i].call))

\* The index of the chunks of a call, the chunks with an index and their arguments.
CallIndex(sent, call) ==
    IF source \in {"chat", "generateContent"} \/ CallsHeld THEN call - 1 ELSE ItemIndex(sent, call)
ToolsAt(p, at) == {c \in ToSet(p) : c.kind = "tool" /\ c.index = at}
Piping(p, at) == Text(p, {}, "tool", at)
PipedCalls(p, sent) ==
    /\ Wordy(p, {}, "tool", AnyIndex)
    /\ \A c \in ToSet(p) : c.kind = "tool" =>
        \E call \in CallsSent(sent) : c.index = CallIndex(sent, call) /\ c.call \in {0, call}

\* What the source has forwarded of a call is what the client has heard of it and what
\* is in the pipe; the first chunk that the client gets of it has its name.
Awaited(done) == CallsHeld /\ ~done
CallFlow(out, p, sent, done, call) ==
    LET at == CallIndex(sent, call)
        forwarded == IF Awaited(done) THEN <<>> ELSE ArgsSent(sent, call)
    IN  /\ \A i \in Announced(out) : out[i].call = call => Heard(out, out[i].index) \o Piping(p, at) = forwarded
        /\ (\A i \in Announced(out) : out[i].call # call) =>
            /\ Piping(p, at) = forwarded
            /\ call \in CallsSent(sent) /\ ~Awaited(done) => ToolsAt(p, at) # {}
            /\ \A c \in ToolsAt(p, at) : c.call = call

\* How the target finds the announcement of a chunk's call: by the index of the chunk,
\* in toolCalls, or because its block is the open one.
ChatLink(out, sent) ==
    /\ \A i \in Announced(out) : out[i].index = CallIndex(sent, out[i].call)
    /\ \A e \in Events(out, "tool") : \E i \in Announced(out) : out[i].index = e.index
ResponsesLink(x, sent) ==
    /\ \A i \in Announced(x.out) :
        LET k == CallIndex(sent, x.out[i].call)
        IN  k \in DOMAIN x.toolCalls /\ x.toolCalls[k].index = x.out[i].index
    /\ \A k \in DOMAIN x.toolCalls : \E i \in Announced(x.out) : CallIndex(sent, x.out[i].call) = k

\* A Claude client gets the name of a call once.
NamedOnce(out, p) ==
    \A c \in ToSet(p) : c.kind = "tool" /\ c.call # 0 =>
        p = <<c>> /\ \A i \in Announced(out) : out[i].call # c.call
CallBlock(x, call) ==
    x.active = "call" /\ \E i \in Announced(x.out) : x.out[i].call = call /\ x.out[i].index = x.next
LastOf(sent) == sent[Len(sent)]
MessagesLink(x, p, sent) ==
    /\ Indexes(x.out, "added") \cup Indexes(x.out, "delta") \subseteq 0..(Count(x.out, "added") - 1)
    /\ source = "chat" /\ sent # <<>> /\ LastOf(sent).kind \in {"call", "args"} =>
        \/ CallBlock(x, LastOf(sent).call)
        \/ LastOf(sent).kind = "call" /\ p = ChatChunks(sent)
CallLink(x, p, sent, running) ==
    /\ target = "chat" => ChatLink(x.out, sent)
    /\ target = "responses" /\ running => ResponsesLink(x, sent)
    /\ target = "messages" => NamedOnce(x.out, p) /\ (running => MessagesLink(x, p, sent))

CallsInv ==
    CallsKept =>
        /\ CallsSafe(Out, read) /\ PipedCalls(pending, read)
        /\ Intact =>
            /\ CallLink(t, pending, read, tgt = "running")
            /\ \A call \in CallsIn(read) : CallFlow(Out, pending, read, whole, call)
        /\ Awaited(whole) => Announced(Out) = {} /\ \A c \in ToSet(pending) : c.kind # "tool"

CallsStreamInv == TextInv /\ ItemsStreamInv /\ BlocksStreamInv /\ CallsInv
===============================================================================
