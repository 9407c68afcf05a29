----------------------------- MODULE StreamSources -----------------------------
(***************************************************************************)
(* From an upstream's stream to Chat chunks: PipeResponsesStreamToChat,     *)
(* PipeClaudeStreamToChat and PipeGeminiStreamToChat.  A Chat upstream      *)
(* sends the chunks itself.  read is what the upstream has sent; each       *)
(* operator gives the chunks written for its last fragment.                 *)
(***************************************************************************)
EXTENDS ChatStream

\* External: how upstreams number the items (Responses) or content blocks
\* (Claude) of an answer.  A run of text or of reasoning is one item.
OpensItem(read, i) ==
    CASE read[i].kind = "call" -> TRUE
      [] read[i].kind = "args" -> FALSE
      [] OTHER -> i = 1 \/ read[i - 1].kind # read[i].kind
ItemIndex(read, call) ==
    LET opened == CHOOSE i \in DOMAIN read : read[i] = Fragment("call", call)
    IN  Cardinality({i \in 1..opened : OpensItem(read, i)}) - 1

\* External: a Chat upstream names a call in its first chunk only.
ChatChunks(read) ==
    LET n == Len(read)
        f == read[n]
    IN  CASE f.kind = "call" -> <<Chunk("tool", f.call - 1, f.call, <<>>)>>
          [] f.kind = "args" -> <<Chunk("tool", f.call - 1, 0, <<n>>)>>
          [] OTHER -> <<TextChunk(f.kind, <<n>>)>>

\* The index is the block's.  Thinking is not forwarded, and a call is heard of
\* only when a piece of its arguments comes.
ClaudeChunks(read) ==
    LET n == Len(read)
        f == read[n]
    IN  CASE f.kind = "text" -> <<TextChunk("text", <<n>>)>>
          [] f.kind = "args" -> <<Chunk("tool", ItemIndex(read, f.call), f.call, <<n>>)>>
          [] OTHER -> <<>>

\* A functionCall part is a whole call; its position stands for its arguments.
GeminiChunks(read) ==
    LET n == Len(read)
        f == read[n]
    IN  IF f.kind = "call"
        THEN <<Chunk("tool", Cardinality(CallsIn(read)) - 1, f.call, <<n>>)>>
        ELSE <<TextChunk(f.kind, <<n>>)>>

\* Every chunk of a call repeats its id and name.  Items of the held kinds come
\* with response.completed only.
Held(read, held, i) == (IF read[i].kind = "args" THEN "call" ELSE read[i].kind) \in held
ResponsesChunks(read, held) ==
    LET n == Len(read)
        f == read[n]
    IN  IF Held(read, held, n) THEN <<>>
        ELSE CASE f.kind = "call" -> <<Chunk("tool", ItemIndex(read, f.call), f.call, <<>>)>>
               [] f.kind = "args" -> <<Chunk("tool", ItemIndex(read, f.call), f.call, <<n>>)>>
               [] OTHER -> <<TextChunk(f.kind, <<n>>)>>

\* build: the calls of the message are those of the items, in their order.
MessageToolCalls(read) ==
    [c \in 1..Cardinality(CallsIn(read)) |-> [call |-> c, args |-> Salvage(ArgsOf(read, c))]]

\* response.completed: what no delta has brought yet is sent from the snapshot.
EmittedKind(read, held, kind) ==
    \E i \in DOMAIN read : read[i].kind = kind /\ ~Held(read, held, i)
EmittedToolCall(read, held, call) ==
    \E i \in DOMAIN read : read[i].call = call /\ ~Held(read, held, i)
\* Mutant: the snapshot's text is sent whatever the deltas have brought.
SnapshotTextAgain(read, held, kind) ==
    IF OfKind(read, kind) = <<>> THEN <<>> ELSE <<TextChunk(kind, OfKind(read, kind))>>

SnapshotText(read, held, kind) ==
    IF EmittedKind(read, held, kind) \/ OfKind(read, kind) = <<>> THEN <<>>
    ELSE <<TextChunk(kind, OfKind(read, kind))>>
SnapshotChunks(read, held) ==
    LET calls == MessageToolCalls(read)
        missing == Ascending({c \in DOMAIN calls : ~EmittedToolCall(read, held, c)})
    IN  SnapshotText(read, held, "reasoning") \o SnapshotText(read, held, "text") \o
        [k \in DOMAIN missing |->
            LET c == missing[k] IN Chunk("tool", c - 1, calls[c].call, calls[c].args)]

\* What a source writes for a fragment, for the upstream's terminal event and
\* after the end of the upstream's stream.
FragmentChunks(source, read, held) ==
    CASE source = "chat" -> ChatChunks(read)
      [] source = "messages" -> ClaudeChunks(read)
      [] source = "generateContent" -> GeminiChunks(read)
      [] source = "responses" -> ResponsesChunks(read, held)
TerminalChunks(source, read, held) ==
    CASE source = "chat" -> <<FinishChunk>>
      [] source = "responses" -> SnapshotChunks(read, held)
      [] OTHER -> <<>>
ClosingChunks(source) ==
    CASE source = "chat" -> <<>>
      [] source = "responses" -> <<FinishChunk, DoneChunk>>
      [] OTHER -> <<DoneChunk>>
================================================================================
