----------------------------- MODULE StreamTargets -----------------------------
(***************************************************************************)
(* From Chat chunks to the client's events: StreamTranslator (Responses),   *)
(* processChatChunkToClaude and processChatChunkToGemini, as operators on   *)
(* the record t of the translator.  t.out is what it has written; a message *)
(* item and its part are opened and closed together.                        *)
(***************************************************************************)
EXTENDS ChatStream

\* activeKind/activeBuffer/outputIndex/toolCalls/finalOutput of streamState;
\* blockType/blockIndex of claudeStreamState are active and next.
NewTranslator ==
    [active |-> "", buffer |-> <<>>, next |-> 0, toolCalls |-> <<>>, finalOutput |-> <<>>,
     out |-> <<>>]

Event(type, index, kind, call, data) ==
    [type |-> type, index |-> index, kind |-> kind, call |-> call, data |-> data]
Emit(t, e) == [t EXCEPT !.out = Append(@, e)]

------------------------------------------------------------------------------
(* Responses: the active item is the last opened, until a tool call opens.  *)

ItemDone(t, index, kind, call, data) ==
    LET item == [index |-> index, kind |-> kind, call |-> call, data |-> data]
    IN  Emit([t EXCEPT !.finalOutput = Append(@, item)], Event("done", index, kind, call, data))

FinalizeActive(t) ==
    IF t.active = "" THEN t
    ELSE LET s == ItemDone(t, t.next - 1, t.active, 0, t.buffer)
         IN  [s EXCEPT !.active = "", !.buffer = <<>>]

\* openReasoning and openMessage.
OpenItem(t, kind) ==
    LET s == FinalizeActive(t)
    IN  Emit([s EXCEPT !.active = kind, !.next = @ + 1], Event("added", s.next, kind, 0, <<>>))

\* Mutant: the active item stays open.
OpenToolCallOver(t, index, call) ==
    LET tc == [index |-> t.next, call |-> call, args |-> <<>>]
    IN  Emit([t EXCEPT !.next = @ + 1,
                       !.toolCalls = [i \in DOMAIN @ \cup {index} |-> IF i = index THEN tc ELSE @[i]]],
             Event("added", t.next, "call", call, <<>>))

OpenToolCall(t, index, call) ==
    LET s == FinalizeActive(t)
        tc == [index |-> s.next, call |-> call, args |-> <<>>]
    IN  Emit([s EXCEPT !.next = @ + 1,
                       !.toolCalls = [i \in DOMAIN @ \cup {index} |-> IF i = index THEN tc ELSE @[i]]],
             Event("added", s.next, "call", call, <<>>))

\* One item after the other, in the order of the calls' indexes.  The arguments of a
\* call that was cut off are not JSON yet.
FinalizeToolCalls(t) ==
    LET order == Ascending(DOMAIN t.toolCalls)
        items == [k \in DOMAIN order |->
                    LET tc == t.toolCalls[order[k]]
                    IN  [index |-> tc.index, kind |-> "call", call |-> tc.call, data |-> Salvage(tc.args)]]
    IN  [t EXCEPT !.finalOutput = @ \o items,
                  !.out = @ \o [k \in DOMAIN items |->
                        Event("done", items[k].index, "call", items[k].call, items[k].data)]]

ResponsesText(t, c) ==
    LET s == IF t.active = c.kind THEN t ELSE OpenItem(t, c.kind)
    IN  Emit([s EXCEPT !.buffer = @ \o c.data], Event("delta", s.next - 1, c.kind, 0, c.data))

\* Mutant: a chunk that names its call opens it, as the Claude converter has it.
ResponsesToolByName(t, c) ==
    LET s == IF c.call # 0 THEN OpenToolCall(t, c.index, c.call) ELSE t
        tc == s.toolCalls[c.index]
    IN  IF c.data = <<>> THEN s
        ELSE Emit([s EXCEPT !.toolCalls[c.index].args = @ \o c.data],
                  Event("delta", tc.index, "call", tc.call, c.data))

ResponsesTool(t, c) ==
    LET s == IF c.index \in DOMAIN t.toolCalls THEN t ELSE OpenToolCall(t, c.index, c.call)
        tc == s.toolCalls[c.index]
    IN  IF c.data = <<>> THEN s
        ELSE Emit([s EXCEPT !.toolCalls[c.index].args = @ \o c.data],
                  Event("delta", tc.index, "call", tc.call, c.data))

ProcessChunk(t, c) ==
    CASE c.kind \in {"reasoning", "text"} -> ResponsesText(t, c)
      [] c.kind = "tool" -> ResponsesTool(t, c)
      [] OTHER -> t

\* Finish and FinishWithError: the terminal event carries the whole output.
Finish(t, status) ==
    LET s == FinalizeToolCalls(FinalizeActive(t))
    IN  Emit(s, Event(status, 0, "", 0, s.finalOutput))

------------------------------------------------------------------------------
(* Claude: one block is open at a time.                                     *)

CloseBlock(t) ==
    IF t.active = "" THEN t
    ELSE Emit([t EXCEPT !.active = "", !.next = @ + 1], Event("done", t.next, t.active, 0, <<>>))

\* Mutant: the block before is not stopped.
StartBlockOver(t, kind, call) ==
    Emit([t EXCEPT !.active = kind], Event("added", t.next, kind, call, <<>>))

StartBlock(t, kind, call) ==
    LET s == CloseBlock(t)
    IN  Emit([s EXCEPT !.active = kind], Event("added", s.next, kind, call, <<>>))

ProcessChatChunkToClaude(t, c) ==
    LET text == IF t.active = "text" THEN t ELSE StartBlock(t, "text", 0)
        call == IF c.call # 0 THEN StartBlock(t, "call", c.call) ELSE t
    IN  CASE c.kind = "text" -> Emit(text, Event("delta", text.next, "text", 0, c.data))
          [] c.kind = "tool" ->
                IF c.data = <<>> THEN call
                ELSE Emit(call, Event("delta", call.next, "call", 0, c.data))
          [] OTHER -> t

ClaudeStop(t) == Emit(CloseBlock(t), Event("completed", 0, "", 0, <<>>))

------------------------------------------------------------------------------
(* Gemini: text is written at once; calls and the finish reason are only    *)
(* gathered for the value returned, which pipeChatStreamToTarget drops.     *)

ProcessChatChunkToGemini(t, c) ==
    IF c.kind = "text" THEN Emit(t, Event("delta", 0, "text", 0, c.data)) ELSE t

------------------------------------------------------------------------------
(* The four targets alike.  A Chat client gets the chunks as they are.      *)

Begin(target, t) ==
    IF target \in {"responses", "messages"} THEN Emit(t, Event("created", 0, "", 0, <<>>)) ELSE t

Process(target, t, c) ==
    CASE target = "chat" -> Emit(t, Event(c.kind, c.index, c.kind, c.call, c.data))
      [] target = "responses" -> ProcessChunk(t, c)
      [] target = "messages" -> ProcessChatChunkToClaude(t, c)
      [] target = "generateContent" -> ProcessChatChunkToGemini(t, c)

Complete(target, t) ==
    CASE target = "responses" -> Finish(t, "completed")
      [] target = "messages" -> ClaudeStop(t)
      [] OTHER -> t

\* Mutant: an error just ends the stream.
AbandonSilently(target, t) == t

\* Only the Responses converter tells its client of an error.
Abandon(target, t) == IF target = "responses" THEN Finish(t, "failed") ELSE t
================================================================================
