---------------------------- MODULE GeminiMessages ----------------------------
(***************************************************************************)
(* Requests and answers between the Gemini and the Chat protocol            *)
(* (translate/gemini_convert.go).  A call has no id in this protocol: a     *)
(* result names the function, and the converter invents an id for each      *)
(* call it reads.                                                           *)
(***************************************************************************)
EXTENDS ChatMessages

\* kind: "text", "thought" (a text with thought set), "functionCall",
\* "functionResponse".
Part(kind, text, name, args) == [kind |-> kind, text |-> text, name |-> name, args |-> args]
TextPart(text) == Part("text", text, "", "")
ThoughtPart(text) == Part("thought", text, "", "")
CallPart(name, args) == Part("functionCall", <<>>, name, args)
ResponsePart(name, text) == Part("functionResponse", text, name, "")
Content(role, parts) == [role |-> role, parts |-> parts]

PartsOfKind(parts, kinds) ==
    SelectSeq(parts, LAMBDA p : p.kind \in kinds /\ (p.kind \in {"text", "thought"} => p.text # <<>>))
PartsText(parts) == FlattenSeq([i \in DOMAIN parts |-> parts[i].text])

\* "call_" + generateID(): ids is a sequence of ids nobody else uses.
InventCalls(parts, ids) ==
    LET calls == PartsOfKind(parts, {"functionCall"})
    IN  [i \in DOMAIN calls |-> Call(ids[i], calls[i].name, MarshalObject(calls[i].args))]

(***************************************************************************)
(* Chat -> Gemini                                                           *)
(***************************************************************************)
chatAssistantToGeminiContent(m) ==
    LET parts ==
          (IF m.reasoning.text = <<>> THEN <<>> ELSE <<ThoughtPart(m.reasoning.text)>>)
            \o (IF TextOf(m.content) = <<>> THEN <<>> ELSE <<TextPart(TextOf(m.content))>>)
            \o [i \in DOMAIN m.calls |-> CallPart(m.calls[i].name, ObjectOf(m.calls[i].args))]
    IN  Content("model", IF parts = <<>> THEN <<TextPart(<<>>)>> ELSE parts)

\* The result is named by the id of the call.
chatToolToGeminiContent(m) == Content("function", <<ResponsePart(m.id, TextOf(m.content))>>)

ContentsOf(m) ==
    CASE m.role = "user" -> <<Content("user", <<TextPart(TextOf(m.content))>>)>>
      [] m.role = "assistant" -> <<chatAssistantToGeminiContent(m)>>
      [] m.role = "tool" -> <<chatToolToGeminiContent(m)>>
      [] OTHER -> <<>>           \* system and developer are in system_instruction

MergeContent(merged, c) ==
    IF merged # <<>> /\ merged[Len(merged)].role = c.role
      THEN [merged EXCEPT ![Len(merged)].parts = @ \o c.parts]
      ELSE Append(merged, c)
mergeGeminiContents(contents) == FoldLeft(MergeContent, <<>>, contents)

ChatToGeminiRequest(chat) ==
    [system |-> SystemText(chat.messages),
     contents |-> mergeGeminiContents(
                    FlattenSeq([i \in DOMAIN chat.messages |-> ContentsOf(chat.messages[i])])),
     tools |-> FunctionTools(chat.tools)]

(***************************************************************************)
(* Gemini -> Chat: the text of a user content first, then its results.      *)
(***************************************************************************)
geminiContentToChatMessages(c, ids) ==
    LET texts == PartsOfKind(c.parts, {"text", "thought"})
        responses == PartsOfKind(c.parts, {"functionResponse"})
    IN  IF c.role = "model"
          THEN <<[Message("assistant", Str(PartsText(texts)))
                    EXCEPT !.calls = InventCalls(c.parts, ids)]>>
          ELSE (IF texts = <<>> THEN <<>> ELSE <<Message("user", Str(PartsText(texts)))>>)
                 \o [i \in DOMAIN responses |->
                       ToolMessage(responses[i].name, responses[i].text)]

\* ids[i]: the ids invented for the calls of content i.
GeminiToChatRequest(req, ids) ==
    [messages |->
        (IF req.system = <<>> THEN <<>> ELSE <<Message("system", Str(req.system))>>)
          \o FlattenSeq([i \in DOMAIN req.contents |->
               geminiContentToChatMessages(req.contents[i], ids[i])]),
     tools |-> req.tools]

(***************************************************************************)
(* Answers                                                                  *)
(***************************************************************************)
chatFinishToGeminiStop(reason) ==
    CASE reason = "length" -> "MAX_TOKENS"
      [] reason = "content_filter" -> "SAFETY"
      [] OTHER -> "STOP"
geminiStopToChatFinish(reason) ==
    CASE reason = "MAX_TOKENS" -> "length"
      [] reason \in {"SAFETY", "RECITATION"} -> "content_filter"
      [] OTHER -> "stop"

ChatToGeminiResponse(reply) ==
    [parts |->
        chatAssistantToGeminiContent([Message("assistant", Str(reply.text.text))
            EXCEPT !.reasoning = reply.reasoning, !.calls = reply.calls]).parts,
     finish |-> chatFinishToGeminiStop(reply.finish)]

\* Mutant: a thought counts as text.
ThoughtAsText(resp, ids) ==
    Reply(Str(PartsText(PartsOfKind(resp.parts, {"text", "thought"}))), Nil,
          InventCalls(resp.parts, ids), geminiStopToChatFinish(resp.finish))
GeminiToChatResponse(resp, ids) ==
    Reply(Str(PartsText(PartsOfKind(resp.parts, {"text"}))), Nil,
          InventCalls(resp.parts, ids), geminiStopToChatFinish(resp.finish))
===============================================================================
