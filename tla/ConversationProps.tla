--------------------------- MODULE ConversationProps ---------------------------
(***************************************************************************)
(* What the converted requests and answers of a conversation promise.  A    *)
(* property of the request is about the one that the client causes by       *)
(* sending what it has, at any point of the conversation.                   *)
(***************************************************************************)
EXTENDS Conversation

(***************************************************************************)
(* The upstream's view of a request                                         *)
(***************************************************************************)
\* Calls and results of one message of the request.
UpstreamMessages ==
    CASE source = "chat" -> convertChatToSource.messages
      [] source = "responses" -> convertChatToSource.items
      [] source = "messages" -> convertChatToSource.messages
      [] source = "generateContent" -> convertChatToSource.contents

OfBlocks(m, type) == SelectSeq(m.blocks, LAMBDA b : b.type = type)
CallsOf(m) ==
    CASE source = "chat" -> m.calls
      [] source = "responses" -> IF m.type = "function_call" THEN <<m.call>> ELSE <<>>
      [] source = "messages" ->
            LET uses == OfBlocks(m, "tool_use") IN [i \in DOMAIN uses |-> uses[i].call]
ResultsOf(m) ==
    CASE source = "chat" ->
            IF m.role = "tool" THEN <<[id |-> m.id, text |-> m.content.text]>> ELSE <<>>
      [] source = "responses" ->
            IF m.type = "function_call_output"
              THEN <<[id |-> m.call.id, text |-> m.content.text]>> ELSE <<>>
      [] source = "messages" ->
            LET results == OfBlocks(m, "tool_result")
            IN  [i \in DOMAIN results |-> [id |-> results[i].call.id, text |-> results[i].text]]
UserTextOf(m) ==
    CASE source = "chat" -> IF m.role = "user" THEN m.content.text ELSE <<>>
      [] source = "responses" -> IF m.type = "message" /\ m.role = "user" THEN m.content.text ELSE <<>>
      [] source = "messages" ->
            IF m.role = "user"
              THEN LET texts == OfBlocks(m, "text")
                   IN  FlattenSeq([i \in DOMAIN texts |-> texts[i].text])
              ELSE <<>>
      [] source = "generateContent" ->
            IF m.role = "user" THEN FlattenSeq([i \in DOMAIN m.parts |-> m.parts[i].text]) ELSE <<>>

Concat(Op(_), seq) == FlattenSeq([i \in DOMAIN seq |-> Op(seq[i])])
UserText == Concat(UserTextOf, UpstreamMessages)

\* The same of what the client wrote.
WordsOf(m) ==
    CASE client = "responses" -> IF m.type = "message" /\ m.role = "user" THEN m.content.text ELSE <<>>
      [] client = "chat" -> IF m.role = "user" THEN m.content.text ELSE <<>>
      [] client = "messages" ->
            IF m.role = "user"
              THEN LET texts == OfBlocks(m, "text")
                   IN  FlattenSeq([i \in DOMAIN texts |-> texts[i].text])
              ELSE <<>>
      [] client = "generateContent" -> IF m.role = "user" THEN m.parts[1].text ELSE <<>>
UserWords == Concat(WordsOf, history)

\* The calls the client knows of.
CallIds == UNION {CallsIn(history[i]) : i \in DOMAIN history} \ {NoId}
WithIds(protocol) == protocol # "generateContent"

(***************************************************************************)
(* Invariants                                                               *)
(***************************************************************************)
\* What may stand between a call and its result: results, and in a Responses
\* request the other calls.
Between(m) == ResultsOf(m) # <<>> \/ (source = "responses" /\ CallsOf(m) # <<>>)
\* Each result has its call before it and each call its result behind it.
ResultsBehindCalls(ms) ==
    \A i \in DOMAIN ms :
        /\ \A r \in ToSet(ResultsOf(ms[i])) : \E j \in 1..(i - 1) :
              /\ r.id \in IdsOf(CallsOf(ms[j]))
              /\ \A x \in (j + 1)..(i - 1) : Between(ms[x])
        /\ \A id \in IdsOf(CallsOf(ms[i])) : \E j \in (i + 1)..Len(ms) :
              /\ id \in IdsOf(ResultsOf(ms[j]))
              /\ \A x \in (i + 1)..(j - 1) : Between(ms[x])

\* Upstreams refuse a request in which a result has no call right before it or
\* a call has no result (req.go, removeOrphanToolMessages and
\* ensureToolCallsHaveOutputs).  Whatever a Responses client sends - results
\* late, missing, or of calls it has forgotten - the request is in order; that
\* of another client is when its own history is.
EveryCallAnswered ==
    LET orderly == ~forgot /\ CallIds = {g.id : g \in given}
    IN  WithIds(client) /\ WithIds(source) /\ (client = "responses" \/ orderly)
          => ResultsBehindCalls(UpstreamMessages)

\* A result given before anything else was said reaches the upstream once,
\* under the id of its call and behind that call, and no placeholder is there
\* instead of it.
ResultsArrive ==
    client \in {"chat", "responses"} /\ WithIds(source) =>
        LET results == Concat(ResultsOf, UpstreamMessages)
            calls == Concat(CallsOf, UpstreamMessages)
        IN  \A g \in given :
              /\ SelectSeq(results, LAMBDA r : r.id = g.id) = <<g>>
              /\ Len(SelectSeq(calls, LAMBDA c : c.id = g.id)) = 1

\* Claude and Gemini want the roles to alternate: no two messages in a row have
\* the same role, after system, empty and tool messages were taken out or
\* joined (claude_convert.go, ChatToClaudeRequest; gemini_convert.go).
RolesAlternate ==
    source \in {"messages", "generateContent"} =>
        LET ms == UpstreamMessages
        IN  \A i \in 1..(Len(ms) - 1) : ms[i].role # ms[i + 1].role

\* What the user says reaches the upstream in order, once, and nothing else
\* passes for the user's words - for all but the array contents that the
\* converters to and from Claude do not read.
UserIsHeard ==
    LET array(m) == CASE client = "chat" -> m.role = "user" /\ m.content.form = "parts"
                      [] client = "messages" -> m.form = "json"
                      [] OTHER -> FALSE
        strings == \A i \in DOMAIN history : ~array(history[i])
    IN  strings \/ (client = "chat" /\ source # "messages") => UserText = UserWords

\* An answer reaches the client whole: its calls in order, each once, with name,
\* arguments and (where both protocols have one) id; its text, of which a
\* Responses upstream's several texts leave one (RespToChat); and whether it was
\* cut short.
AnswerArrives ==
    \A i \in DOMAIN reply :
        LET a == reply[i].sent
            got == reply[i].got
            calls == CASE client = "chat" -> got.calls
                       [] client = "responses" ->
                            Concat(LAMBDA item : IF item.type = "function_call" THEN <<item.call>> ELSE <<>>,
                                   got.output)
                       [] client = "messages" ->
                            Concat(LAMBDA b : IF b.type = "tool_use" THEN <<b.call>> ELSE <<>>, got.content)
                       [] client = "generateContent" ->
                            Concat(LAMBDA p : IF p.kind = "functionCall"
                                               THEN <<Call(NoId, p.name, p.args)>> ELSE <<>>, got.parts)
            text == CASE client = "chat" -> got.text.text
                      [] client = "responses" ->
                            Concat(LAMBDA item : IF item.type = "message" THEN item.content.text ELSE <<>>,
                                   got.output)
                      [] client = "messages" ->
                            Concat(LAMBDA b : IF b.type = "text" THEN b.text ELSE <<>>, got.content)
                      [] client = "generateContent" ->
                            Concat(LAMBDA p : IF p.kind = "text" THEN p.text ELSE <<>>, got.parts)
            cut == CASE client = "chat" -> got.finish = "length"
                     [] client = "responses" -> got.incomplete
                     [] client = "messages" -> got.stop = "max_tokens"
                     [] client = "generateContent" -> got.finish = "MAX_TOKENS"
        IN  /\ Len(calls) = Len(a.calls)
            /\ \A k \in DOMAIN calls :
                  /\ calls[k].name = a.calls[k].name
                  /\ ObjectOf(calls[k].args) = ObjectOf(a.calls[k].args)
                  /\ WithIds(client) => calls[k].id = a.calls[k].id
            /\ IF source = "responses" /\ a.texts # <<>>
                 THEN text \in ToSet(a.texts) ELSE text = FlattenSeq(a.texts)
            /\ cut = a.cut

\* Every function that the client declares is offered to the upstream once, in
\* the order of the declarations: those inside a namespace too, and one that was
\* declared twice is not offered twice, which upstreams refuse (tools.go,
\* DedupeChatTools).
ToolsOffered ==
    LET Names(t) == CASE client # "responses" -> <<t.name>>
                      [] t.type \in {"function", "custom"} -> <<t.name>>
                      [] t.type = "local_shell" -> <<"shell">>
                      [] t.type = "namespace" -> [i \in DOMAIN t.inner |-> t.inner[i].name]
                      [] OTHER -> <<>>
        declared == Concat(Names, tools)
        offered == convertChatToSource.tools
        First == SelectSeq([i \in DOMAIN declared |-> i],
                     LAMBDA i : \A j \in 1..(i - 1) : declared[j] # declared[i])
    IN  [i \in DOMAIN offered |-> offered[i].name] = [i \in DOMAIN First |-> declared[First[i]]]

\* The documentation's conversation with tool results
\* (docs/08-接口测试指南.md, 3.4): the result of a tool that a client gives in
\* reply to a call reaches the upstream.
ToolResultsArrive ==
    WithIds(client) /\ WithIds(source) =>
        given \subseteq ToSet(Concat(ResultsOf, UpstreamMessages))
===============================================================================
