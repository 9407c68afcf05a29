--------------------------- MODULE ResponsesMessages ---------------------------
(***************************************************************************)
(* Requests and answers between the Responses and the Chat protocol         *)
(* (translate/req.go, resp.go, tools.go).                                   *)
(***************************************************************************)
EXTENDS ChatMessages

\* Input items.  An item has the fields of its type; the others are empty.
Item(type, role, content, call) ==
    [type |-> type, role |-> role, content |-> content, call |-> call]
NoCall == Call(NoId, "", "")
MessageItem(role, content) == Item("message", role, content, NoCall)
ReasoningItem(text) == Item("reasoning", "", Str(text), NoCall)
CallItem(call) == Item("function_call", "", Nil, call)
OutputItem(id, text) == Item("function_call_output", "", Str(text), Call(id, "", ""))

(***************************************************************************)
(* Responses -> Chat: the items of a turn are gathered into one assistant   *)
(* message, written when something else follows (assemblyState).            *)
(***************************************************************************)
NothingPending == [reasoning |-> Nil, calls |-> <<>>, text |-> Nil]

flushAssistant(st) ==
    LET p == st.pending
        content == IF p.text # Nil THEN p.text ELSE IF p.calls = <<>> THEN Pointer(<<>>) ELSE Nil
    IN  IF p = NothingPending
          THEN st
          ELSE [out |-> Append(st.out, [Message("assistant", content)
                                          EXCEPT !.calls = p.calls, !.reasoning = p.reasoning]),
                pending |-> NothingPending]

Write(st, message) == [flushAssistant(st) EXCEPT !.out = Append(@, message)]

\* developer is Chat's system; the typed text parts become one string.
messageItemToChat(item) ==
    Message(IF item.role = "developer" THEN "system" ELSE item.role, Str(item.content.text))

TakeMessage(st, item) ==
    IF item.role = "assistant"
      THEN [(IF st.pending.text # Nil THEN flushAssistant(st) ELSE st)
              EXCEPT !.pending.text = Pointer(item.content.text)]
      ELSE Write(st, messageItemToChat(item))

TakeReasoning(st, item) ==
    IF st.pending.calls # <<>> \/ st.pending.text # Nil
      THEN [st EXCEPT !.pending.reasoning = Str(@.text \o item.content.text)]
      ELSE [flushAssistant(st) EXCEPT !.pending.reasoning = Str(item.content.text)]

TakeCall(st, item) ==
    [st EXCEPT !.pending.calls =
        Append(@, [item.call EXCEPT !.args = SanitizeFunctionCallArguments(@)])]

TakeOutput(st, item) == Write(st, ToolMessage(item.call.id, item.content.text))

TakeItem(st, item) ==
    CASE item.type = "message" -> TakeMessage(st, item)
      [] item.type = "reasoning" -> TakeReasoning(st, item)
      [] item.type = "function_call" -> TakeCall(st, item)
      [] item.type = "function_call_output" -> TakeOutput(st, item)
      [] OTHER -> st

\* A result is kept when the last assistant message made the call and only
\* results came since.
KeepAnswers(st, m) ==
    CASE m.role = "assistant" -> [out |-> Append(st.out, m), valid |-> IdsOf(m.calls)]
      [] m.role = "tool" -> IF m.id \in st.valid THEN [st EXCEPT !.out = Append(@, m)] ELSE st
      [] OTHER -> [out |-> Append(st.out, m), valid |-> {}]
\* Mutant: a result is kept when any earlier assistant message made the call.
KeepLateAnswers(messages) ==
    LET made == UNION {IdsOf(messages[i].calls) : i \in DOMAIN messages}
    IN  SelectSeq(messages, LAMBDA m : m.role = "tool" => m.id \in made)
removeOrphanToolMessages(messages) ==
    FoldLeft(KeepAnswers, [out |-> <<>>, valid |-> {}], messages).out

MissingOutput == <<"tool output missing">>
\* Each message with the results behind it, and a placeholder for each call
\* that has none there.  (No result comes first: orphans are gone.)
ensureToolCallsHaveOutputs(messages) ==
    LET n == Len(messages)
        End(i) == CHOOSE j \in i..n :
                      /\ \A x \in (i + 1)..j : messages[x].role = "tool"
                      /\ j = n \/ messages[j + 1].role # "tool"
        missing(i) == SelectSeq(messages[i].calls,
                        LAMBDA c : \A x \in (i + 1)..End(i) : messages[x].id # c.id)
        Group(i) == SubSeq(messages, i, End(i))
                      \o [x \in DOMAIN missing(i) |-> ToolMessage(missing(i)[x].id, MissingOutput)]
    IN  FlattenSeq([i \in 1..n |-> IF messages[i].role = "tool" THEN <<>> ELSE Group(i)])

GatheredMessages(items) ==
    flushAssistant(FoldLeft(TakeItem, [out |-> <<>>, pending |-> NothingPending], items)).out

inputItemsToMessages(items) ==
    ensureToolCallsHaveOutputs(removeOrphanToolMessages(GatheredMessages(items)))

(***************************************************************************)
(* Tools.  A namespace holds tools that are no namespaces.                  *)
(***************************************************************************)
Tool(type, name, inner) == [type |-> type, name |-> name, inner |-> inner]
PlainToolToChat(t) ==
    CASE t.type \in {"function", "custom"} /\ t.name # "" -> <<ChatTool("function", t.name)>>
      [] t.type = "local_shell" -> <<ChatTool("function", "shell")>>
      [] t.type = "tool_search" -> <<ChatTool("function", "tool_search")>>
      [] OTHER -> <<>>           \* mcp, server side tools, web search not enabled
ToolToChat(t) ==
    IF t.type = "namespace"
      THEN FlattenSeq([i \in DOMAIN t.inner |-> PlainToolToChat(t.inner[i])])
      ELSE PlainToolToChat(t)

\* Mutant: a name declared twice is offered twice.
KeepAllTools(tools) == tools
DedupeChatTools(tools) ==
    FoldLeft(LAMBDA kept, t : IF Contains(kept, t) THEN kept ELSE Append(kept, t), <<>>, tools)

ConnectorNote == <<"connectors are not available">>
\* An mcp tool of the model is a connector: it has a connector_id.
HasConnector(tools) == \E i \in DOMAIN tools : tools[i].type = "mcp"

(***************************************************************************)
(* Requests.  req: instructions (text), items, tools.  A string as input is  *)
(* the same as one user message.                                            *)
(***************************************************************************)
ReasoningPlaceholder == Str(<<"this turn ran without thinking mode">>)
WithReasoning(m) ==
    IF m.role = "assistant" /\ m.reasoning = Nil
      THEN [m EXCEPT !.reasoning = ReasoningPlaceholder] ELSE m

ReqToChat(req) ==
    LET system == IF req.instructions = <<>> THEN <<>> ELSE <<Message("system", Str(req.instructions))>>
        note == IF HasConnector(req.tools) THEN <<Message("system", Str(ConnectorNote))>> ELSE <<>>
        messages == system \o note \o inputItemsToMessages(req.items)
        tools == FlattenSeq([i \in DOMAIN req.tools |-> ToolToChat(req.tools[i])])
    IN  [messages |-> [i \in DOMAIN messages |-> WithReasoning(messages[i])],
         tools |-> DedupeChatTools(tools)]

\* One Chat message as input items.  An assistant content that is no string
\* leaves an item without content; a developer message leaves nothing.
ItemsOf(m) ==
    CASE m.role = "user" -> <<MessageItem("user", m.content)>>
      [] m.role = "assistant" ->
            (IF m.reasoning.text = <<>> THEN <<>> ELSE <<ReasoningItem(m.reasoning.text)>>)
              \o (IF m.content = Nil THEN <<>>
                  ELSE <<MessageItem("assistant", IF m.content.form = "string" THEN m.content ELSE Nil)>>)
              \o [i \in DOMAIN m.calls |-> CallItem(m.calls[i])]
      [] m.role = "tool" -> <<OutputItem(m.id, m.content.text)>>
      [] OTHER -> <<>>

\* The instructions are the last system message that is a string.
ReqToResponses(chat) ==
    LET system == SelectSeq(chat.messages, LAMBDA m : m.role = "system" /\ m.content.form = "string")
    IN  [instructions |-> IF system = <<>> THEN <<>> ELSE system[Len(system)].content.text,
         items |-> FlattenSeq([i \in DOMAIN chat.messages |-> ItemsOf(chat.messages[i])]),
         tools |-> [i \in DOMAIN chat.tools |-> Tool("function", chat.tools[i].name, <<>>)]]

(***************************************************************************)
(* Answers.  output: items; incomplete: the answer was cut short.           *)
(***************************************************************************)
RespToResponses(reply) ==
    [output |-> (IF reply.reasoning.text = <<>> THEN <<>> ELSE <<ReasoningItem(reply.reasoning.text)>>)
                  \o (IF reply.text.text = <<>> THEN <<>>
                      ELSE <<MessageItem("assistant", Str(reply.text.text))>>)
                  \o [i \in DOMAIN reply.calls |->
                        CallItem([reply.calls[i] EXCEPT !.args = SalvageToolCallArguments(@)])],
     incomplete |-> reply.finish = "length"]

\* A message of the upstream's answer has its text in parts; a part that is a
\* refusal or empty has none.  The loop over the parts breaks at the first one
\* that has, and of several messages the last one's text stays.
AnswerItem(parts) == MessageItem("assistant", Value("output", parts))
TextParts(item) == SelectSeq(item.content.text, LAMBDA part : part # <<>>)

RespToChat(resp) ==
    LET Of(type) == SelectSeq(resp.output, LAMBDA item : item.type = type)
        texts == SelectSeq(Of("message"), LAMBDA item : TextParts(item) # <<>>)
        thoughts == Of("reasoning")
        calls == Of("function_call")
    IN  Reply(IF texts # <<>> THEN Str(TextParts(texts[Len(texts)])[1])
                ELSE IF calls = <<>> THEN Str(<<>>) ELSE Nil,
              IF thoughts = <<>> THEN Nil ELSE thoughts[Len(thoughts)].content,
              [i \in DOMAIN calls |-> calls[i].call],
              IF resp.incomplete THEN "length" ELSE "stop")
===============================================================================
