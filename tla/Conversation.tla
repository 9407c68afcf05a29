----------------------------- MODULE Conversation -----------------------------
(***************************************************************************)
(* A conversation of several turns through the non-streaming converters:    *)
(* a client of one protocol, an upstream of another, and between them       *)
(* proxy/convert.go and handler.go (buildChatRequest).  The adapter keeps    *)
(* nothing between requests: each request carries the whole history, which  *)
(* the client wrote from its own words and the answers it was given.  So an  *)
(* answer of one turn returns in the requests of the later ones.            *)
(*                                                                          *)
(* The client may say something before it has the results of the calls,     *)
(* give a result late, and forget the beginning of a long conversation.     *)
(***************************************************************************)
EXTENDS ResponsesMessages, TLC

Claude == INSTANCE ClaudeMessages
Gemini == INSTANCE GeminiMessages

CONSTANTS
    Clients, Upstreams, \* protocols of the client and of the upstream
    MaxSteps,           \* bound on the steps of a conversation
    MaxTexts, MaxCalls, \* bounds on one answer
    MaxTools            \* bound on the tools

ASSUME ConversationAssumption ==
    /\ Clients \subseteq Protocols /\ Upstreams \subseteq Protocols
    /\ MaxSteps \in Nat /\ MaxTexts \in Nat /\ MaxCalls \in Nat
    /\ MaxTools \in Nat

VARIABLES
    client, source,     \* the two protocols
    history,            \* the client's messages, in its protocol
    tools,              \* the tools it declares
    owed,               \* calls of the last answer it has not met yet
    late,               \* earlier calls it has not met
    given,              \* results it gave before it said anything else
    forgot,             \* it has forgotten the beginning
    reply,              \* <<the last answer, as sent and as it got it>>, or <<>> later
    steps

vars == <<client, source, history, tools, owed, late, given, forgot, reply, steps>>

Fresh(kind, i) == kind \o ToString(steps) \o "." \o ToString(i)
System == <<"system">>

(***************************************************************************)
(* The adapter                                                              *)
(***************************************************************************)
\* Ids invented for the calls of a request.
RequestIds == [i \in DOMAIN history |->
                 [k \in 1..MaxCalls |-> "invented" \o ToString(i) \o "." \o ToString(k)]]

buildChatRequest ==
    CASE client = "chat" ->
            [messages |-> <<Message("system", Str(System))>> \o history, tools |-> tools]
      [] client = "responses" ->
            ReqToChat([instructions |-> System, items |-> history, tools |-> tools])
      [] client = "messages" ->
            Claude!ClaudeToChatRequest([system |-> System, messages |-> history, tools |-> tools])
      [] client = "generateContent" ->
            Gemini!GeminiToChatRequest(
                [system |-> System, contents |-> history, tools |-> tools], RequestIds)

\* The request that a client sending its history now causes upstream.
convertChatToSource ==
    CASE source = "chat" -> buildChatRequest
      [] source = "responses" -> ReqToResponses(buildChatRequest)
      [] source = "messages" -> Claude!ChatToClaudeRequest(buildChatRequest)
      [] source = "generateContent" -> Gemini!ChatToGeminiRequest(buildChatRequest)

convertSourceToChat(resp, ids) ==
    CASE source = "chat" -> resp
      [] source = "responses" -> RespToChat(resp)
      [] source = "messages" -> Claude!ClaudeToChatResponse(resp)
      [] source = "generateContent" -> Gemini!GeminiToChatResponse(resp, ids)

convertChatToTarget(chatResp) ==
    CASE client = "chat" -> chatResp
      [] client = "responses" -> RespToResponses(chatResp)
      [] client = "messages" -> Claude!ChatToClaudeResponse(chatResp)
      [] client = "generateContent" -> Gemini!ChatToGeminiResponse(chatResp)

(***************************************************************************)
(* The upstream: an answer has a thought, texts, calls, and may be cut short *)
(***************************************************************************)
\* Claude and Gemini write arguments as an object, which Gemini may leave out;
\* the others write a string.
Arguments ==
    CASE source \in {"chat", "responses"} -> {"value", "null", "broken", ""}
      [] source = "messages" -> {"value", "{}"}
      [] source = "generateContent" -> {"value", "{}", ""}
AnswerCalls(n, args) ==
    [i \in 1..n |-> Call(Fresh("call", i), "f", IF i = 1 THEN args ELSE "value")]
\* Of a Responses upstream the texts may be the parts of one message.
Answers ==
    {[thought |-> thought, texts |-> [i \in 1..n |-> <<Fresh("text", i)>>], joined |-> joined,
      calls |-> AnswerCalls(c, args), cut |-> cut] :
        thought \in {<<>>, <<Fresh("thought", 0)>>}, n \in 0..MaxTexts, c \in 0..MaxCalls,
        joined \in {source = "responses", FALSE}, args \in Arguments, cut \in BOOLEAN}
IsAnswer(a) ==
    /\ a.texts # <<>> \/ a.calls # <<>>
    /\ a.cut => a.thought = <<>>
    /\ a.joined => Len(a.texts) = MaxTexts /\ a.thought = <<>>                        \* bound
    /\ a.joined \/ a.thought # <<>> => \A i \in DOMAIN a.calls : a.calls[i].args = "value"    \* bound
\* Bound: an answer to more than one message is one text or one call.
IsPlain(a) ==
    /\ a.thought = <<>> /\ ~a.cut /\ Len(a.texts) + Len(a.calls) = 1
    /\ \A i \in DOMAIN a.calls : a.calls[i].args = "value"

Finish(a) == IF a.cut THEN "length" ELSE IF a.calls # <<>> THEN "tool_calls" ELSE "stop"
Optional(text, x) == IF text = <<>> THEN <<>> ELSE <<x>>
Written(a) ==
    CASE source = "chat" ->
            Reply(IF a.texts = <<>> THEN Nil ELSE Str(FlattenSeq(a.texts)),
                  IF a.thought = <<>> THEN Nil ELSE Str(a.thought), a.calls, Finish(a))
      [] source = "responses" ->
            [output |-> Optional(a.thought, ReasoningItem(a.thought))
                \o (IF a.joined THEN <<AnswerItem(<<<<>>>> \o a.texts)>>
                    ELSE [i \in DOMAIN a.texts |-> AnswerItem(<<a.texts[i]>>)])
                \o [i \in DOMAIN a.calls |-> CallItem(a.calls[i])],
             incomplete |-> a.cut]
      [] source = "messages" ->
            [content |-> Optional(a.thought, Claude!ThinkingBlock(a.thought))
                \o [i \in DOMAIN a.texts |-> Claude!TextBlock(a.texts[i])]
                \o [i \in DOMAIN a.calls |-> Claude!UseBlock(a.calls[i])],
             stop |-> Claude!chatFinishToClaudeStop(Finish(a))]
      [] source = "generateContent" ->
            [parts |-> Optional(a.thought, Gemini!ThoughtPart(a.thought))
                \o [i \in DOMAIN a.texts |-> Gemini!TextPart(a.texts[i])]
                \o [i \in DOMAIN a.calls |-> Gemini!CallPart(a.calls[i].name, a.calls[i].args)],
             finish |-> Gemini!chatFinishToGeminiStop(Finish(a))]

(***************************************************************************)
(* The client                                                               *)
(***************************************************************************)
\* A text as a string or as an array of parts, or a picture, which is an array
\* without text.  Between the two forms of a text a Responses item and a
\* Gemini content make no difference.
Said(role, form, text) ==
    CASE client = "chat" -> Message(role, Value(form, text))
      [] client = "responses" -> MessageItem(role, Value(form, text))
      [] client = "messages" ->
            Claude!ClaudeMessage(role, IF form = "parts" THEN "json" ELSE form, <<Claude!TextBlock(text)>>)
      [] client = "generateContent" -> Gemini!Content(role, <<Gemini!TextPart(text)>>)

\* What it notes of an answer.  A Claude client writes one text as a string.
Noted(got) ==
    CASE client = "chat" -> <<[Message("assistant", got.text) EXCEPT !.calls = got.calls]>>
      [] client = "responses" -> got.output
      [] client = "messages" ->
            LET plain == Len(got.content) = 1 /\ got.content[1].type = "text"
            IN  <<Claude!ClaudeMessage("assistant", IF plain THEN "string" ELSE "json", got.content)>>
      [] client = "generateContent" -> <<Gemini!Content("model", got.parts)>>

\* A Gemini client names the function ("f"); the others the call.
ResultFor(id, text) ==
    CASE client = "chat" -> ToolMessage(id, text)
      [] client = "responses" -> OutputItem(id, text)
      [] client = "messages" -> Claude!ClaudeMessage("user", "json", <<Claude!ResultBlock(id, text)>>)
      [] client = "generateContent" -> Gemini!Content("function", <<Gemini!ResponsePart("f", text)>>)

CallsIn(m) ==
    CASE client = "chat" -> IdsOf(m.calls)
      [] client = "responses" -> IF m.type = "function_call" THEN {m.call.id} ELSE {}
      [] client = "messages" -> {m.blocks[i].call.id : i \in DOMAIN m.blocks}
      [] client = "generateContent" -> {}

Declarable ==
    IF client # "responses" THEN {ChatTool("function", "f"), ChatTool("function", "g")}
    ELSE {Tool("function", "f", <<>>), Tool("custom", "g", <<>>), Tool("local_shell", "", <<>>),
          Tool("namespace", "", <<Tool("function", "f", <<>>), Tool("function", "h", <<>>)>>),
          Tool("mcp", "", <<>>), Tool("web_search", "", <<>>)}

Step == steps < MaxSteps /\ steps' = steps + 1 /\ UNCHANGED <<client, source>>

Declare(tool) ==
    /\ Step
    /\ history = <<>> /\ Len(tools) < MaxTools
    /\ client = "responses" \/ ~Contains(tools, tool)
    /\ tools' = Append(tools, tool)
    /\ UNCHANGED <<history, owed, late, given, forgot, reply>>

Say(role, form) ==
    /\ Step
    /\ role = "developer" => client = "responses"
    /\ form = "parts" => client \in {"chat", "messages"}
    /\ form = "picture" => history # <<>>    \* bound
    /\ history' = Append(history, IF form = "picture" THEN Said(role, "parts", <<>>)
                                   ELSE Said(role, form, <<Fresh("word", 0)>>))
    /\ owed' = {} /\ late' = late \cup owed
    /\ reply' = <<>>
    /\ UNCHANGED <<tools, given, forgot>>

\* The client sends its history and the upstream answers.
Exchange(a) ==
    /\ Step
    /\ history # <<>> /\ reply = <<>>
    /\ IsAnswer(a) /\ (Len(history) > 1 => IsPlain(a))
    /\ LET ids == [i \in DOMAIN a.calls |-> a.calls[i].id]
           got == convertChatToTarget(convertSourceToChat(Written(a), ids))
       IN  /\ reply' = <<[sent |-> a, got |-> got]>>
           /\ history' = history \o Noted(got)
    /\ owed' = IdsOf(a.calls) /\ late' = late \cup owed
    /\ UNCHANGED <<tools, given, forgot>>

Result(id) ==
    /\ Step
    /\ LET text == <<Fresh("result", 0)>>
       IN  /\ history' = Append(history, ResultFor(id, text))
           /\ given' = IF id \in owed THEN given \cup {[id |-> id, text |-> text]} ELSE given
    /\ owed' = owed \ {id} /\ late' = late \ {id}
    /\ reply' = <<>>
    /\ UNCHANGED <<tools, forgot>>

Forget(k) ==
    /\ Step
    /\ k < Len(history)
    /\ history' = SubSeq(history, k + 1, Len(history))
    /\ LET gone == UNION {CallsIn(history[i]) : i \in 1..k}
       IN  /\ given' = {g \in given : g.id \notin gone}
           /\ owed' = owed \ gone /\ late' = late \ gone
    /\ forgot' = TRUE
    /\ reply' = <<>>
    /\ UNCHANGED tools

Init ==
    /\ client \in Clients /\ source \in Upstreams \ {client}
    /\ history = <<>> /\ tools = <<>>
    /\ owed = {} /\ late = {} /\ given = {}
    /\ forgot = FALSE /\ reply = <<>> /\ steps = 0

Next ==
    \/ \E tool \in Declarable : Declare(tool)
    \/ \E role \in {"user", "developer"}, form \in {"string", "parts", "picture"} : Say(role, form)
    \/ \E a \in Answers : Exchange(a)
    \/ \E id \in owed \cup late : Result(id)
    \/ \E k \in DOMAIN history : Forget(k)

Spec == Init /\ [][Next]_vars
===============================================================================
