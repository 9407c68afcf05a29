----------------------------- MODULE ChatMessages -----------------------------
(***************************************************************************)
(* The Chat form of a conversation, the hub of every conversion             *)
(* (internal/translate): a request of any protocol becomes Chat messages    *)
(* and those become a request of the upstream's protocol; an answer goes    *)
(* the other way.                                                           *)
(*                                                                          *)
(* A text is a sequence of words, each one an atom; separators between      *)
(* joined texts are left out.  Parameters that pass through (model,         *)
(* temperature, limits, usage, ids of responses) are left out.              *)
(***************************************************************************)
EXTENDS Integers, FiniteSets, Sequences, SequencesExt

Protocols == {"chat", "responses", "messages", "generateContent"}

\* What an interface{} or *string holds: nothing, a string, a JSON array whose
\* parts carry text, or the address of a string.  A type switch tells the
\* four apart.
Value(form, text) == [form |-> form, text |-> text]
Nil == Value("nil", <<>>)
Str(text) == Value("string", text)
Parts(text) == Value("parts", text)
Pointer(text) == Value("pointer", text)

\* extractTextFromContent: a *string is neither a string nor an array.
TextOf(content) == IF content.form \in {"string", "parts"} THEN content.text ELSE <<>>

\* A call's arguments are a JSON text: an object with a "value", "{}", "null",
\* nothing, or not JSON.
IsJSON(args) == args \notin {"", "broken"}
SanitizeFunctionCallArguments(args) == IF IsJSON(args) THEN args ELSE "{}"
SalvageToolCallArguments(args) == IF args = "" THEN "" ELSE SanitizeFunctionCallArguments(args)

\* In Claude's input and Gemini's args they are an object, which omitempty
\* leaves out when it is empty ("" here).  json.Unmarshal makes the map, and
\* json.Marshal writes a missing one as null.
ObjectOf(args) == IF IsJSON(args) /\ args \notin {"{}", "null"} THEN args ELSE ""
MarshalObject(object) == IF object = "" THEN "null" ELSE object

Call(id, name, args) == [id |-> id, name |-> name, args |-> args]
IdsOf(calls) == {calls[i].id : i \in DOMAIN calls}
NoId == ""

Message(role, content) ==
    [role |-> role, content |-> content, calls |-> <<>>, id |-> NoId, reasoning |-> Nil]
ToolMessage(id, text) == [Message("tool", Str(text)) EXCEPT !.id = id]
SystemText(messages) ==
    FlattenSeq([i \in DOMAIN messages |->
        IF messages[i].role \in {"system", "developer"} THEN TextOf(messages[i].content) ELSE <<>>])

\* The one choice of a Chat response.
Reply(text, reasoning, calls, finish) ==
    [text |-> text, reasoning |-> reasoning, calls |-> calls, finish |-> finish]

\* Tools: the type, the name and, of a namespace, the tools in it.
ChatTool(type, name) == [type |-> type, name |-> name]
FunctionTools(tools) == SelectSeq(tools, LAMBDA t : t.type = "function" /\ t.name # "")
===============================================================================
