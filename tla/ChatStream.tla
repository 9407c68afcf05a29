------------------------------ MODULE ChatStream ------------------------------
(***************************************************************************)
(* The vocabulary of the streaming converters (internal/translate).  Every  *)
(* conversion goes through Chat chunks: a source converter turns the stream *)
(* of the upstream into chunks, a target converter turns chunks into the    *)
(* events of the client's protocol.                                         *)
(*                                                                          *)
(* A piece of text, reasoning or arguments is an atom: its position in what *)
(* the upstream has sent.  A chunk with no choices changes nothing but the  *)
(* usage and is left out, as are models, response ids and time stamps.      *)
(***************************************************************************)
EXTENDS Integers, FiniteSets, Sequences, SequencesExt

CONSTANT Json   \* the runs of pieces that parse as JSON, put together

Protocols == {"chat", "responses", "messages", "generateContent"}

\* What a model's answer is made of.  "call" opens a tool call and "args" is a
\* piece of the arguments of one.  call is 0 in the other kinds.
FragmentKinds == {"reasoning", "text", "call", "args"}
Fragment(kind, call) == [kind |-> kind, call |-> call]

\* A Chat chunk.  The first chunk of a call carries its id and name (call), a
\* later one need not (0); index is the index in delta.tool_calls.
Chunk(kind, index, call, data) ==
    [kind |-> kind, index |-> index, call |-> call, data |-> data]
TextChunk(kind, data) == Chunk(kind, 0, 0, data)
FinishChunk == Chunk("finish", 0, 0, <<>>)   \* carries finish_reason
DoneChunk == Chunk("done", 0, 0, <<>>)       \* data: [DONE]
BadChunk == Chunk("malformed", 0, 0, <<>>)   \* does not parse

\* The numbers of S in increasing order.
Ascending(S) ==
    [k \in 1..Cardinality(S) |-> CHOOSE n \in S : Cardinality({m \in S : m < n}) = k - 1]

\* Positions of the fragments of a kind, and of the arguments of a call.
OfKind(read, kind) == Ascending({i \in DOMAIN read : read[i].kind = kind})
ArgsOf(read, call) == Ascending({i \in DOMAIN read : read[i] = Fragment("args", call)})
CallsIn(read) == {read[i].call : i \in DOMAIN read} \ {0}

\* SalvageToolCallArguments: what does not parse becomes {}, a piece that no upstream
\* has sent.
EmptyObject == <<0>>
Salvage(args) == IF args \in {<<>>, EmptyObject} \cup Json THEN args ELSE EmptyObject
===============================================================================
