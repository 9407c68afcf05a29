---------------------------- MODULE ClaudeMessages ----------------------------
(***************************************************************************)
(* Requests and answers between the Claude and the Chat protocol            *)
(* (translate/claude_convert.go).                                           *)
(*                                                                          *)
(* The content of a Claude message is a string, an array as json.Unmarshal  *)
(* leaves it ("json"), a []ClaudeContentBlock that the converter built      *)
(* ("blocks"), or what a Chat message held.  Every form has its blocks, and  *)
(* the type switches tell which forms give them up.                         *)
(***************************************************************************)
EXTENDS ChatMessages

Block(type, text, call) == [type |-> type, text |-> text, call |-> call]
TextBlock(text) == Block("text", text, Call(NoId, "", ""))
ThinkingBlock(text) == Block("thinking", text, Call(NoId, "", ""))
UseBlock(call) == Block("tool_use", <<>>, call)
ResultBlock(id, text) == Block("tool_result", text, Call(id, "", ""))

ClaudeMessage(role, form, blocks) == [role |-> role, form |-> form, blocks |-> blocks]
TextBlocks(text) == IF text = <<>> THEN <<>> ELSE <<TextBlock(text)>>

claudeContentToBlocks(m) == IF m.form \in {"string", "blocks"} THEN m.blocks ELSE <<>>

isEmptyClaudeMessage(m) ==
    \/ m.form \in {"string", "blocks"} /\ m.blocks = <<>>
    \/ m.form = "nil"

(***************************************************************************)
(* Chat -> Claude                                                           *)
(***************************************************************************)
\* A string that is no JSON leaves the input empty.
UseBlocks(calls) == [i \in DOMAIN calls |-> UseBlock([calls[i] EXCEPT !.args = ObjectOf(@)])]

chatAssistantToClaudeBlocks(m) ==
    LET thinking == IF m.reasoning.text = <<>> THEN <<>> ELSE <<ThinkingBlock(m.reasoning.text)>>
        blocks == thinking \o TextBlocks(TextOf(m.content)) \o UseBlocks(m.calls)
    IN  IF blocks = <<>> THEN <<TextBlock(<<>>)>> ELSE blocks

\* Mutant: a result takes the place of what the user message before it held.
AppendOverResult(msgs, m) ==
    LET result == <<ResultBlock(m.id, TextOf(m.content))>>
    IN  IF msgs # <<>> /\ msgs[Len(msgs)].role = "user"
          THEN [msgs EXCEPT ![Len(msgs)] = ClaudeMessage("user", "blocks", result)]
          ELSE Append(msgs, ClaudeMessage("user", "blocks", result))
\* A result joins the user message before it.
appendToolResult(msgs, m) ==
    LET result == <<ResultBlock(m.id, TextOf(m.content))>>
        last == msgs[Len(msgs)]
    IN  IF msgs # <<>> /\ last.role = "user"
          THEN [msgs EXCEPT ![Len(msgs)] =
                  ClaudeMessage("user", "blocks", claudeContentToBlocks(last) \o result)]
          ELSE Append(msgs, ClaudeMessage("user", "blocks", result))

AppendMessage(msgs, m) ==
    CASE m.role = "user" ->
            Append(msgs, ClaudeMessage("user", m.content.form, TextBlocks(m.content.text)))
      [] m.role = "assistant" ->
            Append(msgs, ClaudeMessage("assistant", "blocks", chatAssistantToClaudeBlocks(m)))
      [] m.role = "tool" -> appendToolResult(msgs, m)
      [] OTHER -> msgs           \* system and developer are in system

\* Mutant: the later of two messages takes the place of the earlier.
MergeOver(merged, m) ==
    IF merged # <<>> /\ merged[Len(merged)].role = m.role
      THEN [merged EXCEPT ![Len(merged)] = m] ELSE Append(merged, m)
MergeMessage(merged, m) ==
    LET last == merged[Len(merged)]
    IN  IF merged # <<>> /\ last.role = m.role
          THEN [merged EXCEPT ![Len(merged)] = ClaudeMessage(last.role, "blocks",
                    claudeContentToBlocks(last) \o claudeContentToBlocks(m))]
          ELSE Append(merged, m)
mergeClaudeMessages(msgs) == FoldLeft(MergeMessage, <<>>, msgs)
NonEmptyMessages(msgs) == SelectSeq(msgs, LAMBDA m : ~isEmptyClaudeMessage(m))

\* Mutant: empty messages are removed after the merge.
MergedThenFiltered(msgs) == NonEmptyMessages(mergeClaudeMessages(msgs))
AlternatingMessages(msgs) == mergeClaudeMessages(NonEmptyMessages(msgs))

ChatToClaudeRequest(chat) ==
    [system |-> SystemText(chat.messages),
     messages |-> AlternatingMessages(FoldLeft(AppendMessage, <<>>, chat.messages)),
     tools |-> FunctionTools(chat.tools)]

(***************************************************************************)
(* Claude -> Chat: the results of a user message first, then its text.      *)
(***************************************************************************)
BlocksOfType(blocks, type) == SelectSeq(blocks, LAMBDA b : b.type = type)
BlocksText(blocks) == FlattenSeq([i \in DOMAIN blocks |-> blocks[i].text])
CallsOfBlocks(blocks) ==
    LET uses == BlocksOfType(blocks, "tool_use")
    IN  [i \in DOMAIN uses |-> [uses[i].call EXCEPT !.args = MarshalObject(@)]]

claudeUserToChatMessages(m) ==
    LET blocks == claudeContentToBlocks(m)
        results == BlocksOfType(blocks, "tool_result")
        texts == BlocksOfType(blocks, "text")
    IN  [i \in DOMAIN results |-> ToolMessage(results[i].call.id, results[i].text)]
          \o (IF texts = <<>> THEN <<>> ELSE <<Message("user", Str(BlocksText(texts)))>>)

claudeAssistantToChatMessage(m) ==
    LET blocks == claudeContentToBlocks(m)
    IN  [Message("assistant", Str(BlocksText(BlocksOfType(blocks, "text"))))
           EXCEPT !.calls = CallsOfBlocks(blocks)]

\* extractClaudeSystemText reads a string and an array alike.
ClaudeToChatRequest(req) ==
    [messages |->
        (IF req.system = <<>> THEN <<>> ELSE <<Message("system", Str(req.system))>>)
          \o FlattenSeq([i \in DOMAIN req.messages |->
               IF req.messages[i].role = "user"
                 THEN claudeUserToChatMessages(req.messages[i])
                 ELSE <<claudeAssistantToChatMessage(req.messages[i])>>]),
     tools |-> req.tools]

(***************************************************************************)
(* Answers.  An answer is decoded into blocks, so every block is seen.      *)
(***************************************************************************)
chatFinishToClaudeStop(reason) ==
    CASE reason = "length" -> "max_tokens"
      [] reason = "tool_calls" -> "tool_use"
      [] OTHER -> "end_turn"
claudeStopToChatFinish(reason) ==
    CASE reason = "max_tokens" -> "length"
      [] reason = "tool_use" -> "tool_calls"
      [] OTHER -> "stop"

ChatToClaudeResponse(reply) ==
    [content |->
        chatAssistantToClaudeBlocks([Message("assistant", Str(reply.text.text))
            EXCEPT !.reasoning = reply.reasoning, !.calls = reply.calls]),
     stop |-> chatFinishToClaudeStop(reply.finish)]

\* Thinking is left behind.
ClaudeToChatResponse(resp) ==
    Reply(Str(BlocksText(BlocksOfType(resp.content, "text"))), Nil,
          CallsOfBlocks(resp.content), claudeStopToChatFinish(resp.stop))
===============================================================================
