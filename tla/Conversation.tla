------------------------------ MODULE Conversation ------------------------------
(***************************************************************************)
(* The transcript as a fold: how the renderer turns the records of a       *)
(* session file into chat messages, how it applies the events of a running *)
(* agent to them, and how it groups them into the turns the user reads     *)
(* (src/renderer/conversation.ts).                                         *)
(*                                                                         *)
(* The text that part j of the agent's m-th message has after n            *)
(* instalments is the block <<m, j, n>>, and a text is a sequence of       *)
(* blocks.  Two parts of a message are never prefixes of one another, so   *)
(* collapseThinking only appends.  Titles, times, images, arguments and    *)
(* outputs are left out; so is `queued`, which no caller sets.             *)
(***************************************************************************)
EXTENDS Integers, Sequences, SequencesExt, FiniteSets

Kinds == {"thinking", "text", "tagged", "toolCall"}

\* The records of a session: a message of the user, of the agent, a tool's result.
UserRecord(text) == [role |-> "user", text |-> <<text>>]
AgentRecord(m, parts, stop) ==
  [role |-> "assistant", m |-> m, parts |-> parts, stop |-> stop]
ResultRecord(tool, error) == [role |-> "toolResult", tool |-> tool, error |-> error]

ToolOutcome(error) == IF error THEN "error" ELSE "complete"

\* The members of seq at the given places, in order: an Array.filter.
Picked(seq, places) ==
  FlattenSeq([i \in DOMAIN seq |-> IF i \in places THEN <<seq[i]>> ELSE <<>>])

---------------------------------------------------------------------------
\* A tagged text opens with a think tag, which splitThinkTags pulls out.
Thought(m, j, part) ==
  CASE part.kind = "thinking" -> <<<<m, j, part.n>>>>
    [] part.kind = "tagged" -> <<<<m, j, 1>>>>
    [] OTHER -> <<>>

Prose(m, j, part) ==
  IF part.kind = "text" \/ (part.kind = "tagged" /\ part.n > 1)
    THEN <<<<m, j, part.n>>>> ELSE <<>>

getMessageText(m, parts) == FlattenSeq([j \in DOMAIN parts |-> Prose(m, j, parts[j])])

\* A row of the process history: a run of thoughts, a text, or a tool call.  Its
\* identity is the part it began with, numbered inside its own message.
Row(type, slot, text) == [type |-> type, slot |-> slot, text |-> text]
ToolRow(tool) == Row("tool", tool, <<>>)

AddThought(rows, j, text) ==
  CASE text = <<>> -> rows
    [] text # <<>> /\ rows # <<>> /\ Last(rows).type = "thinking" ->
         Append(Front(rows), [Last(rows) EXCEPT !.text = @ \o text])
    [] OTHER -> Append(rows, Row("thinking", <<0, j>>, text))

AddText(rows, j, text) ==
  IF text = <<>> THEN rows ELSE Append(rows, Row("text", <<0, j>>, text))

\* The part is given with its message and its place.
AddPart(rows, placed) ==
  LET m == placed[1]
      j == placed[2]
      part == placed[3]
  IN IF part.kind = "toolCall" THEN Append(rows, ToolRow(<<m, j>>))
     ELSE AddText(AddThought(rows, j, Thought(m, j, part)), j, Prose(m, j, part))

getWork(m, parts) == FoldLeft(AddPart, <<>>, [j \in DOMAIN parts |-> <<m, j, parts[j]>>])

\* A tool of a message, before its result is known.
CalledTool == [status |-> "complete", recorded |-> FALSE, interrupted |-> FALSE]

getTools(m, parts) ==
  [t \in {<<m, j>> : j \in {i \in DOMAIN parts : parts[i].kind = "toolCall"}} |-> CalledTool]

---------------------------------------------------------------------------
\* A chat message: ChatMessage, with its tools by id; workOffset is -1 when absent.
Chat(role, text) ==
  [id |-> 0, role |-> role, text |-> text, streaming |-> FALSE, tools |-> <<>>,
   work |-> <<>>, workOffset |-> -1, stopReason |-> "", interrupted |-> FALSE,
   error |-> FALSE]

messageFromRecord(r) ==
  IF r.role = "user" THEN Chat("user", r.text)
  ELSE [Chat("assistant", getMessageText(r.m, r.parts)) EXCEPT
          !.tools = getTools(r.m, r.parts),
          !.work = getWork(r.m, r.parts),
          !.stopReason = r.stop,
          !.interrupted = r.stop = "aborted",
          !.error = r.stop = "error"]

optimisticUserMessage(id, text) == [Chat("user", <<text>>) EXCEPT !.id = id]

HasTool(message, tool) == tool \in DOMAIN message.tools

attachStoredToolResult(messages, r) ==
  LET owner == SelectLastInSeq(messages, LAMBDA message : HasTool(message, r.tool))
  IN IF owner = 0 THEN messages
     ELSE [messages EXCEPT ![owner].tools[r.tool] =
             [@ EXCEPT !.status = ToolOutcome(r.error), !.recorded = TRUE]]

AddRecord(messages, r) ==
  IF r.role = "toolResult" THEN attachStoredToolResult(messages, r)
  ELSE Append(messages, messageFromRecord(r))

normalizeMessages(records) == FoldLeft(AddRecord, <<>>, records)

---------------------------------------------------------------------------
LastIs(messages, role) == messages # <<>> /\ Last(messages).role = role

WithLast(messages, message) == Append(Front(messages), message)

\* Stops the streaming and gives up the tools that still run, when the turn ends.
finalizeInterruptedTurn(messages, interrupted) ==
  LET last == LastIs(messages, "assistant")
      HadRunning(i) ==
        /\ last /\ i = Len(messages)
        /\ \E t \in DOMAIN messages[i].tools : messages[i].tools[t].status = "running"
      GiveUp(tool) ==
        IF tool.status = "running"
          THEN [tool EXCEPT !.status = "error", !.interrupted = TRUE] ELSE tool
      Final(i) ==
        LET message == messages[i]
            hit == last /\ i = Len(messages) /\ interrupted
        IN IF ~message.streaming /\ ~HadRunning(i) /\ ~hit THEN message
           ELSE [message EXCEPT
                   !.streaming = FALSE,
                   !.tools = IF HadRunning(i) THEN [t \in DOMAIN @ |-> GiveUp(@[t])] ELSE @,
                   !.interrupted = @ \/ HadRunning(i) \/ hit]
  IN [i \in DOMAIN messages |-> Final(i)]

\* After a stop; a question that has no answer gets an empty interrupted one.
settleStoppedTurn(messages) ==
  CASE LastIs(messages, "assistant") /\ Last(messages).stopReason = "stop" ->
         finalizeInterruptedTurn(messages, FALSE)
    [] LastIs(messages, "user") ->
         Append(messages, [Chat("assistant", <<>>) EXCEPT !.interrupted = TRUE])
    [] OTHER -> finalizeInterruptedTurn(messages, TRUE)

failActiveTurn(messages) ==
  LET settled == settleStoppedTurn(messages)
  IN IF ~LastIs(settled, "assistant") THEN settled
     ELSE WithLast(settled, [Last(settled) EXCEPT
            !.error = TRUE, !.interrupted = TRUE, !.streaming = FALSE])

---------------------------------------------------------------------------
SameSlot(row, other) == row.type = other.type /\ row.slot = other.slot

Continued(row, rows) == \E i \in DOMAIN rows : SameSlot(row, rows[i])

\* Updates the rows a snapshot continues and appends the others.
graftWork(current, incoming) ==
  [i \in DOMAIN current |->
     LET spot == SelectInSeq(incoming, LAMBDA next : SameSlot(current[i], next))
     IN IF spot = 0 THEN current[i] ELSE incoming[spot]]
  \o Picked(incoming, {i \in DOMAIN incoming : ~Continued(incoming[i], current)})

\* Every tool has a row already (see ToolsHaveRows), so none is missing afterwards.
mergeWork(current, incoming, offset) ==
  IF incoming = <<>> THEN current
  ELSE SubSeq(current, 1, offset)
         \o graftWork(SubSeq(current, offset + 1, Len(current)), incoming)

\* Faulty variant of mergeAssistant: a message that starts takes the place of the last.
mergeAssistantInPlace(message, incoming, streaming, startsMessage) ==
  LET offset == IF message.workOffset = -1 THEN 0 ELSE message.workOffset
  IN [message EXCEPT
        !.streaming = streaming,
        !.interrupted = incoming.interrupted,
        !.stopReason = incoming.stopReason,
        !.workOffset = offset,
        !.text = IF incoming.text # <<>> THEN incoming.text ELSE @,
        !.work = mergeWork(@, incoming.work, offset),
        !.error = IF incoming.error THEN TRUE ELSE @ /\ incoming.text = <<>>]

mergeAssistant(message, incoming, streaming, startsMessage) ==
  LET offset == CASE startsMessage -> Len(message.work)
                  [] ~startsMessage /\ message.workOffset = -1 -> 0
                  [] OTHER -> message.workOffset
  IN [message EXCEPT
        !.streaming = streaming,
        !.interrupted = incoming.interrupted,
        !.stopReason = incoming.stopReason,
        !.workOffset = offset,
        !.text = IF incoming.text # <<>> THEN incoming.text ELSE @,
        !.work = mergeWork(@, incoming.work, offset),
        !.error = IF incoming.error THEN TRUE ELSE @ /\ incoming.text = <<>>]

upsertLastAssistantTool(messages, tool, status) ==
  LET index == SelectLastInSeq(messages, LAMBDA message : message.role = "assistant")
      base == IF index = 0 THEN Append(messages, Chat("assistant", <<>>)) ELSE messages
      at == IF index = 0 THEN Len(base) ELSE index
      message == base[at]
      before == IF HasTool(message, tool) THEN message.tools[tool]
                ELSE [CalledTool EXCEPT !.status = "running"]
      activity == [before EXCEPT !.status = status,
                                 !.recorded = @ \/ status # "running"]
      tools == [t \in DOMAIN message.tools \cup {tool} |->
                  IF t = tool THEN activity ELSE message.tools[t]]
      work == IF Continued(ToolRow(tool), message.work) THEN message.work
              ELSE Append(message.work, ToolRow(tool))
  IN [base EXCEPT ![at] = [message EXCEPT !.tools = tools, !.work = work]]

---------------------------------------------------------------------------
\* The events of the agent that reach a transcript.
MessageEvent(type, r) == [type |-> type, record |-> r]
ToolEvent(type, tool, error) == [type |-> type, tool |-> tool, error |-> error]
AgentEnd(willRetry, r) == [type |-> "agent_end", willRetry |-> willRetry, record |-> r]
Settled == [type |-> "agent_settled"]

MessageTypes == {"message_start", "message_update", "message_end"}
ToolTypes == {"tool_execution_start", "tool_execution_update", "tool_execution_end"}
IsUpdate(event) == event.type \in {"message_update", "tool_execution_update"}

ApplyUserMessage(messages, event) ==
  LET text == event.record.text
      \* The question is already shown, and the answer to it has no text yet.
      asked == /\ LastIs(messages, "assistant") /\ Last(messages).text = <<>>
               /\ LastIs(Front(messages), "user") /\ Last(Front(messages)).text = text
  IN CASE LastIs(messages, "user") /\ Last(messages).text = text -> messages
       [] asked -> messages
       [] OTHER -> IF event.type = "message_start"
                     THEN Append(messages, messageFromRecord(event.record)) ELSE messages

ApplyAgentMessage(messages, event) ==
  LET incoming == messageFromRecord(event.record)
      streaming == event.type # "message_end"
  IN IF LastIs(messages, "assistant")
       THEN WithLast(messages,
              mergeAssistant(Last(messages), incoming, streaming \/ incoming.text = <<>>,
                             event.type = "message_start"))
       ELSE Append(messages, [incoming EXCEPT !.streaming = streaming])

\* The last message of a run failed.
MarkFailed(messages, incoming) ==
  IF LastIs(messages, "assistant")
    THEN WithLast(messages, [Last(messages) EXCEPT !.streaming = FALSE, !.error = TRUE])
    ELSE Append(messages, incoming)

\* The end of a run: it is marked if it failed and will not be tried again.
ApplyAgentEnd(messages, event) ==
  LET incoming == messageFromRecord(event.record)
  IN IF event.willRetry \/ event.record.role # "assistant" \/ ~incoming.error THEN messages
     ELSE MarkFailed(messages, incoming)

ApplyToolEvent(messages, event) ==
  upsertLastAssistantTool(messages, event.tool,
    IF event.type = "tool_execution_end" THEN ToolOutcome(event.error) ELSE "running")

applyAgentEvent(messages, event) ==
  CASE event.type = "agent_settled" -> finalizeInterruptedTurn(messages, FALSE)
    [] event.type = "agent_end" -> ApplyAgentEnd(messages, event)
    [] event.type \in ToolTypes -> ApplyToolEvent(messages, event)
    [] event.type \in MessageTypes ->
         IF event.record.role = "user" THEN ApplyUserMessage(messages, event)
         ELSE ApplyAgentMessage(messages, event)

ApplyAll(messages, events) == FoldLeft(applyAgentEvent, messages, events)

---------------------------------------------------------------------------
\* Consecutive messages of the agent are one turn.
AddToGroups(groups, message) ==
  IF message.role = "assistant" /\ groups # <<>> /\ Last(groups)[1].role = "assistant"
    THEN WithLast(groups, Append(Last(groups), message))
    ELSE Append(groups, <<message>>)

groupConversation(messages) == FoldLeft(AddToGroups, <<>>, messages)

\* The rows of a turn: slots are scoped by message, tools are shown once.
AddRow(rows, row) ==
  IF row.type = "tool" /\ Continued(row, rows) THEN rows ELSE Append(rows, row)

Distinct(rows) == FoldLeft(AddRow, <<>>, rows)

turnWork(messages) == Distinct(FlattenSeq([i \in DOMAIN messages |-> messages[i].work]))

\* The newest state of a tool among the messages of a turn; of one without a recorded
\* result it is left open.
TurnTool(messages, tool) ==
  LET owner == SelectLastInSeq(messages, LAMBDA message : HasTool(message, tool))
  IN IF owner # 0 /\ messages[owner].tools[tool].recorded
       THEN messages[owner].tools[tool].status ELSE "unknown"

\* What the user reads of a turn: its rows in order, and how each tool ended.
buildTurnPresentation(messages) ==
  LET rows == turnWork(messages)
      Shown(row) ==
        [type |-> row.type, text |-> row.text,
         tool |-> IF row.type = "tool" THEN <<row.slot, TurnTool(messages, row.slot)>>
                  ELSE <<>>]
  IN [i \in DOMAIN rows |-> Shown(rows[i])]

Presentation(messages) ==
  LET Turn(group) ==
        [role |-> group[1].role,
         text |-> IF group[1].role = "user" THEN group[1].text ELSE <<>>,
         rows |-> buildTurnPresentation(group)]
      groups == groupConversation(messages)
      turns == [i \in DOMAIN groups |-> Turn(groups[i])]
  IN Picked(turns, {i \in DOMAIN turns : turns[i].role = "user" \/ turns[i].rows # <<>>})

---------------------------------------------------------------------------
ToolsHaveRows(messages) ==
  \A i \in DOMAIN messages : \A t \in DOMAIN messages[i].tools :
    Continued(ToolRow(t), messages[i].work)
=============================================================================
