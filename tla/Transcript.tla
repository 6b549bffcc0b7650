------------------------------- MODULE Transcript -------------------------------
(***************************************************************************)
(* One agent and one view of its transcript: the App, which sends prompts  *)
(* and stops turns (renderer/App.tsx), or the read-only panel of a child   *)
(* session (renderer/browser/child-session-panel.tsx).  Both fold the      *)
(* agent's events through the scheduler of renderer/stream-scheduler.ts,   *)
(* which holds updates back until a frame.                                 *)
(*                                                                         *)
(* The agent is Pi, external: what it writes and in which order is taken   *)
(* from how the code reads it.  Events reach the view as they happen; how  *)
(* they are numbered, buffered and replayed is SessionReplay's subject.    *)
(* The questions and steers of a session all have different texts.         *)
(***************************************************************************)
EXTENDS Conversation

CONSTANTS
  Views,        \* the kinds of view: a subset of {"app", "panel"}
  Shapes,       \* the kinds of the parts that a message of the agent may have
  Growing,      \* the kinds of parts that arrive in two instalments
  Pending,      \* MAX_PENDING_STREAM_EVENTS
  MaxBuffered,  \* MAX_PENDING_EVENTS of the panel
  MaxAttempts,  \* times the panel reads again after an overflow
  MaxPrompts, MaxMessages,   \* bounds; the last one is on everything out of the
  MaxTroubles                \* ordinary: failures, stops, steers, reopenings

ASSUME BoundsAssumption ==
  /\ Views \subseteq {"app", "panel"}
  /\ Shapes \subseteq Seq(Kinds) \ {<<>>}
  /\ Growing \subseteq Kinds \ {"toolCall"}
  /\ {Pending, MaxBuffered} \subseteq Nat \ {0}
  /\ {MaxAttempts, MaxPrompts, MaxMessages, MaxTroubles} \subseteq Nat

VARIABLES
  records,    \* the session: every completed message and result
  phase,      \* of the agent
  shape, parts,   \* the message being written: its kinds, and what is written
  toolsLeft, toolRuns,   \* its calls not answered yet, and whether the first runs
  aborting,   \* the agent was asked to stop this turn
  steers,     \* texts the user added to the turn, not read yet
  counts,     \* prompts, messages, steers and troubles so far
  view, messages, held,   \* the view, what it shows, and the scheduler's `pending`
  app,        \* live; running; sending: a prompt under way; stop: a stop under way, and
              \* stale: a run began since; misled: the agent goes on though ~running
              \* ("ended"), and a message was sent meanwhile ("asked")
  panel       \* open; loading: the first load is out; read, file: the read under way;
              \* buffer, overflow, attempts; over: the delegation has ended;
              \* skipped: its end was not followed by a read that came back

agentVars == <<records, phase, shape, parts, toolsLeft, toolRuns, aborting, steers>>
vars == <<agentVars, counts, view, messages, held, app, panel>>

Phases == {"dead", "idle", "turn", "message", "tools", "ended"}
Busy == phase \notin {"dead", "idle"}

Within(name, bound) == counts[name] < bound
Count(name) == counts' = [counts EXCEPT ![name] = @ + 1]

M == counts.messages
Partial == AgentRecord(M, parts, "")
\* What get_messages returns: the completed records and the message under way.
Snapshot == records \o IF phase = "message" THEN <<Partial>> ELSE <<>>

---------------------------------------------------------------------------
(* The scheduler: updates wait for a frame, anything else goes first.      *)

\* Faulty variant of Push: one event too many is held.
PushOneMore(shown, event) ==
  LET waiting == Append(shown.held, event)
  IN IF IsUpdate(event) /\ Len(waiting) <= Pending
       THEN [shown EXCEPT !.held = waiting]
       ELSE [messages |-> ApplyAll(shown.messages, waiting), held |-> <<>>]

Push(shown, event) ==
  LET waiting == Append(shown.held, event)
  IN IF IsUpdate(event) /\ Len(waiting) < Pending
       THEN [shown EXCEPT !.held = waiting]
       ELSE [messages |-> ApplyAll(shown.messages, waiting), held |-> <<>>]

flush == ApplyAll(messages, held)

Show(shown) == messages' = shown /\ held' = <<>>

PushAll(shown, events) == FoldLeft(Push, shown, events)

\* The App drops the events that come while it shows no runtime.
AppReceives(events) ==
  LET shown == PushAll([messages |-> messages, held |-> held], events)
  IN IF app.live THEN messages' = shown.messages /\ held' = shown.held
     ELSE messages' = messages /\ held' = <<>>

\* The panel keeps the events that come before its first read; too many are dropped.
Buffer(waiting, event) ==
  IF Len(waiting.buffer) >= MaxBuffered
    THEN [waiting EXCEPT !.buffer = <<>>, !.overflow = TRUE]
    ELSE [waiting EXCEPT !.buffer = Append(@, event)]

BufferAll(waiting, events) == FoldLeft(Buffer, waiting, events)

PanelReceives(events) ==
  LET shown == PushAll([messages |-> messages, held |-> held], events)
  IN IF panel.loading
       THEN /\ panel' = IF panel.open THEN BufferAll(panel, events) ELSE panel
            /\ UNCHANGED <<messages, held>>
       ELSE /\ messages' = shown.messages /\ held' = shown.held
            /\ UNCHANGED panel

Receive(events) ==
  IF view = "app" THEN AppReceives(events) /\ UNCHANGED panel ELSE PanelReceives(events)

\* The frame, or the timer behind it.
Frame ==
  /\ held # <<>>
  /\ IF view = "app" /\ ~app.live THEN Show(messages) ELSE Show(flush)
  /\ UNCHANGED <<agentVars, counts, view, app, panel>>

---------------------------------------------------------------------------
(* The agent.                                                              *)

\* A later run of the view makes the stop that is under way a thing of the past.
NewRun == [app EXCEPT !.running = TRUE, !.stale = TRUE]

Asked(text) == UserRecord(<<0, 0, text>>)

UserEvents(text) ==
  <<MessageEvent("message_start", Asked(text)), MessageEvent("message_end", Asked(text))>>

ReadPrompt(text) ==
  /\ phase = "idle"
  /\ records' = Append(records, Asked(text))
  /\ phase' = "turn"
  /\ Receive(UserEvents(text))
  /\ UNCHANGED <<shape, parts, toolsLeft, toolRuns, aborting, steers, view>>

\* The App's prompt is read: agent_start, then the question as a message.
TakePrompt ==
  /\ app.sending = "asked"
  /\ ReadPrompt(counts.prompts)
  /\ app' = [IF app.live THEN NewRun ELSE app EXCEPT !.sending = "no"]
  /\ UNCHANGED counts

\* Before each message the agent reads what the user added.
TakeSteer ==
  /\ phase = "turn" /\ steers # <<>> /\ ~aborting
  /\ records' = Append(records, Asked(Head(steers)))
  /\ Receive(UserEvents(Head(steers)))
  /\ steers' = Tail(steers)
  /\ UNCHANGED <<phase, shape, parts, toolsLeft, toolRuns, aborting, counts, view, app>>

StartMessage(s) ==
  /\ phase = "turn" /\ steers = <<>>
  /\ Within("messages", MaxMessages)
  /\ Count("messages")
  /\ phase' = "message" /\ shape' = s /\ parts' = <<>>
  /\ Receive(<<MessageEvent("message_start", AgentRecord(counts'.messages, <<>>, ""))>>)
  /\ UNCHANGED <<records, toolsLeft, toolRuns, aborting, steers, view, app>>

\* The next instalment of the message: more of its last part, or another part.
MoreToCome(part) == part.kind \in Growing /\ part.n = 1

Written ==
  IF parts # <<>> /\ MoreToCome(Last(parts))
    THEN Append(Front(parts), [Last(parts) EXCEPT !.n = 2])
    ELSE Append(parts, [kind |-> shape[Len(parts) + 1], n |-> 1])

Complete == Len(parts) = Len(shape) /\ ~MoreToCome(Last(parts))

Write ==
  /\ phase = "message" /\ ~Complete
  /\ parts' = Written
  /\ Receive(<<MessageEvent("message_update", AgentRecord(M, parts', ""))>>)
  /\ UNCHANGED <<records, phase, shape, toolsLeft, toolRuns, aborting, steers, counts,
                 view, app>>

Calls == {j \in DOMAIN parts : parts[j].kind = "toolCall"}

\* The end of a message: it is recorded, and its calls are made.
EndMessage(stop) ==
  /\ phase = "message"
  /\ CASE stop = "aborted" -> aborting
       [] stop = "error" -> ~aborting /\ Within("troubles", MaxTroubles)
       [] OTHER -> Complete /\ stop = IF Calls = {} THEN "stop" ELSE "toolUse"
  /\ LET ended == AgentRecord(M, parts, stop) IN
       /\ records' = Append(records, ended)
       /\ Receive(<<MessageEvent("message_end", ended)>>)
  /\ phase' = IF stop = "toolUse" THEN "tools" ELSE "ended"
  /\ toolsLeft' = IF stop = "toolUse"
                    THEN Picked([j \in DOMAIN parts |-> <<M, j>>], Calls) ELSE <<>>
  /\ IF stop = "error" THEN Count("troubles") ELSE UNCHANGED counts
  /\ UNCHANGED <<shape, parts, toolRuns, aborting, steers, view, app>>

StartTool ==
  /\ phase = "tools" /\ ~toolRuns
  /\ toolRuns' = TRUE
  /\ Receive(<<ToolEvent("tool_execution_start", Head(toolsLeft), FALSE)>>)
  /\ UNCHANGED <<records, phase, shape, parts, toolsLeft, aborting, steers, counts, view, app>>

UpdateTool ==
  /\ phase = "tools" /\ toolRuns
  /\ Receive(<<ToolEvent("tool_execution_update", Head(toolsLeft), FALSE)>>)
  /\ UNCHANGED <<agentVars, counts, view, app>>

\* A tool answers; one that is aborted answers with an error.
EndTool(error) ==
  /\ phase = "tools" /\ toolRuns
  /\ aborting => error
  /\ records' = Append(records, ResultRecord(Head(toolsLeft), error))
  /\ Receive(<<ToolEvent("tool_execution_end", Head(toolsLeft), error)>>)
  /\ toolsLeft' = Tail(toolsLeft)
  /\ toolRuns' = FALSE
  /\ phase' = CASE Tail(toolsLeft) # <<>> -> "tools"
                [] Tail(toolsLeft) = <<>> /\ aborting -> "ended"
                [] OTHER -> "turn"
  /\ UNCHANGED <<shape, parts, aborting, steers, counts, view, app>>

EndedBy(stop) == Last(records).role = "assistant" /\ Last(records).stop = stop

\* A failed message may be tried again; the failure stays in the session.
Retry ==
  /\ phase = "ended" /\ ~aborting
  /\ EndedBy("error")
  /\ Receive(<<AgentEnd(TRUE, Last(records))>>)
  /\ phase' = "turn"
  /\ UNCHANGED <<records, shape, parts, toolsLeft, toolRuns, aborting, steers, counts,
                 view, app>>

\* What the user added is read before the run ends.
ReadOn ==
  /\ phase = "ended" /\ steers # <<>> /\ ~aborting
  /\ EndedBy("stop")
  /\ phase' = "turn"
  /\ UNCHANGED <<records, shape, parts, toolsLeft, toolRuns, aborting, steers, counts,
                 view, messages, held, app, panel>>

\* agent_end, then agent_settled, upon which the App is no longer running.
Settle ==
  /\ phase = "ended" \/ (phase = "turn" /\ aborting)
  /\ aborting \/ steers = <<>> \/ EndedBy("error")
  /\ Receive(<<AgentEnd(FALSE, Last(records)), Settled>>)
  /\ phase' = "idle"
  /\ steers' = <<>>
  /\ aborting' = FALSE
  /\ app' = IF app.live
              THEN [app EXCEPT !.running = FALSE, !.misled = IF @ = "asked" THEN @ ELSE "no"]
              ELSE app
  /\ UNCHANGED <<records, shape, parts, toolsLeft, toolRuns, counts, view>>

---------------------------------------------------------------------------
(* The App.                                                                *)

\* sendMessage paints the question at once and asks the agent, or starts a new one.
SendMessage ==
  /\ view = "app"
  /\ app.sending = "no" /\ ~app.running
  /\ Within("prompts", MaxPrompts)
  /\ Count("prompts")
  /\ messages' = Append(messages,
                   optimisticUserMessage(counts'.prompts, <<0, 0, counts'.prompts>>))
  /\ app' = [NewRun EXCEPT !.sending = IF app.live THEN "asked" ELSE "starting",
                            !.misled = IF @ = "no" THEN "no" ELSE "asked"]
  /\ held' = IF app.live THEN held ELSE <<>>
  /\ UNCHANGED <<agentVars, view, panel>>

Optimistic == optimisticUserMessage(counts.prompts, <<0, 0, counts.prompts>>)
WithoutOptimistic ==
  Picked(messages, {i \in DOMAIN messages : messages[i].id # counts.prompts})

\* startAgent resumes the session in a new worker; the question goes after its records.
AgentStarted ==
  /\ app.sending = "starting"
  /\ phase = "dead"
  /\ phase' = "idle"
  /\ Show(Append(normalizeMessages(records), Optimistic))
  /\ app' = [NewRun EXCEPT !.live = TRUE, !.sending = "asked", !.misled = "no"]
  /\ UNCHANGED <<records, shape, parts, toolsLeft, toolRuns, aborting, steers, counts,
                 view, panel>>

\* The start or the prompt is refused: the question is taken back.
PromptFails ==
  /\ app.sending # "no"
  /\ phase = "idle" => Within("troubles", MaxTroubles)
  /\ messages' = WithoutOptimistic
  /\ app' = [app EXCEPT !.running = FALSE, !.sending = "no",
                        !.misled = IF Busy /\ @ = "no" THEN "ended" ELSE @]
  /\ IF phase = "idle" THEN Count("troubles") ELSE UNCHANGED counts
  /\ UNCHANGED <<agentVars, view, held, panel>>

\* A message sent while the App runs is handed to the turn.
Steer ==
  /\ view = "app" /\ app.live /\ app.running /\ Busy
  /\ Within("troubles", MaxTroubles)
  /\ Count("troubles")
  /\ steers' = Append(steers, MaxPrompts + counts'.troubles)
  /\ UNCHANGED <<records, phase, shape, parts, toolsLeft, toolRuns, aborting, view,
                 messages, held, app, panel>>

Stop ==
  /\ view = "app" /\ app.live /\ app.running /\ app.stop = "no"
  /\ Within("troubles", MaxTroubles)
  /\ Count("troubles")
  /\ Show(flush)
  /\ app' = [app EXCEPT !.stop = "sent", !.stale = FALSE]
  /\ UNCHANGED <<agentVars, view, panel>>

\* The agent reads the abort; it stops the turn there is.
TakeAbort ==
  /\ app.stop = "sent"
  /\ app' = [app EXCEPT !.stop = "taken"]
  /\ aborting' = Busy
  /\ UNCHANGED <<records, phase, shape, parts, toolsLeft, toolRuns, steers, counts, view,
                 messages, held, panel>>

\* The abort is answered: only if no turn runs, and none began since, is this one over.
AbortAnswered ==
  /\ app.stop = "taken"
  /\ IF Busy \/ app.stale
       THEN /\ app' = [app EXCEPT !.stop = "no"]
            /\ UNCHANGED <<messages, held>>
       ELSE /\ app' = [app EXCEPT !.stop = "no", !.running = FALSE]
            /\ Show(settleStoppedTurn(flush))
  /\ UNCHANGED <<agentVars, counts, view, panel>>

AgentGone ==
  /\ phase' = "dead"
  /\ toolsLeft' = <<>> /\ toolRuns' = FALSE /\ aborting' = FALSE /\ steers' = <<>>
  /\ UNCHANGED <<records, shape, parts, view, panel>>

\* A stop under way is refused with the worker gone.
Dropped == [app EXCEPT !.live = FALSE, !.running = FALSE, !.stop = "no"]

\* Faulty variant of RuntimeStopped: what is held is applied to the settled turn.
RuntimeStoppedFirst ==
  /\ view = "app" /\ app.live /\ phase # "dead"
  /\ Within("troubles", MaxTroubles)
  /\ Count("troubles")
  /\ Show(ApplyAll(settleStoppedTurn(messages), held))
  /\ app' = Dropped
  /\ AgentGone

\* The runtime was stopped.  Whether held updates are applied depends on when React
\* evaluates the update: before or after dropAgentSession clears `live`.
RuntimeStopped ==
  /\ view = "app" /\ app.live /\ phase # "dead"
  /\ Within("troubles", MaxTroubles)
  /\ Count("troubles")
  /\ \E shown \in {messages, flush} : Show(settleStoppedTurn(shown))
  /\ app' = Dropped
  /\ AgentGone

\* The worker died: the error handler drops the session before it flushes.
AgentFailed ==
  /\ view = "app" /\ app.live /\ phase # "dead"
  /\ Within("troubles", MaxTroubles)
  /\ Count("troubles")
  /\ Show(failActiveTurn(messages))
  /\ app' = Dropped
  /\ AgentGone

\* AgentHost leaves out a line it cannot read and reports it; to the App the turn has
\* failed, though the agent goes on.
LineIgnored ==
  /\ view = "app" /\ app.live /\ phase # "dead"
  /\ Within("troubles", MaxTroubles)
  /\ Count("troubles")
  /\ Show(failActiveTurn(flush))
  /\ app' = [app EXCEPT !.running = FALSE,
                        !.misled = IF Busy /\ @ = "no" THEN "ended" ELSE @]
  /\ UNCHANGED <<agentVars, view, panel>>

\* The thread is opened again: with its worker's snapshot and activity, or, with the
\* worker gone, as its file alone.
OpenThread ==
  /\ view = "app" /\ app.sending # "starting"
  /\ Within("troubles", MaxTroubles)
  /\ Count("troubles")
  /\ Show(normalizeMessages(Snapshot))
  /\ app' = [app EXCEPT !.live = phase # "dead", !.running = Busy, !.stale = TRUE,
                            !.misled = "no"]
  /\ UNCHANGED <<agentVars, view, panel>>

\* The replay had a gap and brings a snapshot; what the scheduler holds stays.
Resync ==
  /\ view = "app" /\ app.live /\ phase # "dead"
  /\ Within("troubles", MaxTroubles)
  /\ Count("troubles")
  /\ messages' = normalizeMessages(Snapshot)
  /\ app' = [app EXCEPT !.misled = IF @ = "asked" THEN "ended" ELSE @]
  /\ UNCHANGED <<agentVars, view, held, panel>>

---------------------------------------------------------------------------
(* The panel.                                                              *)

\* The panel is opened on a run: it subscribes to the events and reads the file.
OpenPanel ==
  /\ view = "panel" /\ ~panel.open
  /\ panel' = [panel EXCEPT !.open = TRUE, !.read = "load"]
  /\ UNCHANGED <<agentVars, counts, view, messages, held, app>>

\* The main process reads the file for the first load, or for the reconciliation.
ReadFile ==
  /\ panel.read # "no" /\ panel.file = <<>>
  /\ panel' = [panel EXCEPT !.file = <<records>>]
  /\ UNCHANGED <<agentVars, counts, view, messages, held, app>>

\* The first load: the file, then the events that came meanwhile; or read once more.
Loaded ==
  /\ panel.read = "load" /\ panel.file # <<>>
  /\ IF panel.overflow /\ panel.attempts < MaxAttempts
       THEN /\ panel' = [panel EXCEPT !.file = <<>>, !.overflow = FALSE, !.attempts = @ + 1]
            /\ UNCHANGED <<messages, held>>
       ELSE /\ Show(ApplyAll(normalizeMessages(panel.file[1]), panel.buffer))
            /\ panel' = [panel EXCEPT !.read = "no", !.file = <<>>, !.buffer = <<>>,
                                      !.overflow = FALSE, !.loading = FALSE]
  /\ UNCHANGED <<agentVars, counts, view, app>>

\* A read fails: the first load goes on with the events alone, a later one is given up.
ReadFails ==
  /\ panel.read # "no"
  /\ Within("troubles", MaxTroubles)
  /\ Count("troubles")
  /\ IF panel.read = "load" THEN Show(ApplyAll(<<>>, panel.buffer))
     ELSE UNCHANGED <<messages, held>>
  /\ panel' = [panel EXCEPT !.read = "no", !.file = <<>>, !.buffer = <<>>, !.loading = FALSE,
                            !.skipped = @ \/ panel.over]
  /\ UNCHANGED <<agentVars, view, app>>

\* The child gets its task, the first one or that of a continued delegation.
ChildPrompted ==
  /\ view = "panel" /\ ~panel.over
  /\ Within("prompts", MaxPrompts)
  /\ Count("prompts")
  /\ ReadPrompt(counts'.prompts)
  /\ UNCHANGED app

\* Faulty variant of ChildContinued: the read of the end before is still awaited.
ChildContinuedReading ==
  /\ panel.over
  /\ panel' = [panel EXCEPT !.over = FALSE, !.skipped = FALSE]
  /\ UNCHANGED <<agentVars, counts, view, messages, held, app>>

\* The delegation runs again: the read that its end began is forgotten.
ChildContinued ==
  /\ panel.over
  /\ panel' = [panel EXCEPT !.over = FALSE, !.skipped = FALSE,
                            !.read = IF @ = "again" THEN "no" ELSE @,
                            !.file = IF panel.read = "again" THEN <<>> ELSE @]
  /\ UNCHANGED <<agentVars, counts, view, messages, held, app>>

\* The delegation ends; the panel reads its file again unless the first load is out.
DelegationEnds ==
  /\ view = "panel" /\ phase = "idle" /\ records # <<>> /\ ~panel.over
  /\ panel' = [panel EXCEPT !.over = TRUE, !.skipped = panel.read = "load",
                            !.read = IF panel.loading THEN @ ELSE "again"]
  /\ UNCHANGED <<agentVars, counts, view, messages, held, app>>

Reconciled ==
  /\ panel.read = "again" /\ panel.file # <<>>
  /\ Show(normalizeMessages(panel.file[1]))
  /\ panel' = [panel EXCEPT !.read = "no", !.file = <<>>]
  /\ UNCHANGED <<agentVars, counts, view, app>>

---------------------------------------------------------------------------
Init ==
  /\ records = <<>> /\ phase = "idle"
  /\ shape = <<>> /\ parts = <<>> /\ toolsLeft = <<>> /\ toolRuns = FALSE
  /\ aborting = FALSE /\ steers = <<>>
  /\ counts = [prompts |-> 0, messages |-> 0, troubles |-> 0]
  /\ view \in Views
  /\ messages = <<>> /\ held = <<>>
  /\ app = [live |-> view = "app", running |-> FALSE, sending |-> "no",
            stop |-> "no", stale |-> FALSE, misled |-> "no"]
  /\ panel = [read |-> "no", file |-> <<>>, buffer |-> <<>>, overflow |-> FALSE,
              attempts |-> 0, open |-> FALSE, loading |-> TRUE, over |-> FALSE, skipped |-> FALSE]

Agent ==
  \/ TakePrompt \/ TakeSteer \/ Write \/ StartTool \/ UpdateTool \/ Retry \/ ReadOn \/ Settle
  \/ \E s \in Shapes : StartMessage(s)
  \/ \E stop \in {"stop", "toolUse", "aborted", "error"} : EndMessage(stop)
  \/ \E error \in BOOLEAN : EndTool(error)

App ==
  \/ SendMessage \/ AgentStarted \/ PromptFails \/ Steer \/ Stop \/ TakeAbort
  \/ AbortAnswered \/ RuntimeStopped \/ AgentFailed \/ LineIgnored
  \/ OpenThread \/ Resync

Panel ==
  \/ OpenPanel \/ ReadFile \/ Loaded \/ ReadFails \/ ChildPrompted \/ ChildContinued
  \/ DelegationEnds \/ Reconciled

Next == Agent \/ App \/ Panel \/ Frame

Spec == Init /\ [][Next]_vars

---------------------------------------------------------------------------
\* The shape of the state.  The scheduler never holds MAX_PENDING_STREAM_EVENTS, and
\* only updates; every tool of a message has its row, on which buildTurnPresentation
\* and mergeWork rely.
TypeOK ==
  /\ phase \in Phases /\ shape \in Shapes \cup {<<>>}
  /\ parts \in Seq([kind : Kinds, n : 1..2])
  /\ {toolRuns, aborting} \subseteq BOOLEAN /\ view \in Views
  /\ {app.live, app.running, app.stale} \subseteq BOOLEAN
  /\ app.sending \in {"no", "starting", "asked"} /\ app.stop \in {"no", "sent", "taken"}
  /\ app.misled \in {"no", "ended", "asked"}
  /\ panel.read \in {"no", "load", "again"} /\ Len(panel.buffer) <= MaxBuffered
  /\ Len(held) < Pending /\ \A i \in DOMAIN held : IsUpdate(held[i])
  /\ ToolsHaveRows(messages)

Sent == IF app.sending = "no" THEN messages ELSE WithoutOptimistic

\* What is shown live is what opening the thread would show: the same turns, with the
\* same rows in the same order, the same texts and the same outcomes of the tools that
\* have a recorded one (a tool without is shown as running or interrupted live, as
\* complete after a reload; nor are the marks of failed and interrupted turns compared),
\* whatever was stopped, refused, steered, reopened or resynchronised before
\* (conversation.ts, App.tsx).  A question that is on its way is left out, and so is a
\* view in which one was sent into a turn taken for ended.
LiveIsReload ==
  view = "app" /\ app.live /\ held = <<>> /\ app.misled # "asked" =>
    Presentation(Sent) = Presentation(normalizeMessages(Snapshot))

\* When the App says that nothing runs, the last message is not being written and no
\* tool is running: no late update, no abort answered late and no end of the worker
\* leaves a spinner behind (settleStoppedTurn, failActiveTurn, finalizeInterruptedTurn).
SettledIsQuiet ==
  view = "app" /\ ~app.running /\ app.misled = "no" =>
    /\ messages # <<>> => ~Last(messages).streaming
    /\ \A i \in DOMAIN messages : \A t \in DOMAIN messages[i].tools :
         messages[i].tools[t].status # "running"

\* Once a delegation has ended and its file was read again, the panel shows exactly the
\* child's transcript, however the first load, the buffered events, an overflow and a
\* continued run fell (child-session-panel.tsx).  If it ended while the first load was
\* out, nothing is read again; and a read may fail.
PanelShowsTranscript ==
  panel.over /\ panel.open /\ panel.read = "no" /\ ~panel.skipped =>
    Presentation(messages) = Presentation(normalizeMessages(records))

\* "It is the newest snapshot itself" (child-session-panel.tsx:176): a panel whose
\* delegation has ended shows its transcript even if its first load was out at the end.
PanelIsReconciled ==
  panel.over /\ panel.open /\ panel.read = "no" =>
    Presentation(messages) = Presentation(normalizeMessages(records))

\* A line that was "ignored" (agent-host.ts:768) does not end the turn for the App.
IgnoredLineEndsNothing == view = "app" => app.misled = "no"

\* "Stop streaming ... when the turn ends abruptly" (conversation.ts:882): every message,
\* not only the last.
NothingStreams ==
  view = "app" /\ ~app.running /\ app.misled = "no" =>
    \A i \in DOMAIN messages : ~messages[i].streaming
=============================================================================
