# TAcode: a verification project for its process, session, Git and delegation core

TAcode is a desktop coding agent: an Electron main process that starts one RPC worker process per
session, supervises delegated child sessions, changes the user's project through Git, and shows
transcripts and comparisons in a renderer. This directory holds TLA+ models of the parts of it that
are hard to get right, the TLC configurations that check them on small instances, and TLAPS proofs
of the theorems that matter most. Paths below are relative to `src/` of the repository root
(`main/...` is `src/src/main/...` in `PROJECT.json`).

- Part 1: the system (components, state, operations, interactions, what is hard, what must hold)
- Part 2: the modules and how they correspond to the code
- Part 3: what TLC checks, with which bounds and which fairness
- Part 4: what is proved, and how
- Part 5: what the checks found
- Part 6: what is not modelled, and what could come next

---

## 1. The system

### How the parts interact

```
 renderer (App.tsx, stream-scheduler, conversation; git-review-store)
    |  ipc: agent:start / attach / replay / command          ^ events, snapshots, comparisons
    v                                                        |
 main process:  index.ts --> AgentManager --> AgentHost  ----+   (one host per live session)
                   |              |              |  stdin/stdout JSON lines
                   |              v              v
                   |        capability store   worker process (runtime/*, delegate tools)
                   v                             |  delegation bridge: requests, answers, events
             DelegationCoordinator <-------------+
                   |  one AgentHost per child session
                   v
             thread index (SQLite), session files, settings files (atomic-file)

 main process:  GitReviewService <-- GitProjectWatch (fs.watch, polling)
                GitMutationService --> file transaction, recovery point, index.lock   --> the project,
                TurnSnapshotService <-- events of every AgentHost                         shared with
                                                                                          editors and git
```

All of the main process is one JavaScript thread: a callback runs to its end, then the
continuations of the promises it resolved, then the next callback. What interleaves is the order in
which awaits resume; that is where nearly all the hazards of this code are. The worker is another
such thread, and so is the renderer. The project's files are shared with everybody.

### Components

| Component | State | Operations | What is hard | What makes it correct |
|---|---|---|---|---|
| **DelegationCoordinator** (`main/delegation-coordinator.ts`, `shared/delegation.ts`) | `entries` (record, AbortController, host, definition, `stopping`, `starting`, flags), reservations, `pausedParents`, epochs | `start`, `continue`, `stop`, `stopParent`, `resumeParent`, `stopAll`, `settle`, retry with the parent's model, eviction, hydration, reconciliation | stops against starts, old coroutines against new runs, settle reached from five sides, restart | a run is settled once and always; no worker behind a stopped record; limits kept; old runs inert |
| **Delegate tools of the parent's worker** (`runtime/tools/delegate.ts`, `runtime/delegation-bridge.ts`) | `backgroundDelegations`, `pendingReports`, `reportWaiters`, timers, pending bridge calls | `delegate`, `delegate_wait`, `delegate_stop`, `delegate_continue`, delivery of reports | a report can go out as a tool's result or as a message of its own; events read together with answers; stops of the parent | every report is read once; none comes back after it was withdrawn |
| **AgentHost** (`main/agent-host.ts`) | `child`, `stopping`, pending requests, `turnActive`, `awaitingTurnStart`, waiters, sequence numbers, replay buffer | `start`, `stop`, `request`, `waitForIdle`, `snapshot`, `replaySince`, capability reload | response before `agent_start`, exit at any time, a stop that fails, chunks of stdout | one worker per host, none lost; idle means idle; waiters are released |
| **Session snapshot and replay** (`agent-host.ts`, `agent-manager.ts`, `main/index.ts`, `renderer/App.tsx`) | `seq`, replay buffer and floor, cut of the snapshot; `live`, `eventSeqRef` of the view | `agent:start`, `agent:attach`, `agent:replay`, live events | events between snapshot and cut, bounded buffer, late answers to a closed view | no event missing, none twice, order kept |
| **AgentManager** (`main/agent-manager.ts`) | runtimes per session, command queues, selected session | `startOn`, `stop`, `resume`, `command`, `reapIdle`, capability reload | start during stop of the same session, commands behind a prompt that waits for an answer | one runtime per session; answers to the worker are never queued; no orphan |
| **Git mutations and recovery** (`main/git/git-mutations.ts`, `git-recovery.ts`, `git-worktree-files.ts`) | the prepared plan, the queue, `index.lock`, recovery points | prepare, apply, restore, cancel | several files replaced one by one, other writers, failures, crash | all or nothing, or recoverable; nothing newer overwritten |
| **Git review reads** (`git-service.ts`, `git-watch.ts`, `renderer/workbench/git-review-store.ts`) | subscriptions, caches with a generation, watches, the store of a window | subscribe, close, refresh, invalidate, poll | a read that the project changes under, a window that shows something else by now | what is shown is of the query and, in the end, of the project as it is |
| **Turn snapshots** (`main/git/turn-snapshot.ts`) | captures under way, their queue, the manifest | observe, capture, load, store | a turn's baseline is taken while its tools already write; several agents in one project | a snapshot shows its turn's changes or says that it may not |
| **Git commits and pushes** (`main/git/git-commit.ts`) | plans, the queue of the mutations | prepare, commit, push | hooks, other Git processes | what was shown is committed |
| **Atomic file writes** (`main/atomic-file.ts`) | temporary file, lock | write, read | several processes, crash before rename | a reader sees a whole file |
| **Thread index** (`runtime/state.ts`) | SQLite rows | upsert, list | none beyond data access | - |
| **Patch checkpoints** (`runtime/tools/checkpoint.ts`, `patch.ts`) | saved files | apply, restore | failure half-way | a failed patch is undone |
| **Runtime tools and policies** (`runtime/tools/*`) | little | parse, classify | text | - |
| **Application wiring** (`main/index.ts`, `window-close-guard.ts`, `agent-activity.ts`) | handlers, close guard | ipc | order of stops when a session is deleted | - |
| **Browser, terminal, files, review panels** | small registries | input and output | external processes | - |
| **Providers, skills, MCP, settings** | files | load, validate, save | - | - |
| **Renderer** (`renderer/App.tsx`, `stream-scheduler.ts`, `conversation.ts`, `browser/child-session-panel.tsx`) | the transcript, what the scheduler holds, what is running, stopping or being sent; comparisons | fold of records and events, send, steer, stop, reopen, resynchronise; load and reconcile the panel of a child | several messages of a turn merged into one; updates held for a frame while everything else goes on; stops answered late; events during a read of the file | what is shown live is what a reload would show; nothing spins once nothing runs; a panel ends up with its child's transcript |

`PROJECT.json` lists the same components with their status, and under `hazards` every place of this
code where something can go wrong that a unit test would hardly reach, with the properties that
would catch it.

---

## 2. The modules

| Module | Models | Extends / instantiates |
|---|---|---|
| `Delegation` | the lifecycle of a delegated session in the coordinator | `DelegationContract` |
| `DelegationContract` | what a delegation promises to its parent (abstract) | - |
| `ReportDelivery` | how the reports of delegations reach the parent's model | - |
| `AgentHost` | one worker process after another, prompts, turns, `waitForIdle` | - |
| `AgentManager` | which worker answers for which session, and what the window looks at | - |
| `SessionReplay` | how a view of a running session gets its transcript | - |
| `Conversation` | the transcript as a fold of records and events (operators only) | - |
| `Transcript` | one agent and a view of its transcript: the App, or the panel of a child session | `Conversation` |
| `GitMutation` | stage, discard and restore on a project others write to | `GitChange` |
| `GitChange` | an atomic change of files and index (abstract) | - |
| `GitReview` | the live comparison: service, watch and the store of each window | - |
| `TurnSnapshot` | the two trees that bracket a turn | - |
| `MC*` | instances for TLC | the module they check |
| `SessionProofs` | theorems about `Delegation`, in five parts (types, counts and admission; stops; workers; the contract; old runs), and about `SessionReplay` | `Delegation`, `SessionReplay` |
| `AgentHostProofs`, `AgentManagerProofs`, `GitMutationProofs`, `ReportDeliveryProofs`, `TranscriptProofs` | theorems about the module they are named for | that module |
| `FileReviewProofs` | theorems about the two parts of the file review | `GitReview`, `TurnSnapshot` |
| `LiveViewProofs` | that the live view of `Transcript` is what opening the thread again would show | `TranscriptProofs` |

Where one module holds the proofs of two models, the names of the second that the first has too carry
a prefix: `SR` for `SessionReplay` beside `Delegation`, `TS` for `TurnSnapshot` beside `GitReview`.

Operators whose comment starts with "Faulty variant of" are wrong on purpose: each is a plausible
slip in the code (a dropped check, a missing reset). No specification uses them. Replacing the
operator they name by them makes TLC violate the property they belong to (`mutants` in
`PROJECT.json`), which shows that the property depends on that piece of code.

### Delegation

*An action is the code between two awaits.* Every coroutine of the coordinator has a place:

- `pc[d][r]` is where the coroutine of run `r` of delegation `d` is (`launch` or `continue`, then
  `startHost`, `runPrompt`, `collectReport`); `runHost[d][r]` is its local `host`. A coroutine of an
  older run stays where it is until its await resumes, exactly as in the code.
- `fallback`, `fallbackRun`, `fallbackHost`: `retryWithParentModel` and what it captured.
- `stopper`, `stopHost`, `stopStatus`: `entry.stopping`, i.e. `stopEntry` across its awaits
  (`stopping` -> wait for `entry.starting` -> perhaps `again` -> settle).
- `starter`, `startEpoch`, `reservations`: `start` before the entry exists.
- `toReconcile`, `reconciling`: `reconcilePersistedFailures` after a restart. `overtaken` is a
  history variable, not in the code: the delegations whose reconciliation has written `completed`
  over a run that a `continue` had begun meanwhile (part 5). The statements about workers leave these
  out until the next restart; every other delegation keeps them.

The `AbortController` of the current run is the pair `run[d]`, `aborted[d]`; `Live(d, r)` is
`!signal.aborted` as coroutine `r` sees it (`continue` replaces the controller after aborting the
old one). `Settle` is `settle()` including its diversion of a failure into the fallback. A worker
goes through `new` (object created), `preparing` (inside `start()`, before the spawn), `booting`,
`up`, `closing` (being terminated), `gone`; what the coordinator sees of it is `IsRunning`. The
text of sessions is left out: at the end of a run the report is usable, missing, or over the turn
limit, whichever the collecting run finds.

`Restart` is the end of the application and `hydratePersistedEntries`: workers die, rows that were
active are read back as `interrupted`, the entries beyond the retention limit are dropped.

### DelegationContract

Only `status` and `run`. Its transitions are `assertDelegationTransition` and the rule that only
`continue` begins a further run. `Delegation` instantiates it
(`Contract == INSTANCE DelegationContract`; the refinement mapping is the identity on `status` and
`run`) and `ImplementsContract == Contract!Spec` is a property of a run without restarts; hydration
is outside the contract, which speaks of one life of the application.

### ReportDelivery

The other end of the bridge: `registerRemoteDelegateTools` and `watchParentDelivery` in the
parent's worker. `delivery` is `backgroundDelegations`, `pendingReports` and `deliveryTimer`;
`reserved` the keys of `reportWaiters`; `suspended` and `idleTimer` the closure of
`watchParentDelivery`. The bridge is the pair `request`, `inbox`. A run of a delegation is one step
to its end (its inside is `Delegation`); what the coordinator does with a request or a stop of the
parent, in which order it publishes and answers, is kept.

`Next` is `Worker \/ Coordinator \/ Pi \/ Environment`. Pi, the agent loop of the worker, is
external: it begins and ends turns, runs one tool at a time and takes messages that start the next
turn. The user sends messages and stops the parent. A response of the bridge resolves a promise:
its continuation runs before any timer, but lines that were read together with it are handled first
(`Coalesced`). The delegations are interchangeable and their order in a list has no effect.

History variables say what has become of each report: `told` (in the result of a tool), `sent` (how
often a message carried it), `waived` (withdrawn by a stop), `overlooked` (see Part 5).

### AgentHost

Workers are numbered; each has what is in its stdin, what it has written and not yet been read,
and its turn. The host has the fields `child`, `turnActive`, `awaitingTurnStart` and its timer, and
the promise of a stop in progress (`stopping`, `wasActive`). Each prompt stands for the caller that
sends it: `pc[p]` is where that caller is inside `request` and `waitForIdle`
(`asking` -> `answered` -> `settle` or `grace` -> `started`/`quiet`/`settled` -> `done`). The
"resolved" places are continuations that are due; `MainIdle` says that no callback is running and
no continuation is due, which is when the next callback may start. `StopNow` is the code of
`stopNow` before its await, `StopSucceeds` and `StopFails` the code after it, `Exit` is
`handleExit`, `Start`/`Spawn` are `start` before and after its own `stop`.

### AgentManager

A host is an `AgentHost` with the worker it has (`proc`, and `ender`, on whose behalf it is being
terminated); `runtimes`, `index`, `active` and `selection` are the fields of the manager. A call is a
request of the window (start, resume, prompt, command, abort) with its place in the code;
`queue[h]` and `starts[s]` are the promise chains of `enqueue`. What a worker does in a turn and the
delegations it owns are one flag. `Proceed` is what follows by itself (continuations, responses,
boots and terminations that end, the user who answers a question); `Callback` is what the user, the
workers and the timers may do when no continuation is due (`Quiet`): requests, exits, the reaper, a
change of capabilities or of trust, the close of the window.

### SessionReplay

An event is its number; a transcript is the sequence of events it was built from, so "missing",
"twice" and "out of order" can be said directly. A snapshot of the worker's messages is the number
of the last event written before it. The pipe hands over up to `MaxChunk` lines per read;
`HandleEvent`/`HandleResponse` are `handleLine`, and the continuation of a response
(`TakeSnapshot`, `Resync`) runs only after the whole chunk, as promises do. Each view makes two
calls, `open` (`agent:start` or `agent:attach`) and `replay`; answers and live events share one
first-in-first-out channel to the renderer, which is a view number, `live`, `eventSeqRef`, what is
shown and what the stream scheduler still holds.

`Delegation` uses a simpler worker than `AgentHost` describes (its life only), `SessionReplay`
another one (its numbering only), `AgentManager` a third (its turn and its exit). They are views of
one class; composing them is not done.

### Conversation and Transcript

`Conversation` has the functions of `renderer/conversation.ts` under their names: records to chat
messages (`normalizeMessages`), events to chat messages (`applyAgentEvent`), what stops and failures
do to them (`finalizeInterruptedTurn`, `settleStoppedTurn`, `failActiveTurn`), and the turns the user
reads (`groupConversation`, `buildTurnPresentation`). A text is a sequence of blocks
`<<message, part, instalments>>`: enough to say which thought is shown where and whether it is the
newest. An answer may open with a think tag, which `splitThinkTags` pulls out, so that a part has
first no text and then one. A row is identified as in the code, by its kind and the number of its
part *inside its message*; that two messages of a turn reuse these numbers is what `workOffset` is
for. `Presentation` is what reaches the user's eye, without identities, times and titles.

In `Transcript` the agent (Pi, external) reads a question, writes messages in instalments, makes
their calls one by one, reads what the user added, fails and tries again, and settles; each step
sends its events to the view and completes records of the session. The view is `messages` and
`held`, the updates the scheduler keeps for a frame. `app` has what `App.tsx` keeps in `live`,
`running`, `sending`, `stopping` and `runEpoch`; its actions are `sendMessage` before and after its
awaits, `startAgent` for a dropped worker, the steer, the stop (`Stop`, `TakeAbort`,
`AbortAnswered`: pressed, read by the agent, answered), `desktop_runtime_stopped`, the error handler
for a dead worker and for a line that could not be read, opening a thread and a resync.
`RuntimeStopped` chooses between two outcomes because React evaluates the queued update before or
after `live` is cleared. `panel` has what `child-session-panel.tsx` keeps: the first load with the
events buffered meanwhile, the repeated read after an overflow, the reconciliation at the end and its
cancellation by a continued run. How events are numbered, buffered and replayed on their way is
`SessionReplay`; here they arrive as they happen.

### GitMutation and GitChange

A version stands for the digest of a file's bytes and mode; 0 is a missing file, and every write
makes a new one. `path` is the project, `asides` the backups left beside files, `index` the entries
an operation touches and the rest of the index. `op`, `pc` are the job at the head of the service's
queue and its place (before the lock, under it, undoing, published); `records` is
`GitFileTransaction` with, for each file, how far its replacement is: listed, renamed to its
backup, linked. Each file-system call is a step. Between any two steps an editor may write a file,
another Git process may take the index lock or change the index, a call may fail, the application
may end (`Crash`) and start again. `Restart` reads nothing but the recovery point; the lock of a
crashed application is removed by the user, as Git asks.

`GitChange` has the files, the index and the saved point only; a discard, a restore or a stage is
one step, what somebody else wrote is never replaced, and a torn state needs a point from which it
can be restored. `Change == INSTANCE GitChange WITH ...` maps a half-done operation to the state it
started from until it is published; `ImplementsChange == Change!Spec` is a property of run `git`.

### GitReview

`disk` has two counters, of the work tree and of the repository; a comparison looks at one of them
or both, and what was read is what it saw of them. `bind` is the authorization a subscription waits
for; `TimerFires`, `Inspected`, `Captured`, `ReadEnds` and `ReadFails` are the debounced read with
its `generation`; `Told`, `WatchFails`, `Poll` and `Retry` are `GitProjectWatch`. The store of a
window is its subscription, the comparison it shows, and the updates on their way to it.

### TurnSnapshot

The work tree is the sequence of the writes made to it, a tree is a set of writes. A capture walks
the files while they change: of the writes made meanwhile the tree has some
(`captureTree`/`captured`, `During`). `git add --ignore-errors` leaves out files it cannot read, and
its exit code is accepted: of the writes made before, a tree may lack any that is not in `index`,
the private index which the captures of the project share and which goes on with what an earlier
capture read (`Unreadable`, `Tree`). A capture that fails or is cut short by the end of the
application may have brought the index up to date or not (`CutShort`). What the target of a turn
lacks for this reason is noted in `unread`, which no step reads. `observe` is split by the event it
gets (`agent_start`, `tool_execution_start`, `tool_execution_end`, `agent_settled`,
`desktop_runtime_stopped`); `initialize`, `capture`, `load`, `renames`, `written` are the awaits of
one turn's promise chain. `Writes` is a command of a turn, in the foreground or left running behind
it.

---

## 3. What TLC checks

| Run (cfg) | Question | Instance |
|---|---|---|
| `one` | Are a run, its worker and its record consistent under continue, stop, stopParent, stopAll, fallback and restart, and does every run end? | 1 delegation with a pinned model, 3 runs, 2 workers, parent stopped once, 1 restart; killed processes exit |
| `stubborn` | The same when a process may survive its termination: are old runs inert, is the contract kept, do stops end? | the same with 2 runs, 3 workers, no restart |
| `two` | Do concurrent starts keep the limit, does eviction take workers with it? | 2 delegations, one parent, 1 slot, room for 1 terminal entry, 1 restart |
| `reports` | Does every report reach the parent's model, once, and not after it was withdrawn? | 2 delegations, 2 runs each, 2 tool calls, 1 message of the user, 1 stop; lines may be read together |
| `waiters` | One worker, none lost; is idle idle; is every waiter released? | 2 prompts, 3 workers, 2 stops that may fail, 2 lines per read |
| `agents` | Is every worker reachable, is there one per session, does the view follow the user, does every call end? | 1 session, 3 hosts, 3 calls, 2 troubles |
| `views` | Does a view get every event once and in order, whatever the buffer loses? | 3 events, 2 views, buffer of 1, attach and start, one line per read |
| `git` | Does an operation on several files happen at once or not at all, and is nothing of anybody else's lost? | 2 files (one modified, one untracked), 3 requests, 2 troubles |
| `review` | Is what a panel shows of its query and, in the end, up to date? | 1 window, 2 subscriptions, 1 change of each kind, 1 refresh, 1 trouble |
| `turns` | Does a snapshot that misses a write of its turn say so, unless its file could not be read? Does it never show a write as undone? | 2 agents, 2 turns, 2 writes, any file unreadable, 1 trouble, 1 snapshot kept |
| `transcript` | Is what is shown live what a reload shows; does nothing spin when nothing runs; does the panel end up with its child's transcript? | 1 agent, App or panel; 2 questions, 2 messages of 2 parts, 2 troubles; the scheduler holds 2 updates, the panel 3 |
| `interrupted` | Can what a crash leaves be restored? No (Part 5) | 2 files, 2 requests, 1 trouble |

The properties, by what they are about:

- *Delegation.* `WorkersAccountedFor` (`NoWorkerBehindFailure`: no process behind a failed, cancelled
  or interrupted record; `OneWorkerPerSession`: never two workers on one session file),
  `PausedParentDrains`
  (under a stopped parent everything active is being stopped), `NoUnattendedRun` (an active record
  has someone who will settle it), `EveryRunSettles`, `StopReturns`, `StaleRunsAreInert` (action
  property: a step of an older coroutine changes nothing of the newer run), `ImplementsContract`,
  `AdmissionCap` (first runs and loading starts fit the limit), `EvictedHasNoWorker`.
- *ReportDelivery.* `ReadOnce` (a report is in at most one message, and in none once a tool has
  returned it), `WithdrawnStaysQuiet` (what a stop withdrew wakes nobody), `ReportsArrive` (the
  report of a background delegation is told, sent or withdrawn, whatever timers, turns and tools do).
- *AgentHost.* `WorkerInHand` (`OneWorker` and `NoLostWorker`), `IdleIsReal` (action property),
  `NobodyWaitsInVain` (`WaitersReleased` and `PendingWorkEnds`).
- *AgentManager.* `WorkersAreReached` (`NoOrphan`: a worker that runs can be reached; `OneWorker`: a
  session has one worker, unless one outlived its stop), `ViewFollowsChoice` (action property: no late answer takes
  the view), `CallsSettle` (no call hangs behind a queue, a reload, a prompt that asks the user or a
  worker that is gone).
- *SessionReplay.* `TranscriptIsWhole` (`NothingMissing` and `StructuralOnce`), `ReplayCloses`
  (action property), `CatchesUp`.
- *GitMutation.* `NothingIsLost` (`NoEditLost`: what was last written to a path is there, in a
  backup beside it or in the recovery point; `RolledBackIsClean`: what counts as undone is back),
  `ForeignLockKept` (action property), `ImplementsChange` (refinement of `GitChange`).
- *GitReview.* `ResultsFit` (`NoStaleResult` and `ViewIsOfQuery`), `NoIdleWork` (nothing is left
  behind by a closed subscription), `CatchesUp`.
- *Transcript.* `LiveIsReload` (the live fold shows the turns, rows, texts and recorded outcomes of
  tools that opening the thread anew would show), `SettledIsQuiet` (neither the last message nor any
  tool is shown as running when the App says that nothing runs), `PanelShowsTranscript`.
- *TurnSnapshot.* `RangesAreHonest`: `SaysWhatItMisses` (what a snapshot does not show of its turn
  was unreadable when the turn ended, or a warning says so) and `NothingTakenBack` (an unreadable
  file never makes a write look undone).

### Bounds, and why they are enough

- *Delegation.* `one`: `MaxRuns = 3`, `MaxHosts = 2`, because the first run leaves an old coroutine,
  the second may be overtaken by a reconciliation, and only a third then meets a worker nobody
  waits for; two workers are enough to see them side by side. `stubborn`: `MaxRuns = 2`,
  `MaxHosts = 3`, where the third worker is the one a fallback creates after a `continue`, and
  `MaxRestarts = 0`, as a restart ends the stubborn process too. `two`: one run each, since eviction
  and the reservation of a slot concern the first run, and one restart, because hydration drops rows.
  `MaxEpoch = 1`: a parent is stopped, resumed and continued under; `epoch` is only compared for
  equality with the captured value. `MaxRestarts = 1`: hydration rebuilds everything from `status`; a
  second restart starts from a state of the same kind. `MaxConcurrency = MaxRetained = 1` with two
  delegations: the smallest limits at which an entry is refused or evicted. What the theorems of
  part 4 say of workers and stale runs needs none of these bounds.
- *ReportDelivery.* Two delegations: a message that carries one report while another is reserved, or
  ends while it is being sent. Two runs: a report of a run that was continued. Two calls: a tool
  before the end of a delegation and one after it. One message and one stop: each may fall anywhere.
- *AgentHost.* `MaxPrompts = 2`: one waits while the other is refused, times out or starts a further
  turn. `MaxWorkers = 3`: a worker after one that was stopped and one that died. `MaxStops = 2`: a
  stop repeated after one that failed. `MaxChunk = 2`: `agent_settled` and the next `agent_start` in
  one read.
- *AgentManager.* Three hosts and calls: a start that meets one that is being replaced while a third
  waits in the queue. Two troubles: a change of trust and the exit of the worker it restarts. One
  session: sessions share only `active` and `selection`, which the starts and resumes of one session
  already compete for.
- *SessionReplay.* `MaxEvents = 3` with `Capacity = 1`: one event in the snapshot, one evicted from
  the buffer and one kept. `MaxViews = 2`: a late answer to a view that has been replaced.
- *Transcript.* Two messages of two parts: a thought and a call, then a thought and an answer, so that
  the second message reuses the row numbers of the first, and an answer that grows. `Pending = 3`:
  one update held, several, and the limit. `MaxBuffered = 3`, `MaxAttempts = 1`: an overflow of the
  panel that is repaired and one that is not. `MaxTroubles = 2` counts everything out of the ordinary
  together (failures, stops, steers, reopenings), each at any point; the instance with three troubles
  (1.43 million states) and the one with a third kind of message, a text with two calls (1.06 million),
  were checked as well. The folds look at the last two messages only.
- *GitMutation.* Two files: one replaced and the other not; a modified and an untracked one, which
  take different paths through discard and restore. Three requests: prepare, apply, restore. Two
  troubles: a failure during the rollback another trouble set off.
- *GitReview.* Two subscriptions of two queries one after the other: late updates, and a shared
  group. `MaxBacklog = 2` is the number of updates under way to a window when a read may begin. Two
  windows that share a comparison were checked as well (two subscriptions, no refresh, backlog 1, 2.95
  million states); the run in the list is the one with the refresh.
- *TurnSnapshot.* Two agents, so that captures queue and turns overlap; `Retained = 1`, so that a
  manifest drops one; two writes, one inside and one outside a range. Which files are unreadable is
  free in every capture, without a bound. Agents are alike, which the run uses as a symmetry.

`CHECK_DEADLOCK FALSE` is given everywhere: once the user, the worker and the bounds have no
further input, the system rests, and that is no error.

### Fairness, and why the code justifies it

- *Delegation.* Every await returns: reads of files end, requests and the run as a whole have
  timers (`RunFails` includes the completion timeout), `terminateProcessTree` waits a bounded time
  and then either the process is gone or `stop` rejects. Fairness is weak, one per coroutine, per
  worker, per fallback, per stop, per start. Nothing is assumed of the user (`Continue`, stops,
  restart), of the worker's turn (`BecomesIdle`, `TurnLimit`, exit), or of reconciliation.
- *ReportDelivery.* `WF_vars(Worker \/ Coordinator \/ Pi)`: as long as the worker, the coordinator or
  the agent loop has something to do, one of them does something. This is weaker than fairness for
  each of them. It contains that delegations end (`Delegation!EveryRunSettles`) and that turns do;
  the user need not act.
- *AgentHost.* Callbacks and continuations run, the pipe is read, timers fire, a turn the worker
  has accepted starts, terminations end one way or the other. A turn need not end: this is why
  `WaitersReleased` says "released, or a turn goes on".
- *AgentManager.* `WF_vars(Proceed)`, again one for everything that follows by itself: requests to
  a worker have timers, boots and terminations end. It includes that the user answers a question of
  the worker, because a prompt without a timer waits for that.
- *SessionReplay.* The worker answers `get_messages`, callbacks run, messages arrive, and the
  scheduler flushes because it has a timer beside the animation frame. The worker need not write,
  the user need not open a view.
- *GitReview.* Weak for each window's updates, each authorization, and each step of a read: they are
  timers and promises of Git commands that have a time limit. Weak for events of the watches that
  do arrive, and for `Poll`, a timer. A watch need not tell and `Retry` need not succeed.
- *GitMutation*, *TurnSnapshot*, *Transcript*, and run `two`: safety only, without fairness.

---

## 4. What is proved

The theorems hold for all values of the constants, from the assumptions in the module that declares
them (`ParametersAssumption`, `BoundsAssumption`, `TSBoundsAssumption`, `CoalescedAssumption`, `IdsAssumption`,
`RetainedAssumption`, `WindowsAssumption`, `SessionsAssumption`), which TLC evaluates on every run of
these modules. Some theorems have a hypothesis in front of the specification; the table or the text below
it says in which case the code does otherwise.

| Theorem | Statement | Argument |
|---|---|---|
| `SessionProofs!TypeCorrect` | `Spec => [](TypeOK /\ ReservationCount)` | `reservations` would leave `Nat` if a release came without its reserve, so `TypeOK` alone is not inductive; `ReservationCount` says that each counter is the number of starts still loading, which makes the decrement safe |
| `SessionProofs!RecordsCorrect` | a record exists iff a run was begun; no coroutine before its run | inductive beside `TypeOK`; every later proof needs it to know that an active entry has a current run |
| `SessionProofs!AdmissionBounded` | `Spec => []AdmissionCap` | lemma `Activation`: only `start` and `continue` make a terminal or absent record active; so first runs grow only in `StartCommit`, which gives a reservation back in the same step |
| `SessionProofs!StopsAreKept` | `~StopMayFail => (Spec => []StopsHold)` | the strengthening the next two rest on: a stop in progress is about a worker that is closing or gone, no worker is newer than `entry.host`, and a run still building its options has a worker nobody else has started |
| `SessionProofs!StoppedParentDrains` | `~StopMayFail => (Spec => []PausedParentDrains)` | a parent becomes paused only by steps that begin a stop for everything active under it; a stop ends only by settling; nothing becomes active under a paused parent |
| `SessionProofs!RunsAreAttended` | `~StopMayFail => (Spec => []NoUnattendedRun)` | each step that takes an attendant away (coroutine done, fallback idle, stop over) makes the record terminal or installs another |
| `SessionProofs!WorkersAreOwned` | `~StopMayFail => (Spec => []AllOwned)` | the strengthening the next two rest on, see below |
| `SessionProofs!WorkersAccounted` | `~StopMayFail => (Spec => []WorkersAccountedFor)` | `AllOwned` gives every running worker an owner; a terminal record without a stop has none, unless it is completed; `NewestInUse` leaves one worker per session |
| `SessionProofs!EvictionReaps` | `~StopMayFail => (Spec => []EvictedHasNoWorker)` | eviction and hydration drop only records whose worker has been closed, and a dropped entry is never active again |
| `SessionProofs!PromptsActivated` | `Spec => []PromptsRun`: from the first prompt of a run to its last answer the record is past `pending` | inductive beside `RecordedIffRun`; the contract needs it, because only a run that is running may be completed or truncated |
| `SessionProofs!ContractKept` | `Spec => KeepsContract`: every step is one of `DelegationContract` or a stutter, except a restart and a step of reconciliation | `StartCommit` is `Open`, `Continue` is `Rerun`, the settlements are `Close`; the end of a startup is `Activate`, or a stutter when a stop was faster |
| `SessionProofs!ContractImplemented` | `MaxRestarts = 0 => (Spec => ImplementsContract)` | the refinement, from `ContractKept`; `reconcilePersisted` may turn failed into completed, which the contract forbids, so with restarts only `KeepsContract` holds |
| `SessionProofs!RunsStayCurrent` | `Spec => []RunsAreCurrent` | the strengthening the next one rests on: only the newest run starts a worker, its record is active meanwhile, a fallback is tried once, after its run has returned, and a stop has aborted the signal |
| `SessionProofs!StaleRunsInert` | `Spec => StaleRunsAreInert` | one lemma per kind of await: a coroutine whose controller was replaced can only return (`Abandon`), a fallback whose run was replaced gives up, and the worker it closes on its way is its own |
| `AgentHostProofs!TypeCorrect` | `Spec => []TypeOK` | needs `Control`: lines of a chunk in hand belong to the child, which may not change under it |
| `AgentHostProofs!WorkersAreTracked`, `OneWorkerAtATime`, `WorkerIsInHand` | `Spec => []NoLostWorker`, `[]OneWorker`, `[]WorkerInHand` | `Control`: the running worker is `child` or `stopping`; at most one of the two is set; a start that is ready has neither |
| `AgentHostProofs!HostLags` | `Spec => []Lagging` | the strengthening the next one rests on, see below |
| `AgentHostProofs!IdleIsRealHolds` | `Spec => IdleIsReal` | a caller whose worker is still there is done only where `Lagging` leaves its prompt out of `answering` and no turn going on |
| `SessionProofs!Invariant` | `SRSpec => []IInv` | the strengthening the next five rest on, see below |
| `SessionProofs!ViewsTyped`, `NothingTwiceHolds` | `SRSpec => []SRTypeOK`, `[]StructuralOnce` | parts of that invariant, for chunks of any size |
| `SessionProofs!TranscriptWhole`, `ReplayClosesGap` | `MaxChunk = 1 => (SRSpec => []TranscriptIsWhole)`, `MaxChunk = 1 => (SRSpec => ReplayCloses)` | `Covered`: with one line to a chunk a snapshot has every event up to its cut |
| `SessionProofs!GapsHaveOneCause` | `SRSpec => GapsComeFromCuts` | for any chunk size: a gap opens only with a snapshot whose cut is later than what its messages reflect |
| `GitMutationProofs!SteadyHolds` | `Spec => []Steady` | the strengthening the next four rest on, see below |
| `GitMutationProofs!TypeCorrect` | `Spec => []TypeOK` | `TypeOK` says that a lock counted as our own is ours; typing the images needs that plans and records are sound |
| `GitMutationProofs!ForeignLockIsKept` | `Spec => ForeignLockKept` | a step that removes the lock is of a job that took it; another process cannot have it at the same time |
| `GitMutationProofs!NothingLost` | `~EditInUnlink => (Spec => []NothingIsLost)` | inductive together with `AtHome`: until a discard is published, what an editor wrote is at its path or is the backup of the record |
| `GitMutationProofs!ChangeImplemented` | `~EditInUnlink => (Spec => ImplementsChange)` | the refinement under the mapping `Shown`, `Saved`, see below |
| `FileReviewProofs!TurnsTyped` | `TSSpec => []TSTypeOK` | needs `Kept` (see `SnapshotsAreHonest`), `Bounded` (at most one running turn to an agent, no write before it is made) and, for the manifest of `RETAINED` snapshots, `RankExists`: a finite set of numbers has a k-th one |
| `FileReviewProofs!CapturesBracketTurns` | `TSSpec => []Inductive` | `Queued`: a capture waits once, for a turn that is where it left it; `AfterBaseline`: a turn without the warning wrote nothing before its baseline; `BeforeTarget`: one that left no command behind wrote nothing after its target began, which has all of it but what could not be read |
| `FileReviewProofs!SnapshotsAreHonest` | `TSSpec => []RangesAreHonest` | `AfterBaseline` and `BeforeTarget` place every write that could be read between the two trees; `Kept`: the index only grows, a baseline lies in it, and a target takes over all of it (`TreeFacts`, `IndexGrows`) |
| `ReportDeliveryProofs!TypeCorrect` | `Spec => []TypeOK` | needs `OneAtATime`: a tool has one request or one response under way, so that a response finds the tool it belongs to |
| `ReportDeliveryProofs!ReadAtMostOnce` | `Spec => ReadOnce` | `Held`: what waits to be notified is a background delegation whose report was neither told nor sent nor waived; `Answered`: the responses under way are about entries, and that of `delegate` never about a background one; lemma `Sends`: only a delivery sends, and only what `Held` speaks of |
| `ReportDeliveryProofs!WithdrawnIsQuiet` | `Spec => WithdrawnStaysQuiet` | the same lemma |
| `AgentManagerProofs!ManagerInvariant` | `Spec => []IInv` | the strengthening the next three rest on, see below |
| `AgentManagerProofs!TypeCorrect` | `Spec => []TypeOK` | needs `Indexed`, because `index` and `active` are typed by the map: whatever takes a host out of the map takes it out of both |
| `AgentManagerProofs!EveryWorkerIsReached` | `Spec => []WorkersAreReached` | `Single` gives each host in the map its session or a start that boots it, `Booting` makes that start the first of its queue, and there is one first |
| `AgentManagerProofs!ViewIsKept` | `Spec => ViewFollowsChoice` | `About`: the start or resume with the newest selection is of the session that was chosen last |
| `FileReviewProofs!ReviewInvariant` | `Spec => []IInv` | `Subscribed`: what a window holds, what is under way to it and what the service knows are about the same subscription; `ReadsFresh`: a read not marked outdated has all that was told |
| `FileReviewProofs!TypeCorrect`, `ComparisonsFit`, `ClosedIsIdle` | `Spec => []TypeOK`, `[]ResultsFit`, `[]NoIdleWork` | from the parts of that invariant; an update that arrives late is told from a current one by its subscription, so `ViewIsOfQuery` needs that subscriptions are not used twice |
| `TranscriptProofs!Invariant` | `Spec => []IInv` | the strengthening the next four rest on, see below |
| `TranscriptProofs!TypeCorrect`, `Quiet`, `PanelShows` | `Spec => []TypeOK`, `[]SettledIsQuiet`, `[]PanelShowsTranscript` | from that invariant: `Typed` has every message with its tools' rows, `AppKnows` that what runs or is written belongs to the step the agent is in, `PanelKnows` that a panel read again holds the transcript itself |
| `LiveViewProofs!LiveShows` | `Spec => []LiveIsReload` | from `LInv`: `IInv`, and in the App `Live`, which says of what is shown with what is held that it reads as the session does, see below |

`WorkersAccountedFor` is far from inductive: a coroutine that wakes after its await closes or replaces
a worker, so one has to know at every await whose worker it holds. `AllOwned` says this in six parts.
`NewestInUse`: the worker a session uses is the newest it created. `StartsAwaited`: a worker between
its creation and its spawn has a coroutine that waits for it. `LiveRunsOwn`, `FallbackOwns`,
`StopOwns`, `RecordOwns`: a live run, a fallback, a stop and a settled record each own at most the
worker their state says. Every part speaks of delegations that are not `overtaken`; TLC checked them
on the instance of `one` before the proof. The proof found the divergence about reconciliation in
part 5: the smaller bounds that were checked first had hidden its consequences.

For `AgentManager`, `OneWorker` says nothing about a worker that a start is still booting beside the
host the index leads to, so it is not inductive either. `Single` adds that the index is empty while a
start boots, `Booting` that this start is the first in the queue of its session, and `Fresh` what a
restart may do to a host that is not up yet: it may be queued or have asked, but it can neither stop
nor spawn a worker there. This last part depends on the order in which promises run: a start whose
worker is gone is told before anything else happens (`Quiet`).

The assumption `~StopMayFail` is needed: `StopRejected` ends a stop without settling the entry, so
when a process survives its termination the properties about stops and workers are false, as the code
then is (the caller gets the rejection and may stop again; `StopReturns` is checked for that case).
What a run may do to a later one does not depend on it, nor does the contract: `RunsAreCurrent` and
`PromptsRun` say nothing about workers. Both speak of what the awaits leave true, so they are proved
by one lemma per await, like `AllOwned`; `RunsAreCurrent` leaves out the entries that are `overtaken`.

For `AgentHost`, `IdleIsReal` relates a caller to what the worker did, while the code only sees lines
that come later. `Lagging` bounds the distance. `NothingInOthers`: a worker that does not run has
nothing in its pipes. `PromptsOnce`: a prompt is written to one worker and answered once.
`TurnsAnswer`: the ends of turns in the pipe precede the acceptance of a prompt whose turn goes on,
so they cannot be taken for its end. `TurnIsTold`: a turn that goes on is believed, or will be when
the lines in the pipe are read. `CallersFollow`: what a caller waits for is still to come. Without
`TurnsAnswer` an old `agent_settled` would end the wait of the next prompt.

For `SessionReplay`, two facts carry the invariant. `StdoutInOrder`: the lines not read yet are
exactly the events `AgentHost` has not numbered, in order, with answers that reflect those before
them. `RestComing`: what a live view has not counted is still in the channel behind it. From them,
the events a snapshot's own replay would add are none, and comparing with `eventSeq` is enough to take
no event twice. The hypothesis `MaxChunk = 1` is needed: part 5 shows `NothingMissing` violated with
two lines to a chunk. `GapsHaveOneCause` says that nothing else than this cut opens a gap behind a
view that `agent:attach` opened.

For `GitMutation`, a discard touches several files, the index and the recovery point in steps that
fail or crash at any place while editors write. `Steady` says what each step finds. `Placed`: which job
may stand at which step. `PlansAreSound`, `VersionsAreGiven`: a plan changes only its own files, to
something other than they were, and an editor's next version is new. `OnlyDiscard`, `PointIsOfJob`: the
recovery point belongs to the one discard, and has the images the job works with. `RecordIsSound`,
`UnderWay`, `InOrder`: each file is replaced, under way or still to come, and a file that stands at a
path is not the one moved aside from it. `RestoreSees`: a file a restore leaves alone does not become
what the operation made of it. From `Steady` alone follow the types and the lock; `Safe` adds `AtHome`
for what editors wrote. The refinement shows the project as the abstract change sees it: until the
index is published the files of the operation are shown as they were, afterwards as they shall be, so
that `EditFile`, `EditIndex` and `Save` of `GitChange` are the edits, the index writes of others and
`Create`; the step that publishes the index is `Discard`, `Restore` or `Stage` at once; a rollback
that fails for a file and a crash in between are `Tear`; every other step is a stutter. The hypothesis
`~EditInUnlink` is needed: part 5 shows `NothingIsLost` violated when an editor saves between the
rollback's look and its unlink.

For `Transcript`, what the user sees is a fold over everything that was ever said, so the invariant
must say what one more event may find. `Going`: a message has no more parts than its kind, and the
calls of a message follow it. `Waiting`: the updates held for a frame are of the message being
written or of the tool that runs, so that a frame, however late, only tells what is still true.
`AppKnows`: unless it was misled the App runs while the agent is busy; a tool shown as running is the
agent's, in the last message; a message still being written is followed by another once nothing runs.
`PanelKnows`: while the delegation is over the agent is idle, so the file that was read is the whole
transcript and nothing was kept meanwhile. TLC checked these parts on the constants of `transcript`,
and on larger ones, before the proof. The proof also made two pairs of overlapping CASE arms of the
model explicit.

`LiveIsReload` compares what two functions make of two sequences: `Presentation` of the messages the
App has built event by event, and `Presentation` of the messages `normalizeMessages` makes of the
session's records. Neither is inductive, for both group and filter the whole history anew. Lemma
`Presents` says that `Presentation` shows no more than a `Digest` tells: the turns that are over, and
the rows and the tools' outcomes of the turn that may go on. A digest is a fold, so one more message
changes it in a known way (`DigestSteps`), and a message whose later state says more overlays what was
known before. On it rests `Live`, in four parts. `Questions`: each question and each steer has its
own words, and the session has none but those that were read. `Calling`: the calls that are left are
of the last message and have no result in the session yet. `HeldBack`: while a message is written, the
updates held are earlier states of it and the last is all of it. `Shows`: the messages shown, after
the updates held for a frame (`flush`), have the digest of the records and of the message under way,
and their last message is the one the agent is at; or they have it but for a question that was painted
and is not read yet. So a `Resync` that replays held updates over messages that already have them only
rewrites texts until the last one. It speaks of a view that is live and that no question was sent into
a turn taken for ended (`app.misled # "asked"`), as the property does. There is one lemma for each
action of the agent and of the App, `Resync` among them.

Some definitions use a form the provers can take, with the meaning of the library's operators, which
are opaque to them: `InOrder` of `SessionReplay` takes the n-th member of a set instead of
`SetToSortSeq`, `Nth` and `Others` of `TurnSnapshot` stand for `SelectSeq`. That a set has an n-th
member is shown by the smallest counterexample (`WFMin` on the naturals), because the induction theorems
take an operator. The folds of `Conversation` are reached in the same way: lemma `UpTo` is induction on a set
of numbers, `Trace` and `Reduced` give a fold as the function of its intermediate results, and each
fold gets two lemmas, for the empty sequence and for one element more.

Only model-checked: every liveness property, which the prover cannot treat under fairness
(`EveryRunSettles`, `StopReturns`, `ReportsArrive`, `CatchesUp` of both modules,
`NobodyWaitsInVain`, `CallsSettle`). Every other property of a run is the statement of a theorem.

---

## 5. What the checks found

One run expects a violation: TLC reaches it with the code as it is. `interrupted` /
`InterruptedRecoverable`: between the rename of a file to its backup and the link of its new content
the path is missing. A crash there leaves a recovery point with status `prepared`, but `restore`
accepts only files that are as before or as after the operation, and refuses. The content is still in
the backup beside the path and in the recovery point, but the panel cannot bring it back.

### Further divergences the models show

These properties are stated in the modules. No run lists them, because the code does not satisfy
them; each can be seen by giving it to TLC with the constants on the right (constants not named:
as in the run of that module).

| Property | What the code does | Constants |
|---|---|---|
| `Delegation!NoWorkerBehindFailure` | `runPrompt` ignores a rejected stop of the worker and settles the record as failed, although `AgentHost.stop` rejects just when the process is alive (`delegation-coordinator.ts:728`; the comments at `:702` and `:727` say this does not coexist) | `OneDelegation`, `Pinned <- NoDelegation`, `StopMayFail = TRUE`, `MaxRuns = MaxHosts = MaxEpoch = 1`, `MaxRestarts = 0` |
| `Delegation!StopParentReapsWorkers` | `stopParent` leaves the idle worker of a completed child (`delegation-coordinator.ts:379`); `index.ts:1259` says deletion of a session has stopped all of them | the same with `StopMayFail = FALSE` |
| `Delegation!ReconcileOnlyFailed` (a PROPERTY) | a `continue` while reconciliation reads the session file is overwritten with `completed`; the checks (`:1282`) are before the await, the write (`:1289`) after it. The run goes on behind a record that looks finished: a further `continue` starts a second worker on the session file, and a retained entry that is dropped may leave a worker behind (quantified over all of `Delegations`, `OneWorkerPerSession` is violated with `MaxRuns = 3`, and `EvictedHasNoWorker` with two delegations) | `StopMayFail = FALSE`, `MaxRuns = MaxHosts = 2`, `MaxEpoch = MaxRestarts = 1` |
| `SessionReplay!NothingMissing` | an event behind the answer to `get_messages` in the same stdout chunk is in neither the snapshot nor the replay (`agent-host.ts:353`, comment `:351`) | `Updates <- SomeUpdates`, `Capacity = 2`, `MaxChunk = 2`, `MayStart = FALSE`, `MaxEvents = 2`, `MaxViews = 1` |
| `SessionReplay!AfterReplayNothingMissing` | a live event that comes before the answer to `agent:replay` makes the renderer drop the older events of that answer (`App.tsx:1114`, comment `:1108`); it needs `agent:start`, which awaits between the cut and its answer | `Capacity = 4`, `MaxChunk = 1`, `MayStart = TRUE`, `MaxEvents = 3`, `MaxViews = 1` |
| `AgentHost!InTurnIsReal` | a turn that ends while a stop is under way that then fails is reported as going on by a host whose worker idles (`agent-host.ts:629`, comment `:286`) | `MaxPrompts = MaxWorkers = MaxStops = 1` |
| `AgentManager!ClosedIsQuiet` | `stopAll` forgets the queues (`agent-manager.ts:287`), not what waits in them: a start behind another one creates a worker after the window has closed (`index.ts:604`) | `MaxHosts = MaxCalls = 2`, `MaxTroubles = 0` |
| `GitMutation!NothingIsLost` | the rollback looks at a file and unlinks it in two steps (`git-worktree-files.ts:139`); what an editor saves in between is gone | `MaxRequests = 2`, `EditInUnlink = TRUE` |
| `GitReview!SlowReadsEnd` | each retry of the watches (`git-watch.ts:82`) invalidates a read in progress; a read slower than the interval never publishes (`docs/file-review-fr-03.md`) | `MaxSubs = 1`, `MaxRefreshes = 0`, `SlowReads = TRUE` |
| `TurnSnapshot!KeepsTheLatest` | two captures load the manifest and write it one after the other (`turn-snapshot.ts:331`): the second forgets the first (`docs/file-review-fr-11.md`) | `Retained = 2`, `MaxFailures = 0` |
| `TurnSnapshot!PretendsNothing` | `git add --ignore-errors` may leave out files, its exit code 1 is accepted (`turn-snapshot.ts:261`, comment `:260`: "keeps a readable subset"), and nobody adds a warning: a snapshot may lack a write of its turn and look complete, which `docs/file-review-fr-11.md:33` excludes for writes beside the baseline | `MaxTurns = MaxWrites = 1`, `MaxFailures = 0` |
| `ReportDelivery!ContinuedReportsArrive` (a PROPERTY) | `delegate_continue` returns at once, with the delegation no longer in `backgroundDelegations`: the end of the run it began is not notified (`delegate.ts:871`), although `docs/subagent-workflow.md:55` says that reports not yet read are | `OneId`, `Coalesced = FALSE`, `MaxRuns = MaxCalls = 2`, `MaxInputs = MaxAborts = 0` |
| `ReportDelivery!StoppedStaysQuiet` | a parent stopped between `agent_end` and idleness has no turn that ends as aborted; buffered reports stay and wake it (`delegate.ts:682`, `docs/subagent-workflow.md`) | `OneId`, `Coalesced = FALSE`, `MaxRuns = MaxInputs = MaxCalls = MaxAborts = 1` |
| `Transcript!PanelIsReconciled` | if the delegation ends while the first load of its panel is out, reconciliation is skipped for good (`child-session-panel.tsx:178`, comment `:176`); events that are both in the file and in the buffer stay there twice | `Views = {"panel"}`, `MaxBuffered = 20`, `MaxPrompts = MaxMessages = 1`, `MaxTroubles = 0` |
| `Transcript!IgnoredLineEndsNothing` | a line of the worker that cannot be read is reported as ignored (`agent-host.ts:768`) through the channel of errors, upon which the App marks the turn as failed and not running (`App.tsx:1944`) although it goes on; a question sent then splits the turn that runs | `Views = {"app"}`, `MaxPrompts = MaxMessages = MaxTroubles = 1` |
| `Transcript!NothingStreams` | a worker stops just after it has read a steer: `settleStoppedTurn` adds an interrupted answer behind it and leaves the message before, which has no text yet, streaming (`conversation.ts:908`, comment `:882`) until the next settle or reload | `Views = {"app"}`, `MaxPrompts = MaxMessages = 1`, `MaxTroubles = 2` |

`ReportsArrive` excludes two cases that its formula names. `overlooked`: the end of a run that is
read together with the answer to its start is dropped, because the tool has not yet put the id among
the background delegations (`delegate.ts:756`). `suspended`: a message typed just before a stop
runs a turn with deliveries still suspended.

Seen while reading, without a property: `continue` does not look at the concurrency limit
(`AdmissionCap` therefore speaks of first runs); `uiRequest` is not cleared when the fallback begins;
a failed `stopEntry` leaves an active entry that holds its slot until it is stopped again; the
fallback of a continued run launches the original task; `requestCache` does not recognise a
duplicate that is still in flight (nothing in the source sends one); a local `continue` after a stop
keeps the aborted `AbortController` of its entry; `delegate_stop` without ids withdraws completed
reports nobody has read on the desktop, and only active delegations elsewhere; a panel opened in the
middle of the second message of a turn merges its updates into the first until the reconciliation; a
stop pressed before the worker has read the prompt is lost; the death of an idle worker marks the
last completed answer as interrupted and failed (`App.tsx:1953`); a steer with the text of the
question is swallowed while the answer has no text (`conversation.ts:438`); a prompt refused after a
stop leaves its empty interrupted answer; `awaitingTurnStart` stays set when a worker
exits between a prompt and its turn, until the next start or stop; a prompt sent in the last moment
of a turn is accepted but, until its `agent_start`, leaves no trace in `turnActive` or
`awaitingTurnStart` (`agent-host.ts:649`); a second `bind` that fails (`git-service.ts:87`) and a
refresh of a subscription that is not registered yet (`git-review-store.ts:50`) leave the panel
loading until the next request.

---

## 6. Not modelled, and what could come next

### What the modules assume

- *Delegation*: evicted entries are any terminal ones (their age is not modelled); the completion
  timer and the turn watchdog may fire at any time; persistence of a row happens with the change of
  the record.
- *ReportDelivery*: the first turn of the parent has begun; a tool runs at a time, although
  `delegate` allows several in parallel (`delegate.ts:776`); a launch that fails at once has failed
  by the time the response to its start is written; the listener for a foreground abort adds a stop
  that finds nothing left to do after `stopParent`; the end of the session, a restart of the worker,
  truncated reports (like completed ones), interrupted runs (like cancelled ones) and stops that
  fail (like refusals) are not told apart.
- *SessionReplay*: the channel to the renderer is first in, first out; the worker's answer reflects
  every event written before it; requests for a snapshot do not fail; the events the main process
  adds itself are left out; an update is an event like any other, although it carries the whole
  content of its message; how many bytes an event has is not modelled (any prefix of the buffer may
  leave until the count fits).
- *Transcript*: `get_messages` contains the message being written, as the comment at
  `agent-host.ts:351` says; questions and steers have different texts; `message_end` has what the
  updates showed; a session is not compacted and is short enough to be read whole, so that
  `mergeHistoryMessages` changes nothing; opening a thread and a resync are one step each
  (`SessionReplay` has their inside); a hidden panel holds its messages back from React, not from
  the fold; `queued` is never set, and the running tool `startAgent` looks for (`App.tsx:1091`)
  cannot be among normalised records. `PanelShowsTranscript` excludes reads that failed and the case
  of `PanelIsReconciled` (`panel.skipped`), `LiveIsReload` a question sent into a turn taken for
  ended (`app.misled`). `LiveIsReload` compares how a tool ended only if its result is recorded
  (`TurnTool`): without a result it is shown as running or interrupted live (`conversation.ts:883`)
  and as complete after a reload (`:571`). The marks of failed and interrupted turns are not
  compared either. A resync that leaves the updates held by the scheduler (`App.tsx:1117`) is in it
  and does no harm: a flush applies all of them, and the last is as new as the snapshot.
- *AgentHost*: the grace period of `waitForIdle` is longer than a worker needs from accepting a
  prompt to `agent_start`; one caller at a time starts workers; prompts are sent one after the
  other's response, as the queue of `AgentManager` and the run of a delegation do; capability
  reloads, questions to the user, statistics and the bridges are not in it.
- *AgentManager*: reloads that need no restart, `list`, the age and number by which the reaper
  chooses, and sessions whose file changes its name are left out. Commands to a host that a start is
  still booting are left out, as its id is not known before the start has answered. A start that
  meets, in its queue, a host which another start has booted asks for the snapshot at once; that it
  first waits for a reload of that host which began in between (`agent-manager.ts:186`) is left out.
- *GitMutation*: one window and one recovery point; links and paths that leave the project are
  handled like files; how `prepare` computes patches and images is a result that takes its time;
  `finish` removes the backups in one step; "stage" stands for stage and unstage.
- *GitReview*: the project is a repository; a request of a window reaches the service at once,
  updates arrive late and in order (so the sequence numbers are left out); closing or reloading the
  page, more than 16 subscriptions, `mutationContext` and the watch mode shown to the user are left
  out.
- *TurnSnapshot*: one project; loading the manifest and publishing the latest are one step each; a
  stopped worker's commands end with it; the warning of an early tool is decided when the tool
  starts, by the order of events, where the code compares times in milliseconds when it captures
  (`turn-snapshot.ts:236`; the two differ only if the baseline ends in the millisecond in which the
  tool starts); what a tree has of a file is never taken out by a later write to it, so that
  `NothingTakenBack` is about files that could not be read and captures cut short; that quitting
  does not wait for captures (`git-ipc.ts:175`), a cache that `find` reads while a capture stores
  (`turn-snapshot.ts:322`) and two starts in the same millisecond are left out.

### What could come next

`DelegationRegistry` (subagents without the desktop), commits (`git-commit.ts`, which shares the
queue of the mutations), atomic file writes, patch checkpoints, managed processes, the file document
store of the panels, the choice of a report's messages (`shared/delegation.ts`) as a pure function,
and a composition of `Delegation` with `AgentHost`, so that the worker's life is the host's.

### Left out on purpose

The thread index, runtime tools and policies, browser, terminal, files and review panels,
providers, skills, MCP and settings are data access, text or input and output around small
registries: there is little order of events in them for a model checker to explore. They, the
parsing of diffs and the user interface are most of the source by lines, which is why the modules
map a small share of it.
