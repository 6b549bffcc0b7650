------------------------------- MODULE AgentHost -------------------------------
(***************************************************************************)
(* AgentHost (src/main/agent-host.ts): one RPC worker process after        *)
(* another, the prompts sent to it, its turns as they are seen through     *)
(* stdout, and waitForIdle, which decides when a delegation or a review    *)
(* has come to its end.                                                    *)
(*                                                                         *)
(* Callbacks of the main process run to their end, then the promises they  *)
(* resolved.  A prompt stands for the caller that sends it and may then    *)
(* call waitForIdle.  One caller starts workers; calls of stop come at any *)
(* time.                                                                   *)
(***************************************************************************)
EXTENDS Integers, Sequences, FiniteSets

CONSTANTS
  MaxPrompts,   \* bound: prompts sent
  MaxWorkers,   \* bound: workers spawned
  MaxStops,     \* bound: calls of stop
  MaxChunk,     \* lines the pipe hands over in one read
  StopMayFail   \* may a process survive terminateProcessTree?

ASSUME BoundsAssumption ==
  /\ MaxPrompts \in Nat /\ MaxWorkers \in Nat /\ MaxStops \in Nat
  /\ MaxChunk \in Nat \ {0}
  /\ StopMayFail \in BOOLEAN

VARIABLES
  process,      \* of each worker: "none", "running" or "gone"
  inbox,        \* prompts in its stdin
  out,          \* lines in its stdout
  turn,         \* what it does: "idle", "accepted" (a turn is about to start) or "turn"
  answering,    \* accepted prompts whose turn is not over
  child,        \* the field child: a worker, or 0
  chunk,        \* lines of the chunk in hand not handled yet
  turnActive, awaitingTurnStart, turnStartTimer,
  stopping, wasActive,   \* the worker stopNow terminates, or 0, and its local
  starter,      \* start: "no", "stopping" (awaits stop), "ready" (stop has resolved)
  stops, stopFailed,     \* calls of stop; has one failed?
  pc,           \* of each prompt's caller
  worker,       \* the worker its prompt was sent to
  startsTurn    \* local of request

workerVars == <<process, inbox, out, turn, answering>>
hostVars   == <<child, chunk, turnActive, awaitingTurnStart, turnStartTimer>>
stopVars   == <<stopping, wasActive, starter, stops, stopFailed>>
callVars   == <<pc, worker, startsTurn>>
vars == <<workerVars, hostVars, stopVars, callVars>>

Prompts == 1..MaxPrompts
Workers == 1..MaxWorkers

Lines == [type : {"accepted", "refused"}, prompt : Prompts] \cup [type : {"agent_start", "agent_settled"}]

\* A caller waits for the response, for agent_settled, for agent_start, or for
\* agent_settled again; between the event and its continuation it is "answered",
\* "failed", "settled", "started", "quiet" or "settledAgain".  waitForIdle has
\* returned at "done"; a caller that did not call it is at "left".
Resolved == {"answered", "failed", "settled", "started", "quiet", "settledAgain"}
Waiting  == {"settle", "grace", "settleAgain"}
Places   == {"unsent", "asking", "rejected", "left", "done"} \cup Waiting \cup Resolved

WorkerTypes ==
  /\ process \in [Workers -> {"none", "running", "gone"}]
  /\ inbox \in [Workers -> Seq(Prompts)] /\ out \in [Workers -> Seq(Lines)]
  /\ turn \in [Workers -> {"idle", "accepted", "turn"}]
  /\ answering \in [Workers -> SUBSET Prompts]

HandTypes ==
  /\ child \in 0..MaxWorkers
  /\ chunk \in Nat /\ (chunk > 0 => child # 0 /\ chunk <= Len(out[child]))

FlagTypes ==
  /\ turnActive \in BOOLEAN /\ awaitingTurnStart \in BOOLEAN /\ turnStartTimer \in BOOLEAN
  /\ turnStartTimer => awaitingTurnStart

StopTypes ==
  /\ stopping \in 0..MaxWorkers /\ wasActive \in BOOLEAN
  /\ starter \in {"no", "stopping", "ready"} /\ (starter = "stopping" => stopping # 0)
  /\ stops \in 0..MaxStops /\ stopFailed \in BOOLEAN

CallTypes ==
  /\ pc \in [Prompts -> Places]
  /\ worker \in [Prompts -> 0..MaxWorkers] /\ startsTurn \in [Prompts -> BOOLEAN]

TypeOK == WorkerTypes /\ HandTypes /\ FlagTypes /\ StopTypes /\ CallTypes

Init ==
  /\ process = [w \in Workers |-> "none"]
  /\ inbox = [w \in Workers |-> <<>>] /\ out = [w \in Workers |-> <<>>]
  /\ turn = [w \in Workers |-> "idle"] /\ answering = [w \in Workers |-> {}]
  /\ child = 0 /\ chunk = 0
  /\ turnActive = FALSE /\ awaitingTurnStart = FALSE /\ turnStartTimer = FALSE
  /\ stopping = 0 /\ wasActive = FALSE /\ starter = "no" /\ stops = 0 /\ stopFailed = FALSE
  /\ pc = [p \in Prompts |-> "unsent"]
  /\ worker = [p \in Prompts |-> 0] /\ startsTurn = [p \in Prompts |-> FALSE]

-----------------------------------------------------------------------------
(* The worker.                                                             *)

Say(w, line) == out' = [out EXCEPT ![w] = Append(@, line)]

\* It accepts a prompt, into the turn in progress or for a turn to come, or
\* handles it without a turn, or refuses it.
TakePrompt(w) ==
  LET p == Head(inbox[w]) IN
  /\ process[w] = "running"
  /\ inbox[w] # <<>>
  /\ inbox' = [inbox EXCEPT ![w] = Tail(@)]
  /\ \/ /\ Say(w, [type |-> "accepted", prompt |-> p])
        /\ answering' = [answering EXCEPT ![w] = @ \cup {p}]
        /\ turn' = [turn EXCEPT ![w] = IF @ = "idle" THEN "accepted" ELSE @]
     \/ /\ Say(w, [type |-> "accepted", prompt |-> p])
        /\ UNCHANGED <<answering, turn>>
     \/ /\ Say(w, [type |-> "refused", prompt |-> p])
        /\ UNCHANGED <<answering, turn>>
  /\ UNCHANGED <<process, hostVars, stopVars, callVars>>

TurnStarts(w) ==
  /\ process[w] = "running"
  /\ turn[w] = "accepted"
  /\ turn' = [turn EXCEPT ![w] = "turn"]
  /\ Say(w, [type |-> "agent_start"])
  /\ UNCHANGED <<process, inbox, answering, hostVars, stopVars, callVars>>

TurnEnds(w) ==
  /\ process[w] = "running"
  /\ turn[w] = "turn"
  /\ turn' = [turn EXCEPT ![w] = "idle"]
  /\ answering' = [answering EXCEPT ![w] = {}]
  /\ Say(w, [type |-> "agent_settled"])
  /\ UNCHANGED <<process, inbox, hostVars, stopVars, callVars>>

-----------------------------------------------------------------------------
(* The main process: helpers.                                              *)

\* No callback is under way and no promise's continuation is due.
MainIdle == chunk = 0 /\ starter # "ready" /\ \A p \in Prompts : pc[p] \notin Resolved

isRunning == child # 0

\* flushStartWaiters and flushSettledWaiters, which resolve promises.
AfterStart(at)   == CASE at = "grace" -> "started" [] OTHER -> at
AfterSettled(at) == CASE at = "settle" -> "settled" [] at = "settleAgain" -> "settledAgain" [] OTHER -> at

\* Both, the former with "no start seen"; pending requests are rejected.
Released(at) ==
  CASE at = "grace" -> "quiet" [] at = "asking" -> "failed" [] OTHER -> AfterSettled(at)

\* Faulty variant of ClearTurnStart: the timer goes on.
ClearTurnStartHalf == awaitingTurnStart' = FALSE /\ UNCHANGED turnStartTimer

ClearTurnStart == awaitingTurnStart' = FALSE /\ turnStartTimer' = FALSE

\* The grace period is assumed to be longer than a worker takes to start the
\* turn of a prompt it has accepted.
GraceOver ==
  child # 0 => /\ turn[child] # "accepted"
               /\ \A i \in 1..Len(out[child]) : out[child][i].type # "agent_start"

-----------------------------------------------------------------------------
(* stdout of the worker.                                                   *)

Read(k) ==
  /\ MainIdle
  /\ child # 0
  /\ k \in 1..Len(out[child])
  /\ chunk' = k
  /\ UNCHANGED <<workerVars, child, turnActive, awaitingTurnStart, turnStartTimer, stopVars, callVars>>

\* handleLine: a response settles its request, if that is still pending; the
\* two events drive turnActive in tagged().
HandleLine ==
  LET line == Head(out[child]) IN
  /\ chunk > 0
  /\ chunk' = chunk - 1
  /\ out' = [out EXCEPT ![child] = Tail(@)]
  /\ \/ /\ line.type \in {"accepted", "refused"}
        /\ pc' = [pc EXCEPT ![line.prompt] =
                    IF @ # "asking" THEN @ ELSE IF line.type = "accepted" THEN "answered" ELSE "failed"]
        /\ UNCHANGED <<turnActive, awaitingTurnStart, turnStartTimer>>
     \/ /\ line.type = "agent_start"
        /\ ClearTurnStart
        /\ turnActive' = TRUE
        /\ pc' = [p \in Prompts |-> AfterStart(pc[p])]
     \/ /\ line.type = "agent_settled"
        /\ ClearTurnStart
        /\ turnActive' = FALSE
        /\ pc' = [p \in Prompts |-> AfterSettled(pc[p])]
  /\ UNCHANGED <<process, inbox, turn, answering, child, stopVars, worker, startsTurn>>

\* Output of a worker that is being terminated is dropped.
DropLine ==
  /\ MainIdle
  /\ stopping # 0
  /\ out[stopping] # <<>>
  /\ out' = [out EXCEPT ![stopping] = Tail(@)]
  /\ UNCHANGED <<process, inbox, turn, answering, hostVars, stopVars, callVars>>

-----------------------------------------------------------------------------
(* request("prompt") and waitForIdle.                                      *)

\* The queue of AgentManager, and the sequence of calls in a coordinator's
\* run, let one prompt at a time wait for its response.
Send(p) ==
  /\ MainIdle
  /\ pc[p] = "unsent"
  /\ \A q \in Prompts : q < p => pc[q] \notin {"unsent", "asking"}
  /\ \/ /\ child = 0
        /\ pc' = [pc EXCEPT ![p] = "rejected"]
        /\ UNCHANGED <<inbox, awaitingTurnStart, turnStartTimer, worker, startsTurn>>
     \/ /\ child # 0
        /\ pc' = [pc EXCEPT ![p] = "asking"]
        /\ worker' = [worker EXCEPT ![p] = child]
        /\ inbox' = [inbox EXCEPT ![child] = Append(@, p)]
        /\ startsTurn' = [startsTurn EXCEPT ![p] = ~turnActive]
        /\ \/ /\ turnActive
              /\ UNCHANGED <<awaitingTurnStart, turnStartTimer>>
           \/ /\ ~turnActive
              /\ awaitingTurnStart' = TRUE
              /\ turnStartTimer' = FALSE
  /\ UNCHANGED <<process, out, turn, answering, child, chunk, turnActive, stopVars>>

RequestTimeout(p) ==
  /\ MainIdle
  /\ pc[p] = "asking"
  /\ pc' = [pc EXCEPT ![p] = "failed"]
  /\ UNCHANGED <<workerVars, hostVars, stopVars, worker, startsTurn>>

\* Faulty variant of BeginWait: the gap before agent_start is taken for idle.
BeginWaitGraceless == IF turnActive /\ isRunning THEN "settle" ELSE "done"

\* waitForIdle up to its first await that does not return at once.
BeginWait ==
  CASE turnActive /\ isRunning  -> "settle"
    [] ~turnActive /\ isRunning -> "grace"
    [] OTHER                    -> "done"

\* Faulty variant of TimerAfter: the timer is forgotten.
TimerAfterNone(p) == turnStartTimer

\* The response's continuation starts the timer that ends awaitingTurnStart.
TimerAfter(p) == turnStartTimer \/ (startsTurn[p] /\ child = worker[p] /\ awaitingTurnStart)

\* After it the caller waits for idle or has what it wants.
PromptAnswered(p) ==
  /\ chunk = 0
  /\ pc[p] = "answered"
  /\ turnStartTimer' = TimerAfter(p)
  /\ \E next \in {BeginWait, "left"} : pc' = [pc EXCEPT ![p] = next]
  /\ UNCHANGED <<workerVars, child, chunk, turnActive, awaitingTurnStart, stopVars, worker, startsTurn>>

PromptFailed(p) ==
  /\ chunk = 0
  /\ pc[p] = "failed"
  /\ pc' = [pc EXCEPT ![p] = "rejected"]
  /\ \/ /\ startsTurn[p] /\ child = worker[p]
        /\ ClearTurnStart
     \/ /\ ~(startsTurn[p] /\ child = worker[p])
        /\ UNCHANGED <<awaitingTurnStart, turnStartTimer>>
  /\ UNCHANGED <<workerVars, child, chunk, turnActive, stopVars, worker, startsTurn>>

\* The continuations inside waitForIdle; awaitSettledTurn looks again.
WaitGoesOn(p) ==
  /\ chunk = 0
  /\ \/ pc[p] = "settled"      /\ pc' = [pc EXCEPT ![p] = BeginWait]
     \/ pc[p] = "quiet"        /\ pc' = [pc EXCEPT ![p] = "done"]
     \/ pc[p] \in {"started", "settledAgain"}
        /\ pc' = [pc EXCEPT ![p] = IF turnActive /\ isRunning THEN "settleAgain" ELSE "done"]
  /\ UNCHANGED <<workerVars, hostVars, stopVars, worker, startsTurn>>

GraceEnds(p) ==
  /\ MainIdle
  /\ pc[p] = "grace"
  /\ GraceOver
  /\ pc' = [pc EXCEPT ![p] = "quiet"]
  /\ UNCHANGED <<workerVars, hostVars, stopVars, worker, startsTurn>>

TurnStartTimeout ==
  /\ MainIdle
  /\ turnStartTimer
  /\ GraceOver
  /\ ClearTurnStart
  /\ UNCHANGED <<workerVars, child, chunk, turnActive, stopVars, callVars>>

-----------------------------------------------------------------------------
(* start, stop and exit.                                                   *)

\* stopNow up to its await: waiters are released before anything else, the
\* worker is taken out of child and its requests are rejected.
StopNow ==
  /\ ClearTurnStart
  /\ turnActive' = FALSE
  /\ pc' = [p \in Prompts |-> Released(pc[p])]
  /\ wasActive' = turnActive
  /\ stopping' = child
  /\ child' = 0

\* A stop during a stop gets the same promise.
Stop ==
  /\ MainIdle
  /\ stops < MaxStops
  /\ stopping = 0
  /\ StopNow
  /\ stops' = stops + 1
  /\ UNCHANGED <<workerVars, chunk, starter, stopFailed, worker, startsTurn>>

\* Faulty variant of SharesStop: start does not wait for a stop under way.
SharesStopNot == FALSE

SharesStop == stopping # 0

\* start first stops the worker there is, or joins the stop under way.
Start ==
  /\ MainIdle
  /\ starter = "no"
  /\ \E w \in Workers : process[w] = "none"
  /\ \/ /\ SharesStop
        /\ starter' = "stopping"
        /\ UNCHANGED <<child, turnActive, awaitingTurnStart, turnStartTimer, pc, stopping, wasActive>>
     \/ /\ ~SharesStop
        /\ StopNow
        /\ starter' = IF child # 0 THEN "stopping" ELSE "ready"
  /\ UNCHANGED <<workerVars, chunk, stops, stopFailed, worker, startsTurn>>

\* start goes on, unless its caller has lost interest meanwhile (isCurrent).
Spawn ==
  LET w == CHOOSE w \in Workers : process[w] = "none" IN
  /\ chunk = 0
  /\ starter = "ready"
  /\ starter' = "no"
  /\ \/ /\ process' = [process EXCEPT ![w] = "running"]
        /\ child' = w
     \/ UNCHANGED <<process, child>>
  /\ UNCHANGED <<inbox, out, turn, answering, chunk, turnActive, awaitingTurnStart, turnStartTimer,
                 stopping, wasActive, stops, stopFailed, callVars>>

\* Nothing of a worker that is gone matters any more.
Ends(w) ==
  /\ process' = [process EXCEPT ![w] = "gone"]
  /\ inbox' = [inbox EXCEPT ![w] = <<>>] /\ out' = [out EXCEPT ![w] = <<>>]
  /\ turn' = [turn EXCEPT ![w] = "idle"] /\ answering' = [answering EXCEPT ![w] = {}]

\* stopNow after terminateProcessTree, and the start that awaits it.
StopSucceeds ==
  /\ MainIdle
  /\ stopping # 0
  /\ Ends(stopping)
  /\ stopping' = 0
  /\ starter' = IF starter = "stopping" THEN "ready" ELSE starter
  /\ UNCHANGED <<hostVars, wasActive, stops, stopFailed, callVars>>

ChildAfterFailure == stopping

\* The process is still there: child and turnActive are put back.
StopFails ==
  /\ StopMayFail
  /\ MainIdle
  /\ stopping # 0
  /\ child' = ChildAfterFailure
  /\ turnActive' = wasActive
  /\ stopping' = 0
  /\ starter' = IF starter = "stopping" THEN "no" ELSE starter
  /\ stopFailed' = TRUE
  /\ UNCHANGED <<workerVars, chunk, awaitingTurnStart, turnStartTimer, wasActive, stops, callVars>>

\* Faulty variant of AfterExit: who waits for the end of a turn is forgotten.
AfterExitUnsettled(at) == CASE at = "asking" -> "failed" [] at = "grace" -> "quiet" [] OTHER -> at

AfterExit(at) == Released(at)

\* The worker ends by itself: its exit event, and handleExit.
Exit ==
  /\ MainIdle
  /\ child # 0
  /\ Ends(child)
  /\ child' = 0
  /\ turnActive' = FALSE
  /\ pc' = [p \in Prompts |-> AfterExit(pc[p])]
  /\ UNCHANGED <<chunk, awaitingTurnStart, turnStartTimer, stopVars, worker, startsTurn>>

-----------------------------------------------------------------------------
Continuations == Spawn \/ \E p \in Prompts : PromptAnswered(p) \/ PromptFailed(p) \/ WaitGoesOn(p)

Next ==
  \/ \E w \in Workers : TakePrompt(w) \/ TurnStarts(w) \/ TurnEnds(w)
  \/ \E k \in 1..MaxChunk : Read(k)
  \/ HandleLine \/ DropLine \/ Continuations
  \/ \E p \in Prompts : Send(p) \/ RequestTimeout(p) \/ GraceEnds(p)
  \/ TurnStartTimeout
  \/ Start \/ Stop \/ StopSucceeds \/ StopFails \/ Exit

Spec == Init /\ [][Next]_vars

\* Callbacks and continuations run, lines in the pipe are read, timers fire,
\* an accepted turn starts and a termination comes to an end.  A turn need
\* not end, and nothing is assumed of the callers.
Fairness ==
  /\ \A w \in Workers : WF_vars(TurnStarts(w))
  /\ WF_vars(\E k \in 1..MaxChunk : Read(k)) /\ WF_vars(HandleLine \/ Continuations)
  /\ \A p \in Prompts : WF_vars(GraceEnds(p)) /\ WF_vars(RequestTimeout(p))
  /\ WF_vars(TurnStartTimeout) /\ WF_vars(StopSucceeds \/ StopFails)

FairSpec == Spec /\ Fairness

-----------------------------------------------------------------------------
(* Properties                                                              *)

\* A host never has two workers at once, which would write the same session
\* file: start spawns only when the one before it is gone.
OneWorker == Cardinality({w \in Workers : process[w] = "running"}) <= 1

\* A worker that runs can be reached: it is the child, or a stop is at work
\* on it, also after stops that failed.
NoLostWorker == \A w \in Workers : process[w] = "running" => w \in {child, stopping}

\* A host knows the one worker it may have, whatever starts, stops, failed
\* stops and exits overlap.
WorkerInHand == OneWorker /\ NoLostWorker

\* waitForIdle returns to the caller of an accepted prompt, its worker being
\* still there, only when the turn of that prompt is over and none goes on.
IdleIsReal ==
  [][\A p \in Prompts :
       pc[p] \in {"answered", "settled", "started", "quiet", "settledAgain"} /\ pc'[p] = "done"
         /\ child' = worker[p] /\ ~stopFailed
       => ~turnActive' /\ p \notin answering'[worker[p]]]_vars

InTurn == child # 0 /\ turn[child] = "turn"

\* Nobody waits for a turn that is not there: exit, stop and agent_settled
\* release every caller, or a turn goes on.
WaitersReleased ==
  \A p \in Prompts : (pc[p] \in Waiting /\ ~InTurn) ~> (pc[p] \notin Waiting \/ InTurn \/ stopFailed)

\* A prompt that never gets a turn does not keep the host busy: the flag that
\* keeps it from being reaped and from reloading capabilities is taken back.
PendingWorkEnds == (awaitingTurnStart /\ child # 0) ~> (~awaitingTurnStart \/ child = 0)

\* Neither a caller nor the host itself waits for a turn that will never be.
NobodyWaitsInVain == WaitersReleased /\ PendingWorkEnds

\* isInTurn is false while the worker is alive but idle, once its lines have
\* been read.
InTurnIsReal ==
  child # 0 /\ out[child] = <<>> /\ turnActive => turn[child] = "turn"
=============================================================================
