----------------------------- MODULE ReportDelivery -----------------------------
(***************************************************************************)
(* How the reports of subagents reach their parent on the desktop: the     *)
(* delegate tools of the parent's worker (registerRemoteDelegateTools and  *)
(* watchParentDelivery of src/runtime/tools/delegate.ts), its end of the   *)
(* bridge (src/runtime/delegation-bridge.ts), and what the coordinator of  *)
(* the main process answers and publishes.  A report reaches the parent as *)
(* the result of a tool, or as a message that starts a turn of its own.    *)
(*                                                                         *)
(* The bridge is a pair of queues.  Responses resolve a promise: the tool  *)
(* goes on before any timer, but messages read together with the response  *)
(* are handled first (Coalesced).  Pi, the agent loop of the worker, runs  *)
(* one tool at a time; it is external, and so is the user.  How a run of a *)
(* delegation proceeds is module Delegation: here it ends or is stopped.   *)
(***************************************************************************)
EXTENDS Integers, Sequences, FiniteSets

CONSTANTS
  Ids,         \* delegations of one parent
  Coalesced,   \* may a message be read together with the response before it?
  MaxRuns,     \* bound: runs of a delegation
  MaxInputs,   \* bound: messages of the user
  MaxCalls,    \* bound: calls of the tools
  MaxAborts    \* bound: stops of the parent by the user

ASSUME CoalescedAssumption == Coalesced \in BOOLEAN
ASSUME IdsAssumption == IsFiniteSet(Ids)
ASSUME BoundsAssumption ==
  MaxRuns \in Nat \ {0} /\ {MaxInputs, MaxCalls, MaxAborts} \subseteq Nat

VARIABLES
  delivery,    \* backgroundDelegations, pendingReports and deliveryTimer
  reserved,    \* the keys of reportWaiters
  suspended, idleTimer,      \* watchParentDelivery
  call, answer,              \* the tool that runs, and the response it has yet to see
  phase, queued, aborting,   \* Pi: the turn, what starts the next one, its signal
  request, inbox,            \* the bridge, to the coordinator and back
  status, run, stopping,     \* the entries of the coordinator
  paused, started, abortLine,  \* pausedParents; agent_start and abort under way
  inputs, calls, aborts,     \* bookkeeping of the bounds
  told, sent, waived, overlooked  \* history of the reports

worker  == <<delivery, reserved, suspended, idleTimer, call, answer>>
pi      == <<phase, queued, aborting>>
main    == <<status, run, stopping, paused, started, abortLine>>
counts  == <<inputs, calls, aborts>>
history == <<told, sent, waived, overlooked>>
vars    == <<worker, pi, request, inbox, main, counts, history>>

-----------------------------------------------------------------------------
Reports  == Ids \X (1..MaxRuns)
MaxTasks == Cardinality(Ids)
Terminal == {"completed", "failed", "cancelled"}   \* truncated is completed, interrupted is cancelled
WithReport == {"completed", "failed"}              \* those the parent is told of

Tools      == {"delegate", "background", "wait", "stop", "continue"}
NoCall     == [op |-> "none", ids |-> {}, left |-> 0]
NoRequest  == [action |-> "none", ids |-> {}]
NoAnswer   == [type |-> "none"]
NoResult   == [id \in {} |-> 0]

Event(d, r, st) == [type |-> "event", id |-> d, run |-> r, status |-> st]
Ok(result)      == [type |-> "response", ok |-> TRUE, result |-> result]
Error           == [type |-> "response", ok |-> FALSE, result |-> NoResult]

Events    == [type : {"event"}, id : Ids, run : 1..MaxRuns, status : Terminal]
Results   == UNION {[ids -> [run : 1..MaxRuns, status : {"running"} \cup Terminal]] : ids \in SUBSET Ids}
Responses == [type : {"response"}, ok : BOOLEAN, result : Results]

TypeOK ==
  /\ delivery \in [background : SUBSET Ids, pending : [Ids -> 0..MaxRuns], timer : BOOLEAN]
  /\ reserved \in SUBSET Ids
  /\ {suspended, idleTimer, aborting, paused, started, abortLine} \subseteq BOOLEAN
  /\ call \in [op : Tools \cup {"none"}, ids : SUBSET Ids, left : 0..MaxTasks]
  /\ answer \in Responses \cup {NoAnswer}
  /\ phase \in {"idle", "run", "closing"} /\ queued \in {"none", "user", "report"}
  /\ request \in [action : {"none", "start", "wait", "stop", "stopping", "continue", "continuing"}, ids : SUBSET Ids]
  /\ inbox \in Seq(Events \cup Responses)
  /\ status \in [Ids -> {"none", "running"} \cup Terminal]
  /\ run \in [Ids -> 0..MaxRuns] /\ stopping \in SUBSET Ids
  /\ inputs \in 0..MaxInputs /\ calls \in 0..MaxCalls /\ aborts \in 0..MaxAborts
  /\ told \in SUBSET Reports /\ waived \in SUBSET Reports
  /\ sent \in [Reports -> 0..2] /\ overlooked \in SUBSET Ids
  \* Requests and answers belong to a tool.
  /\ call.op = "none" => request = NoRequest /\ answer = NoAnswer

\* A first turn has begun.
Init ==
  /\ delivery = [background |-> {}, pending |-> [d \in Ids |-> 0], timer |-> FALSE]
  /\ reserved = {} /\ suspended = FALSE /\ idleTimer = FALSE
  /\ call = NoCall /\ answer = NoAnswer
  /\ phase = "run" /\ queued = "none" /\ aborting = FALSE
  /\ request = NoRequest /\ inbox = <<>>
  /\ status = [d \in Ids |-> "none"] /\ run = [d \in Ids |-> 0] /\ stopping = {}
  /\ paused = FALSE /\ started = FALSE /\ abortLine = FALSE
  /\ inputs = 0 /\ calls = 0 /\ aborts = 0
  /\ told = {} /\ sent = [r \in Reports |-> 0] /\ waived = {} /\ overlooked = {}

-----------------------------------------------------------------------------
(* The buffer of the reports, as functions of what it holds.                *)

acknowledge(D, ids) ==
  [D EXCEPT !.background = @ \ ids,
            !.pending = [d \in Ids |-> IF d \in ids THEN 0 ELSE @[d]]]

scheduleDelivery(D) == [D EXCEPT !.timer = @ \/ \E d \in Ids : D.pending[d] # 0]

\* Faulty variant of cancelDelivery: what is to be notified later is not forgotten.
cancelPending(D) == [D EXCEPT !.pending = [d \in Ids |-> 0], !.timer = FALSE]

cancelDelivery(D) == [background |-> {}, pending |-> [d \in Ids |-> 0], timer |-> FALSE]

\* A snapshot of run r: only the end of a background delegation counts.
queueReport(D, d, r, st) ==
  IF d \notin D.background \/ st \notin Terminal THEN D
  ELSE IF st = "cancelled" \/ suspended THEN acknowledge(D, {d})
  ELSE scheduleDelivery([D EXCEPT !.pending[d] = r])

\* Releasing the reserved reports schedules the delivery.
release(D) == scheduleDelivery(D)

\* The tools go on, as microtasks, before any timer or other event of the worker.
Settled == answer = NoAnswer

\* parent.isRunning(): the turn, and what Pi does until it is idle.
isRunning == phase # "idle"

\* The timer of scheduleDelivery: what is not reserved becomes one message,
\* unless a turn goes on (its end tries again) or the parent was stopped.
deliver ==
  LET due == {d \in Ids : delivery.pending[d] # 0} \ reserved
      off == [delivery EXCEPT !.timer = FALSE]
  IN
  /\ delivery.timer /\ Settled
  /\ IF isRunning \/ due = {}
     THEN delivery' = off /\ UNCHANGED <<sent, queued>>
     ELSE /\ delivery' = acknowledge(off, due)
          /\ IF suspended THEN UNCHANGED <<sent, queued>>
             ELSE /\ sent' = [r \in Reports |->
                        IF r[1] \in due /\ r[2] = delivery.pending[r[1]] /\ sent[r] < 2
                        THEN sent[r] + 1 ELSE sent[r]]
                  /\ queued' = IF queued = "none" THEN "report" ELSE queued
  /\ UNCHANGED <<reserved, suspended, idleTimer, call, answer, phase, aborting, request, inbox, main,
                 counts, told, waived, overlooked>>

-----------------------------------------------------------------------------
(* The user and Pi, with the handlers of watchParentDelivery.               *)

\* A prompt, or a message typed into a turn that goes on.
input ==
  /\ inputs < MaxInputs /\ inputs' = inputs + 1 /\ Settled
  /\ suspended' = FALSE /\ queued' = "user"
  /\ UNCHANGED <<delivery, reserved, idleTimer, call, answer, phase, aborting, request, inbox, main,
                 calls, aborts, history>>

agent_start ==
  /\ queued # "none" /\ phase # "run" /\ Settled
  /\ phase' = "run" /\ queued' = "none" /\ aborting' = FALSE
  /\ idleTimer' = FALSE /\ started' = TRUE
  /\ UNCHANGED <<delivery, reserved, suspended, call, answer, request, inbox, status, run, stopping,
                 paused, abortLine, counts, history>>

\* turn_end and agent_end: a turn whose signal was aborted may still end as usual.
agent_end ==
  /\ phase = "run" /\ call = NoCall
  /\ phase' = "closing" /\ idleTimer' = TRUE /\ aborting' = FALSE
  /\ \/ UNCHANGED <<delivery, suspended, waived>>
     \/ /\ aborting
        /\ suspended' = TRUE /\ delivery' = cancelDelivery(delivery)
        /\ waived' = waived \cup {r \in Reports : r[2] <= run[r[1]]}
  /\ UNCHANGED <<reserved, call, answer, queued, request, inbox, main, counts, told, sent, overlooked>>

\* Compaction, retries and what else follows a turn are over.
becomesIdle ==
  /\ phase = "closing" /\ phase' = "idle"
  /\ UNCHANGED <<worker, queued, aborting, request, inbox, main, counts, history>>

\* Faulty variant of notifyWhenIdle: the delivery is not tried again.
notifyNever ==
  /\ idleTimer /\ phase = "idle" /\ Settled
  /\ idleTimer' = FALSE
  /\ UNCHANGED <<delivery, reserved, suspended, call, answer, pi, request, inbox, main, counts, history>>

\* Every 50 ms until Pi is idle: then what could not be delivered is tried again.
notifyWhenIdle ==
  /\ idleTimer /\ phase = "idle" /\ Settled
  /\ idleTimer' = FALSE /\ delivery' = scheduleDelivery(delivery)
  /\ UNCHANGED <<reserved, suspended, call, answer, pi, request, inbox, main, counts, history>>

-----------------------------------------------------------------------------
(* The tools up to their request.                                           *)

Calls(op, ids, left, action, asked) ==
  /\ phase = "run" /\ ~aborting /\ call = NoCall
  /\ calls < MaxCalls /\ calls' = calls + 1
  /\ call' = [op |-> op, ids |-> ids, left |-> left]
  /\ request' = [action |-> action, ids |-> asked]

\* One task or several, started one after the other.
delegate(op) ==
  /\ \E n \in 1..Cardinality({d \in Ids : status[d] = "none"}) : Calls(op, {}, n - 1, "start", {})
  /\ UNCHANGED <<delivery, reserved, suspended, idleTimer, answer, pi, inbox, main, inputs, aborts, history>>

\* Of what ids name, or of all background delegations, the reports are reserved.
delegate_wait ==
  \E ids \in SUBSET {d \in Ids : status[d] # "none"} :
    LET named == IF ids # {} THEN ids ELSE delivery.background IN
    /\ Calls("wait", named, 0, "wait", ids)
    /\ reserved' = named
    /\ UNCHANGED <<delivery, suspended, idleTimer, answer, pi, inbox, main, inputs, aborts, history>>

\* The notifications are withdrawn before the stop is asked for.
delegate_stop ==
  \E ids \in SUBSET {d \in Ids : status[d] # "none"} :
    LET named == IF ids # {} THEN ids ELSE delivery.background IN
    /\ Calls("stop", named, 0, "stop", ids)
    /\ delivery' = acknowledge(delivery, named)
    /\ waived' = waived \cup {r \in Reports : r[1] \in named /\ r[2] <= run[r[1]]}
    /\ UNCHANGED <<reserved, suspended, idleTimer, answer, pi, inbox, main, inputs, aborts, told, sent, overlooked>>

delegate_continue ==
  \E d \in {e \in Ids : status[e] # "none"} :
    /\ Calls("continue", {d}, 0, "continue", {d})
    /\ reserved' = {d}
    /\ UNCHANGED <<delivery, suspended, idleTimer, answer, pi, inbox, main, inputs, aborts, history>>

-----------------------------------------------------------------------------
(* The coordinator.                                                         *)

Snapshot(ids) == [d \in ids |-> [run |-> run[d], status |-> status[d]]]

\* The entries a request names: all of the parent when it names none.
Entries(ids) == {d \in Ids : status[d] # "none" /\ (ids = {} \/ d \in ids)}

Respond(message) == request' = NoRequest /\ inbox' = Append(inbox, message)

\* An unused id: one is like another.
Fresh == CHOOSE d \in Ids : status[d] = "none"

\* A new entry; a worker that cannot even be made fails the launch at once.
start ==
  /\ request.action = "start" /\ ~paused
  /\ \E d \in Ids, st \in {"running", "failed"} :
       LET result == Ok([e \in {d} |-> [run |-> 1, status |-> st]]) IN
       /\ status[d] = "none" /\ d = Fresh
       /\ status' = [status EXCEPT ![d] = st] /\ run' = [run EXCEPT ![d] = 1]
       /\ request' = NoRequest
       /\ inbox' = IF st = "failed" THEN inbox \o <<Event(d, 1, st), result>> ELSE Append(inbox, result)
  /\ UNCHANGED <<worker, pi, stopping, paused, started, abortLine, counts, history>>

\* Everything named has ended, or the time is over.
wait ==
  /\ request.action = "wait"
  /\ Respond(Ok(Snapshot(Entries(request.ids))))
  /\ UNCHANGED <<worker, pi, main, counts, history>>

\* stopEntry of what runs; the answer waits for it.
stop ==
  /\ request.action = "stop"
  /\ stopping' = stopping \cup {d \in Entries(request.ids) : status[d] = "running"}
  /\ request' = [request EXCEPT !.action = "stopping"]
  /\ UNCHANGED <<worker, pi, inbox, status, run, paused, started, abortLine, counts, history>>

stopDone ==
  /\ request.action = "stopping"
  /\ \A d \in Entries(request.ids) : d \notin stopping
  /\ Respond(Ok(Snapshot(Entries(request.ids))))
  /\ UNCHANGED <<worker, pi, main, counts, history>>

\* A terminal entry runs once more, first perhaps its worker starts anew.
continue ==
  /\ request.action = "continue" /\ ~paused
  /\ \E d \in request.ids :
       /\ status[d] \in Terminal /\ d \notin stopping /\ run[d] < MaxRuns
       /\ status' = [status EXCEPT ![d] = "running"] /\ run' = [run EXCEPT ![d] = @ + 1]
  /\ request' = [request EXCEPT !.action = "continuing"]
  /\ UNCHANGED <<worker, pi, inbox, stopping, paused, started, abortLine, counts, history>>

\* The answer does not wait for the run: unless it failed to start or was
\* stopped meanwhile, it shows an entry that runs.
continued ==
  /\ request.action = "continuing"
  /\ \E d \in request.ids :
       \/ /\ Respond(Ok(Snapshot({d})))
          /\ UNCHANGED status
       \/ /\ status[d] = "running" /\ d \notin stopping
          /\ status' = [status EXCEPT ![d] = "failed"]
          /\ request' = NoRequest
          /\ inbox' = inbox \o <<Event(d, run[d], "failed"),
                                 Ok([e \in {d} |-> [run |-> run[d], status |-> "failed"]])>>
  /\ UNCHANGED <<worker, pi, run, stopping, paused, started, abortLine, counts, history>>

\* The parent is stopped, the entry still runs, a role is unknown, the limit is
\* reached, a worker outlives its stop, the host is no longer the parent's.
refuse ==
  /\ request.action \in {"start", "wait", "stopping", "continue"}
  /\ Respond(Error)
  /\ UNCHANGED <<worker, pi, main, counts, history>>

\* A run ends: settle publishes it.  One that continue has only begun cannot.
settle(d) ==
  /\ status[d] = "running" /\ d \notin stopping
  /\ ~(request.action = "continuing" /\ d \in request.ids)
  /\ \E st \in WithReport :
       /\ status' = [status EXCEPT ![d] = st]
       /\ inbox' = Append(inbox, Event(d, run[d], st))
  /\ UNCHANGED <<worker, pi, request, run, stopping, paused, started, abortLine, counts, history>>

\* A stop has taken effect.
cancelled(d) ==
  /\ d \in stopping
  /\ stopping' = stopping \ {d}
  /\ status' = [status EXCEPT ![d] = "cancelled"]
  /\ inbox' = Append(inbox, Event(d, run[d], "cancelled"))
  /\ UNCHANGED <<worker, pi, request, run, paused, started, abortLine, counts, history>>

\* The user stops the parent: its delegations at once, its turn by a command.
abort ==
  /\ aborts < MaxAborts /\ aborts' = aborts + 1
  /\ paused' = TRUE /\ abortLine' = TRUE
  /\ stopping' = stopping \cup {d \in Ids : status[d] = "running"}
  /\ UNCHANGED <<worker, pi, request, inbox, status, run, started, inputs, calls, history>>

\* The command reaches Pi: it aborts the turn there is.
abortTurn ==
  /\ abortLine /\ Settled
  /\ abortLine' = FALSE /\ aborting' = (phase = "run")
  /\ UNCHANGED <<worker, phase, queued, request, inbox, status, run, stopping, paused, started, counts, history>>

\* The agent_start of a turn reaches the main process.
resumeParent ==
  /\ started /\ started' = FALSE /\ paused' = FALSE
  /\ UNCHANGED <<worker, pi, request, inbox, status, run, stopping, abortLine, counts, history>>

-----------------------------------------------------------------------------
(* The worker reads the bridge, and the tools go on.                        *)

\* An event; read together with a response, it is handled before the tool that
\* awaits the response goes on.
onEvent ==
  /\ inbox # <<>> /\ Head(inbox).type = "event"
  /\ Settled \/ Coalesced
  /\ inbox' = Tail(inbox)
  /\ LET e == Head(inbox) IN
     /\ delivery' = queueReport(delivery, e.id, e.run, e.status)
     /\ overlooked' = IF answer.type = "response" /\ e.id \in DOMAIN answer.result /\ call.op = "background"
                      THEN overlooked \cup {e.id} ELSE overlooked
  /\ UNCHANGED <<reserved, suspended, idleTimer, call, answer, pi, request, main, counts, told, sent, waived>>

onResponse ==
  /\ inbox # <<>> /\ Head(inbox).type = "response"
  /\ inbox' = Tail(inbox) /\ answer' = Head(inbox)
  /\ UNCHANGED <<delivery, reserved, suspended, idleTimer, call, pi, request, main, counts, history>>

Seen(result) == {r \in Reports : /\ r[1] \in DOMAIN result /\ r[2] = result[r[1]].run
                                 /\ result[r[1]].status \in WithReport}

Ended(result) == {d \in DOMAIN result : result[d].status \in Terminal}

\* Faulty variant of Returns: the promise that was resolved stays pending.
ReturnsPending == call' = NoCall /\ answer' = answer /\ request' = NoRequest

Returns == call' = NoCall /\ answer' = NoAnswer /\ request' = NoRequest

\* An error ends the tool: what it has started goes on.
toolFails ==
  /\ answer.type = "response" /\ ~answer.ok
  /\ Returns
  /\ reserved' = {}
  /\ delivery' = IF call.op \in {"wait", "continue"} THEN release(delivery) ELSE delivery
  /\ UNCHANGED <<suspended, idleTimer, pi, inbox, main, counts, history>>

\* A task was started; the next one, the wait for all, or the result.
delegateStarted ==
  /\ answer.type = "response" /\ answer.ok
  /\ call.op \in {"delegate", "background"} /\ call.ids \cap DOMAIN answer.result = {}
  /\ LET d == CHOOSE e \in DOMAIN answer.result : TRUE
         ids == call.ids \cup {d}
     IN
     /\ delivery' = IF call.op = "background"
                    THEN queueReport([delivery EXCEPT !.background = @ \cup {d}], d,
                                     answer.result[d].run, answer.result[d].status)
                    ELSE delivery
     /\ \/ /\ call.left > 0
           /\ call' = [call EXCEPT !.ids = ids, !.left = @ - 1]
           /\ request' = [action |-> "start", ids |-> {}]
           /\ answer' = NoAnswer
        \/ /\ call.left = 0 /\ call.op = "delegate"
           /\ call' = [call EXCEPT !.ids = ids]
           /\ request' = [action |-> "wait", ids |-> ids]
           /\ answer' = NoAnswer
        \/ /\ call.left = 0 /\ call.op = "background" /\ Returns
  /\ UNCHANGED <<reserved, suspended, idleTimer, pi, inbox, main, counts, history>>

\* The reports of the delegations that were waited for in the foreground.
delegateReturns ==
  /\ answer.type = "response" /\ answer.ok
  /\ call.op = "delegate" /\ call.ids \cap DOMAIN answer.result # {}
  /\ Returns
  /\ told' = told \cup Seen(answer.result)
  /\ UNCHANGED <<delivery, reserved, suspended, idleTimer, pi, inbox, main, counts, sent, waived, overlooked>>

\* Faulty variant of waitReturns: what was returned may still be notified.
waitReturnsKept ==
  /\ answer.type = "response" /\ answer.ok /\ call.op = "wait"
  /\ Returns
  /\ reserved' = {} /\ told' = told \cup Seen(answer.result)
  /\ delivery' = release(delivery)
  /\ UNCHANGED <<suspended, idleTimer, pi, inbox, main, counts, sent, waived, overlooked>>

waitReturns ==
  /\ answer.type = "response" /\ answer.ok /\ call.op = "wait"
  /\ Returns
  /\ reserved' = {} /\ told' = told \cup Seen(answer.result)
  /\ delivery' = release(acknowledge(delivery, Ended(answer.result)))
  /\ UNCHANGED <<suspended, idleTimer, pi, inbox, main, counts, sent, waived, overlooked>>

\* The status of the entries, without their reports.
stopReturns ==
  /\ answer.type = "response" /\ answer.ok /\ call.op = "stop"
  /\ Returns
  /\ delivery' = acknowledge(delivery, DOMAIN answer.result)
  /\ waived' = waived \cup {r \in Reports : r[1] \in DOMAIN answer.result /\ r[2] <= answer.result[r[1]].run}
  /\ UNCHANGED <<reserved, suspended, idleTimer, pi, inbox, main, counts, told, sent, overlooked>>

continueReturns ==
  /\ answer.type = "response" /\ answer.ok /\ call.op = "continue"
  /\ Returns
  /\ reserved' = {} /\ told' = told \cup Seen(answer.result)
  /\ delivery' = release(acknowledge(delivery, Ended(answer.result)))
  /\ UNCHANGED <<suspended, idleTimer, pi, inbox, main, counts, sent, waived, overlooked>>

-----------------------------------------------------------------------------
Worker ==
  \/ deliver \/ notifyWhenIdle
  \/ onEvent \/ onResponse
  \/ toolFails \/ delegateStarted \/ delegateReturns \/ waitReturns \/ stopReturns \/ continueReturns

Coordinator ==
  \/ start \/ wait \/ stop \/ stopDone \/ continue \/ continued \/ refuse \/ resumeParent
  \/ \E d \in Ids : cancelled(d)

Pi == agent_start \/ agent_end \/ becomesIdle \/ abortTurn

\* What nobody owes: input, stops, tool calls, the end of a run.
Environment ==
  \/ input \/ abort \/ \E d \in Ids : settle(d)
  \/ delegate("delegate") \/ delegate("background") \/ delegate_wait \/ delegate_stop \/ delegate_continue

Next == Worker \/ Coordinator \/ Pi \/ Environment

Spec == Init /\ [][Next]_vars

\* Timers fire, messages are read and requests answered; Pi starts what is
\* queued, ends its turns and becomes idle.
Fairness == WF_vars(Worker \/ Coordinator \/ Pi)

FairSpec == Spec /\ Fairness

-----------------------------------------------------------------------------
\* A report starts at most one turn, and none once delegate, delegate_wait or
\* delegate_continue has returned it (acknowledge, reserveReports).
ReadOnce ==
  [][\A r \in Reports : sent'[r] > sent[r] => sent[r] = 0 /\ r \notin told]_vars

\* What was under way when the user stopped the turn, or when delegate_stop
\* withdrew it, never starts a turn by itself: neither after the next input nor
\* in a turn that starts automatically (cancelDelivery, delegate_stop).
WithdrawnStaysQuiet ==
  [][\A r \in Reports : sent'[r] > sent[r] => r \notin waived]_vars

Reached(r) == r \in told \/ sent[r] > 0 \/ r \in waived

\* The report of a background delegation that ends by itself reaches its parent,
\* unless the parent or the delegation is stopped or the delegation continued,
\* and unless the end was read together with the answer to its start.
ReportsArrive ==
  \A d \in Ids :
    (d \in delivery.background /\ run[d] = 1 /\ status[d] \in WithReport)
      ~> (Reached(<<d, 1>>) \/ suspended \/ run[d] > 1 \/ d \in overlooked)

\* "Reports that have not been read are notified once the parent is idle"
\* (docs/subagent-workflow.md): also the report of a run begun by delegate_continue.
ContinuedReportsArrive ==
  \A d \in Ids : (run[d] = MaxRuns /\ status[d] \in WithReport) ~> (Reached(<<d, MaxRuns>>) \/ suspended)

\* The parent was stopped by its user: until the next input no report wakes it.
\* Between two turns nothing tells the worker of the stop, so this does not hold.
StoppedStaysQuiet ==
  [][(paused /\ ~started /\ queued # "user") => sent' = sent]_vars
=============================================================================
