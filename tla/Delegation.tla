------------------------------ MODULE Delegation ------------------------------
(***************************************************************************)
(* The lifecycle of a delegated child session in DelegationCoordinator     *)
(* (src/main/delegation-coordinator.ts).  JavaScript runs one callback at  *)
(* a time, so an action is the code between two awaits; what interleaves   *)
(* is the order in which the awaits of the coroutines resume.              *)
(*                                                                         *)
(* A delegation (entry) may be run several times: `start` makes run 1 and  *)
(* every `continue` a further one, each with an AbortController of its     *)
(* own.  Coroutines of older runs stay around until their await resumes;   *)
(* pc[d][r] is where the one of run r is, and "done" once it returned.     *)
(* What the text of the session says is left out: the report is usable,    *)
(* missing or over the turn limit, whichever the collecting run finds.     *)
(***************************************************************************)
EXTENDS Integers, FiniteSets

CONSTANTS
  Delegations,     \* delegation ids
  Parents,         \* parent sessions
  ParentOf,        \* the parent under which an id is used
  Pinned,          \* ids whose role pins a model other than the parent's
  MaxConcurrency,  \* DELEGATION_MAX_CONCURRENCY
  MaxRetained,     \* MAX_RETAINED_TERMINAL_ENTRIES
  StopMayFail,     \* may AgentHost.stop find its process still alive?
  MaxRuns,         \* bound: runs of one delegation
  MaxHosts,        \* bound: workers created for one delegation
  MaxEpoch,        \* bound: times a parent is stopped
  MaxRestarts      \* bound: restarts of the application

ASSUME ParametersAssumption ==
  /\ IsFiniteSet(Delegations)
  /\ ParentOf \in [Delegations -> Parents]
  /\ Pinned \subseteq Delegations
  /\ MaxConcurrency \in Nat /\ MaxRetained \in Nat
  /\ StopMayFail \in BOOLEAN
  /\ MaxRuns \in Nat \ {0} /\ MaxHosts \in Nat /\ MaxEpoch \in Nat /\ MaxRestarts \in Nat

VARIABLES
  status,        \* record.status, also the row in the thread index; "absent" before
  resident,      \* is the entry in the `entries` map?
  run,           \* number of the current AbortController of the entry
  aborted,       \* has the current AbortController been aborted?
  stopRequested, nudged, fellBack,   \* entry flags (noReportRetried, modelFallbackTried)
  definition,    \* entry.definition: "none", "loaded" by continue, "full" from start
  host,          \* index of entry.host, the newest worker; 0 is undefined
  workers,       \* life of every worker created for the entry
  pc, runHost,   \* the coroutine of each run, and its local `host`
  fallback, fallbackRun, fallbackHost,  \* retryWithParentModel and what it captured
  stopper, stopHost, stopStatus,        \* entry.stopping and what it captured
  starter, startEpoch,                  \* start/startReserved before the entry exists
  reservations, paused, epoch,          \* per parent
  toReconcile, reconciling,             \* reconcilePersistedFailures
  overtaken,     \* history: a run was under way when reconciliation wrote over its record
  restarts

entryVars    == <<status, resident, run, aborted, stopRequested, nudged, fellBack, definition, host>>
runVars      == <<workers, pc, runHost>>
fallbackVars == <<fallback, fallbackRun, fallbackHost>>
stopVars     == <<stopper, stopHost, stopStatus>>
parentVars   == <<starter, startEpoch, reservations, paused, epoch>>
reconcileVars == <<toReconcile, reconciling, overtaken, restarts>>
vars == <<entryVars, runVars, fallbackVars, stopVars, parentVars, reconcileVars>>

Runs  == 1..MaxRuns
Hosts == 1..MaxHosts

Active   == {"pending", "running"}
Terminal == {"completed", "failed", "cancelled", "interrupted", "truncated"}
Statuses == {"absent"} \cup Active \cup Terminal
WorkerStates == {"none", "new", "preparing", "booting", "up", "closing", "gone"}
Racing == {"prompt", "idle", "messages", "nudge", "nudgeIdle", "nudgeMessages"}
Starting == {"startup", "undo"}
Working == {"definition", "options", "baseline", "best", "truncating", "failing"} \cup Racing \cup Starting

EntryTypes ==
  /\ status \in [Delegations -> Statuses]
  /\ resident \in [Delegations -> BOOLEAN]
  /\ run \in [Delegations -> 0..MaxRuns]
  /\ aborted \in [Delegations -> BOOLEAN]
  /\ stopRequested \in [Delegations -> BOOLEAN]
  /\ nudged \in [Delegations -> BOOLEAN]
  /\ fellBack \in [Delegations -> BOOLEAN]
  /\ definition \in [Delegations -> {"none", "loaded", "full"}]
  /\ host \in [Delegations -> 0..MaxHosts]

RunTypes ==
  /\ workers \in [Delegations -> [Hosts -> WorkerStates]]
  /\ pc \in [Delegations -> [Runs -> Working \cup {"none", "done"}]]
  /\ runHost \in [Delegations -> [Runs -> 0..MaxHosts]]

FallbackTypes ==
  /\ fallback \in [Delegations -> {"idle", "stopping", "reading"}]
  /\ fallbackRun \in [Delegations -> 0..MaxRuns]
  /\ fallbackHost \in [Delegations -> 0..MaxHosts]

StopTypes ==
  /\ stopper \in [Delegations -> {"idle", "stopping", "starting", "again"}]
  /\ stopHost \in [Delegations -> 0..MaxHosts]
  /\ stopStatus \in [Delegations -> {"cancelled", "interrupted"}]

ParentTypes ==
  /\ starter \in [Delegations -> {"unused", "loading", "used"}]
  /\ startEpoch \in [Delegations -> 0..MaxEpoch]
  /\ reservations \in [Parents -> Nat]
  /\ paused \subseteq Parents
  /\ epoch \in [Parents -> 0..MaxEpoch]

ReconcileTypes ==
  /\ toReconcile \subseteq Delegations
  /\ reconciling \subseteq Delegations
  /\ overtaken \subseteq Delegations
  /\ restarts \in 0..MaxRestarts

TypeOK == EntryTypes /\ RunTypes /\ FallbackTypes /\ StopTypes /\ ParentTypes /\ ReconcileTypes

Init ==
  /\ status = [d \in Delegations |-> "absent"]
  /\ resident = [d \in Delegations |-> FALSE]
  /\ run = [d \in Delegations |-> 0]
  /\ aborted = [d \in Delegations |-> FALSE]
  /\ stopRequested = [d \in Delegations |-> FALSE]
  /\ nudged = [d \in Delegations |-> FALSE]
  /\ fellBack = [d \in Delegations |-> FALSE]
  /\ definition = [d \in Delegations |-> "none"]
  /\ host = [d \in Delegations |-> 0]
  /\ workers = [d \in Delegations |-> [h \in Hosts |-> "none"]]
  /\ pc = [d \in Delegations |-> [r \in Runs |-> "none"]]
  /\ runHost = [d \in Delegations |-> [r \in Runs |-> 0]]
  /\ fallback = [d \in Delegations |-> "idle"]
  /\ fallbackRun = [d \in Delegations |-> 0]
  /\ fallbackHost = [d \in Delegations |-> 0]
  /\ stopper = [d \in Delegations |-> "idle"]
  /\ stopHost = [d \in Delegations |-> 0]
  /\ stopStatus = [d \in Delegations |-> "cancelled"]
  /\ starter = [d \in Delegations |-> "unused"]
  /\ startEpoch = [d \in Delegations |-> 0]
  /\ reservations = [p \in Parents |-> 0]
  /\ paused = {}
  /\ epoch = [p \in Parents |-> 0]
  /\ toReconcile = {}
  /\ reconciling = {}
  /\ overtaken = {}
  /\ restarts = 0

-----------------------------------------------------------------------------
(* Workers (AgentHost as the coordinator sees it).                         *)

\* AgentHost.isRunning: a child process exists and has not exited.
IsRunning(w) == w \in {"booting", "up"}

\* The workers of an entry after stopHost(h) was called.  A worker whose
\* start() has not spawned the child yet is not stopped by it.
AfterStop(ws, h) ==
  IF h = 0 THEN ws ELSE [ws EXCEPT ![h] = IF IsRunning(@) THEN "closing" ELSE @]

\* The promise of stopHost(h) has resolved.
StopReturned(d, h) == h # 0 => workers[d][h] # "closing"

\* signal.aborted is false for the coroutine of run r.
Live(d, r) == r = run[d] /\ ~aborted[d]

\* A parent's entries that are not terminal.
ActiveOf(p) == {d \in Delegations : ParentOf[d] = p /\ resident[d] /\ status[d] \in Active}

\* start() first awaits its own stop(), then spawns the child.
Spawn(d, h) ==
  /\ workers[d][h] = "preparing"
  /\ workers' = [workers EXCEPT ![d][h] = "booting"]
  /\ UNCHANGED <<entryVars, pc, runHost, fallbackVars, stopVars, parentVars, reconcileVars>>

\* The child exits by itself.
WorkerExit(d, h) ==
  /\ IsRunning(workers[d][h])
  /\ workers' = [workers EXCEPT ![d][h] = "gone"]
  /\ UNCHANGED <<entryVars, pc, runHost, fallbackVars, stopVars, parentVars, reconcileVars>>

\* terminateProcessTree returns; if the process is still there stop() puts
\* the child back and rejects.
CloseWorker(d, h) ==
  /\ workers[d][h] = "closing"
  /\ \E w \in {"gone"} \cup (IF StopMayFail THEN {"up"} ELSE {}) :
       workers' = [workers EXCEPT ![d][h] = w]
  /\ UNCHANGED <<entryVars, pc, runHost, fallbackVars, stopVars, parentVars, reconcileVars>>

-----------------------------------------------------------------------------
(* settle and the fallback to the parent's model.                          *)

CanFallback(d) == d \in Pinned /\ definition[d] = "full" /\ ~fellBack[d]

\* The failure of a run whose pinned model may be at fault starts
\* retryWithParentModel, up to its first await, instead of becoming final.
BeginFallback(d) ==
  /\ fellBack' = [fellBack EXCEPT ![d] = TRUE]
  /\ fallback' = [fallback EXCEPT ![d] = "stopping"]
  /\ fallbackRun' = [fallbackRun EXCEPT ![d] = run[d]]
  /\ fallbackHost' = [fallbackHost EXCEPT ![d] = host[d]]
  /\ workers' = [workers EXCEPT ![d] = AfterStop(@, host[d])]
  /\ UNCHANGED <<status, aborted>>

Finish(d, outcome) ==
  /\ status' = [status EXCEPT ![d] = outcome]
  /\ aborted' = [aborted EXCEPT ![d] = TRUE]
  /\ UNCHANGED <<fellBack, fallbackVars, workers>>

\* Faulty variant of Settle: a terminal status may be overwritten.
SettleOverTerminal(d, outcome) ==
  IF outcome = "failed" /\ ~stopRequested[d] /\ CanFallback(d)
  THEN BeginFallback(d)
  ELSE Finish(d, outcome)

\* settle(entry, outcome): a terminal status stays as it is.
Settle(d, outcome) ==
  IF status[d] \in Terminal
  THEN UNCHANGED <<status, aborted, fellBack, fallbackVars, workers>>
  ELSE IF outcome = "failed" /\ ~stopRequested[d] /\ CanFallback(d)
  THEN BeginFallback(d)
  ELSE Finish(d, outcome)

\* launch up to its first await: running, and a new worker as entry.host.
Launch(d, r) ==
  /\ host[d] < MaxHosts
  /\ status' = [status EXCEPT ![d] = "running"]
  /\ host' = [host EXCEPT ![d] = @ + 1]
  /\ runHost' = [runHost EXCEPT ![d][r] = host[d] + 1]
  /\ pc' = [pc EXCEPT ![d][r] = "options"]

FallbackStopped(d) ==
  /\ fallback[d] = "stopping"
  /\ StopReturned(d, fallbackHost[d])
  /\ IF status[d] \in Terminal \/ fallbackRun[d] # run[d]
     THEN /\ fallback' = [fallback EXCEPT ![d] = "idle"]
          /\ UNCHANGED <<status, aborted>>
     ELSE IF aborted[d] \/ stopRequested[d]
     THEN /\ fallback' = [fallback EXCEPT ![d] = "idle"]
          /\ status' = [status EXCEPT ![d] = "cancelled"]
          /\ aborted' = [aborted EXCEPT ![d] = TRUE]
     ELSE /\ fallback' = [fallback EXCEPT ![d] = "reading"]
          /\ UNCHANGED <<status, aborted>>
  /\ UNCHANGED <<resident, run, stopRequested, nudged, fellBack, definition, host, runVars,
                 fallbackRun, fallbackHost, stopVars, parentVars, reconcileVars>>

\* Faulty variant of FallbackRead: it returns without settling the run.
FallbackReadDrops(d) ==
  /\ fallback[d] = "reading"
  /\ fallback' = [fallback EXCEPT ![d] = "idle"]
  /\ UNCHANGED <<entryVars, runVars, fallbackRun, fallbackHost, stopVars, parentVars, reconcileVars>>

\* The child session was read: it had assistant turns, or the task is
\* launched once more, under the same signal.
FallbackRead(d) ==
  LET current == Live(d, fallbackRun[d]) /\ ~stopRequested[d] /\ status[d] \in Active IN
  /\ fallback[d] = "reading"
  /\ fallback' = [fallback EXCEPT ![d] = "idle"]
  /\ \/ /\ ~current
        /\ UNCHANGED <<status, aborted, host, runVars>>
     \/ /\ current
        /\ status' = [status EXCEPT ![d] = "failed"]
        /\ aborted' = [aborted EXCEPT ![d] = TRUE]
        /\ UNCHANGED <<host, runVars>>
     \/ /\ current
        /\ Launch(d, fallbackRun[d])
        /\ workers' = [workers EXCEPT ![d][host[d] + 1] = "new"]
        /\ UNCHANGED aborted
  /\ UNCHANGED <<resident, run, stopRequested, nudged, fellBack, definition,
                 fallbackRun, fallbackHost, stopVars, parentVars, reconcileVars>>

-----------------------------------------------------------------------------
(* start                                                                   *)

\* Faulty variant of HasSlot: starts that are still loading are not counted.
HasSlotUnreserved(p) == Cardinality(ActiveOf(p)) < MaxConcurrency

HasSlot(p) == Cardinality(ActiveOf(p)) + reservations[p] < MaxConcurrency

\* start(): the limit is checked and a slot reserved in one step.
StartReserve(d) ==
  LET p == ParentOf[d] IN
  /\ starter[d] = "unused"
  /\ p \notin paused
  /\ HasSlot(p)
  /\ reservations' = [reservations EXCEPT ![p] = @ + 1]
  /\ starter' = [starter EXCEPT ![d] = "loading"]
  /\ startEpoch' = [startEpoch EXCEPT ![d] = epoch[p]]
  /\ UNCHANGED <<entryVars, runVars, fallbackVars, stopVars, paused, epoch, reconcileVars>>

\* The oldest terminal entries may leave the map when it is over its size;
\* which of them are old enough is not modelled.
Evictable(d, gone) ==
  /\ \A e \in gone : resident[e] /\ status[e] \in Terminal
  /\ \/ gone = {}
     \/ Cardinality(gone) + MaxRetained <= Cardinality({e \in Delegations : resident[e]}) + 1

\* Faulty variant of EvictedWorkers: the idle worker is forgotten.
EvictedWorkersLeft(gone) == workers

\* An idle worker of an evicted entry is stopped, without waiting for it.
EvictedWorkers(gone) ==
  [e \in Delegations |-> IF e \in gone THEN AfterStop(workers[e], host[e]) ELSE workers[e]]

\* startReserved after loadEnabledSubagents: the parent is still the same.
StartCommit(d) ==
  LET p == ParentOf[d] IN
  /\ starter[d] = "loading"
  /\ p \notin paused
  /\ startEpoch[d] = epoch[p]
  /\ reservations' = [reservations EXCEPT ![p] = @ - 1]
  /\ starter' = [starter EXCEPT ![d] = "used"]
  /\ run' = [run EXCEPT ![d] = 1]
  /\ definition' = [definition EXCEPT ![d] = "full"]
  /\ Launch(d, 1)
  /\ \E gone \in SUBSET Delegations :
       /\ Evictable(d, gone)
       /\ resident' = [e \in Delegations |-> e = d \/ (resident[e] /\ e \notin gone)]
       /\ workers' = [EvictedWorkers(gone) EXCEPT ![d][1] = "new"]
  /\ UNCHANGED <<aborted, stopRequested, nudged, fellBack, fallbackVars, stopVars,
                 startEpoch, paused, epoch, reconcileVars>>

\* Faulty variant of StartReject: the catch and the finally both release.
StartRejectTwice(d) ==
  /\ starter[d] = "loading"
  /\ starter' = [starter EXCEPT ![d] = "used"]
  /\ reservations' = [reservations EXCEPT ![ParentOf[d]] = @ - 2]
  /\ UNCHANGED <<entryVars, runVars, fallbackVars, stopVars, startEpoch, paused, epoch, reconcileVars>>

\* startReserved throws: the parent was stopped, the role is unknown, or the
\* thread row cannot be written.
StartReject(d) ==
  /\ starter[d] = "loading"
  /\ starter' = [starter EXCEPT ![d] = "used"]
  /\ reservations' = [reservations EXCEPT ![ParentOf[d]] = @ - 1]
  /\ UNCHANGED <<entryVars, runVars, fallbackVars, stopVars, startEpoch, paused, epoch, reconcileVars>>

-----------------------------------------------------------------------------
(* The coroutine of a run: launch / continue, startHost, runPrompt and     *)
(* collectReport.  Every await but the ones below that stop a worker is    *)
(* followed by `if (signal.aborted) return`.                               *)

Goto(d, r, label) == pc' = [pc EXCEPT ![d][r] = label]

\* An await resumed, or the race saw "cancelled", and the signal is aborted.
Abandon(d, r) ==
  /\ pc[d][r] \in Working \ Starting
  /\ ~Live(d, r)
  /\ Goto(d, r, "done")
  /\ UNCHANGED <<entryVars, workers, runHost, fallbackVars, stopVars, parentVars, reconcileVars>>

\* An error of the run: its worker is stopped before the failure is settled.
Fail(d, r) ==
  /\ Goto(d, r, "failing")
  /\ workers' = [workers EXCEPT ![d] = AfterStop(@, runHost[d][r])]

FailRun(d, r, from) ==
  /\ pc[d][r] \in from
  /\ Live(d, r)
  /\ Fail(d, r)
  /\ UNCHANGED <<entryVars, runHost, fallbackVars, stopVars, parentVars, reconcileVars>>

\* The role no longer exists (continue) or buildStartOptions rejected.
PrepareFails(d, r) == FailRun(d, r, {"definition", "options"})

\* A worker for a run of continue when entry.host is not running.
CreateWorker(d, r) ==
  /\ host[d] < MaxHosts
  /\ Goto(d, r, "options")
  /\ host' = [host EXCEPT ![d] = @ + 1]
  /\ runHost' = [runHost EXCEPT ![d][r] = host[d] + 1]
  /\ workers' = [workers EXCEPT ![d][host[d] + 1] = "new"]

DefinitionLoaded(d, r) ==
  /\ pc[d][r] = "definition"
  /\ Live(d, r)
  /\ definition' = [definition EXCEPT ![d] = "loaded"]
  /\ CreateWorker(d, r)
  /\ UNCHANGED <<status, resident, run, aborted, stopRequested, nudged, fellBack,
                 fallbackVars, stopVars, parentVars, reconcileVars>>

\* Faulty variant of OptionsBuilt: the signal is not checked after the await.
OptionsBuiltUnchecked(d, r) ==
  /\ pc[d][r] = "options"
  /\ Goto(d, r, "startup")
  /\ workers' = [workers EXCEPT ![d][runHost[d][r]] = "preparing"]
  /\ UNCHANGED <<entryVars, runHost, fallbackVars, stopVars, parentVars, reconcileVars>>

\* startHost: entry.starting is set while the run is in Starting.
OptionsBuilt(d, r) ==
  /\ pc[d][r] = "options"
  /\ Live(d, r)
  /\ Goto(d, r, "startup")
  /\ workers' = [workers EXCEPT ![d][runHost[d][r]] = "preparing"]
  /\ UNCHANGED <<entryVars, runHost, fallbackVars, stopVars, parentVars, reconcileVars>>

\* host.start resolved with the first snapshot.  A run of continue becomes
\* running here; if the record was made terminal meanwhile that throws.
StartDone(d, r) ==
  LET h == runHost[d][r] IN
  /\ pc[d][r] = "startup"
  /\ workers[d][h] = "booting"
  /\ \/ /\ Live(d, r) /\ status[d] \notin Terminal
        /\ workers' = [workers EXCEPT ![d][h] = "up"]
        /\ status' = [status EXCEPT ![d] = "running"]
        /\ Goto(d, r, "baseline")
     \/ /\ Live(d, r) /\ status[d] \in Terminal
        /\ Fail(d, r)
        /\ UNCHANGED status
     \/ /\ ~Live(d, r)
        /\ workers' = [workers EXCEPT ![d] = AfterStop(@, h)]
        /\ Goto(d, r, "undo")
        /\ UNCHANGED status
  /\ UNCHANGED <<resident, run, aborted, stopRequested, nudged, fellBack, definition, host,
                 runHost, fallbackVars, stopVars, parentVars, reconcileVars>>

\* host.start rejected: exit, stop, or no answer to the first snapshot.
StartFails(d, r) ==
  LET h == runHost[d][r] IN
  /\ pc[d][r] = "startup"
  /\ workers[d][h] # "preparing"
  /\ IF Live(d, r)
     THEN Fail(d, r)
     ELSE /\ workers' = [workers EXCEPT ![d] = AfterStop(@, h)]
          /\ Goto(d, r, "undo")
  /\ UNCHANGED <<entryVars, runHost, fallbackVars, stopVars, parentVars, reconcileVars>>

\* The cleanup of an aborted start is over and entry.starting is cleared.
UndoDone(d, r) ==
  /\ pc[d][r] = "undo"
  /\ StopReturned(d, runHost[d][r])
  /\ Goto(d, r, "done")
  /\ UNCHANGED <<entryVars, workers, runHost, fallbackVars, stopVars, parentVars, reconcileVars>>

\* The turn baseline was read (or is unknown), or a prompt was accepted.
Advance(d, r) ==
  /\ Live(d, r)
  /\ pc[d][r] \in {"prompt", "nudge"} => IsRunning(workers[d][runHost[d][r]])
  /\ \E move \in {<<"baseline", "prompt">>, <<"prompt", "idle">>, <<"nudge", "nudgeIdle">>} :
       pc[d][r] = move[1] /\ Goto(d, r, move[2])
  /\ UNCHANGED <<entryVars, workers, runHost, fallbackVars, stopVars, parentVars, reconcileVars>>

\* waitForIdle resolved.  Nothing but the completion timeout ends the wait
\* for a worker that never settles.
BecomesIdle(d, r) ==
  /\ Live(d, r)
  /\ \E move \in {<<"idle", "messages">>, <<"nudgeIdle", "nudgeMessages">>} :
       pc[d][r] = move[1] /\ Goto(d, r, move[2])
  /\ UNCHANGED <<entryVars, workers, runHost, fallbackVars, stopVars, parentVars, reconcileVars>>

\* The messages were read and the run has a report, or has used up its
\* turns.  The worker is left alone for a later continue.
Judge(d, r) ==
  /\ pc[d][r] \in {"messages", "nudgeMessages"}
  /\ Live(d, r)
  /\ IsRunning(workers[d][runHost[d][r]])
  /\ \E outcome \in {"completed"} \cup (IF pc[d][r] = "messages" THEN {"truncated"} ELSE {}) :
       Settle(d, outcome)
  /\ Goto(d, r, "done")
  /\ UNCHANGED <<resident, run, stopRequested, nudged, definition, host, runHost,
                 stopVars, parentVars, reconcileVars>>

\* No usable report: the worker is asked once more for one.
Nudge(d, r) ==
  /\ pc[d][r] = "messages"
  /\ Live(d, r)
  /\ IsRunning(workers[d][runHost[d][r]])
  /\ ~nudged[d] /\ ~stopRequested[d]
  /\ nudged' = [nudged EXCEPT ![d] = TRUE]
  /\ Goto(d, r, "nudge")
  /\ UNCHANGED <<status, resident, run, aborted, stopRequested, fellBack, definition, host,
                 workers, runHost, fallbackVars, stopVars, parentVars, reconcileVars>>

\* A request of the second attempt failed: what the first one found is used.
NudgeFails(d, r) ==
  /\ pc[d][r] \in {"nudge", "nudgeMessages"}
  /\ Live(d, r)
  /\ Settle(d, "completed")
  /\ Goto(d, r, "done")
  /\ UNCHANGED <<resident, run, stopRequested, nudged, definition, host, runHost,
                 stopVars, parentVars, reconcileVars>>

\* Faulty variant of RunFails: without the completion timeout.
RunFailsUntimed(d, r) == FailRun(d, r, Racing \ {"idle", "nudgeIdle"})

\* A request failed, there is no report, or the completion timeout fired.
RunFails(d, r) == FailRun(d, r, Racing)

\* The turn watchdog won the race: collect what there is, then stop.
TurnLimit(d, r) ==
  /\ pc[d][r] \in Racing
  /\ Live(d, r)
  /\ Goto(d, r, "best")
  /\ UNCHANGED <<entryVars, workers, runHost, fallbackVars, stopVars, parentVars, reconcileVars>>

BestEffortRead(d, r) ==
  /\ pc[d][r] = "best"
  /\ Live(d, r)
  /\ Goto(d, r, "truncating")
  /\ workers' = [workers EXCEPT ![d] = AfterStop(@, runHost[d][r])]
  /\ UNCHANGED <<entryVars, runHost, fallbackVars, stopVars, parentVars, reconcileVars>>

\* Faulty variants of SettleStopped: the stop is not awaited; the signal is
\* not checked after it.
SettleUnstopped(d, r) ==
  /\ pc[d][r] \in {"truncating", "failing"}
  /\ Live(d, r)
  /\ Settle(d, IF pc[d][r] = "failing" THEN "failed" ELSE "truncated")
  /\ Goto(d, r, "done")
  /\ UNCHANGED <<resident, run, stopRequested, nudged, definition, host, runHost,
                 stopVars, parentVars, reconcileVars>>
SettleStale(d, r) ==
  /\ pc[d][r] \in {"truncating", "failing"}
  /\ StopReturned(d, runHost[d][r])
  /\ Settle(d, IF pc[d][r] = "failing" THEN "failed" ELSE "truncated")
  /\ Goto(d, r, "done")
  /\ UNCHANGED <<resident, run, stopRequested, nudged, definition, host, runHost,
                 stopVars, parentVars, reconcileVars>>

\* The worker is stopped (or stopping it failed, which is ignored).
SettleStopped(d, r) ==
  /\ pc[d][r] \in {"truncating", "failing"}
  /\ StopReturned(d, runHost[d][r])
  /\ Live(d, r)
  /\ Settle(d, IF pc[d][r] = "failing" THEN "failed" ELSE "truncated")
  /\ Goto(d, r, "done")
  /\ UNCHANGED <<resident, run, stopRequested, nudged, definition, host, runHost,
                 stopVars, parentVars, reconcileVars>>

-----------------------------------------------------------------------------
(* continue                                                                *)

\* Faulty variant of MayContinue: the parent is not looked at again after
\* entry.stopping was awaited.
MayContinuePaused(d) ==
  /\ resident[d]
  /\ stopper[d] = "idle"
  /\ status[d] \in Terminal

\* entry.stopping has been awaited, the last run is over, the parent active.
MayContinue(d) ==
  /\ resident[d]
  /\ stopper[d] = "idle"
  /\ status[d] \in Terminal
  /\ ParentOf[d] \notin paused

\* continue up to its first await.
Continue(d) ==
  LET r == run[d] + 1 IN
  /\ MayContinue(d)
  /\ r \in Runs
  /\ run' = [run EXCEPT ![d] = r]
  /\ aborted' = [aborted EXCEPT ![d] = FALSE]
  /\ stopRequested' = [stopRequested EXCEPT ![d] = FALSE]
  /\ nudged' = [nudged EXCEPT ![d] = FALSE]
  /\ \/ /\ definition[d] = "none"
        /\ status' = [status EXCEPT ![d] = "pending"]
        /\ Goto(d, r, "definition")
        /\ runHost' = [runHost EXCEPT ![d][r] = host[d]]
        /\ UNCHANGED <<host, workers>>
     \/ /\ definition[d] # "none"
        /\ host[d] # 0 /\ IsRunning(workers[d][host[d]])
        /\ status' = [status EXCEPT ![d] = "running"]
        /\ Goto(d, r, "baseline")
        /\ runHost' = [runHost EXCEPT ![d][r] = host[d]]
        /\ UNCHANGED <<host, workers>>
     \/ /\ definition[d] # "none"
        /\ host[d] # 0 => ~IsRunning(workers[d][host[d]])
        /\ status' = [status EXCEPT ![d] = "pending"]
        /\ CreateWorker(d, r)
  /\ UNCHANGED <<resident, fellBack, definition, fallbackVars, stopVars, parentVars, reconcileVars>>

-----------------------------------------------------------------------------
(* stop, stopParent, stopAll                                               *)

\* stopEntry for each of `ids`: entries that are terminal or already being
\* stopped are left alone.
Stoppable(ids) == {d \in ids : resident[d] /\ status[d] \in Active /\ stopper[d] = "idle"}

StopEntries(ids, outcome) ==
  LET s == Stoppable(ids) IN
  /\ stopRequested' = [d \in Delegations |-> d \in s \/ stopRequested[d]]
  /\ aborted' = [d \in Delegations |-> d \in s \/ aborted[d]]
  /\ stopHost' = [d \in Delegations |-> IF d \in s THEN host[d] ELSE stopHost[d]]
  /\ stopStatus' = [d \in Delegations |-> IF d \in s THEN outcome ELSE stopStatus[d]]
  /\ stopper' = [d \in Delegations |->
       IF d \notin s THEN stopper[d]
       ELSE IF host[d] # 0 /\ workers[d][host[d]] \in {"booting", "up", "closing"}
            THEN "stopping" ELSE "starting"]

StoppedWorkers(ids) ==
  [d \in Delegations |-> IF d \in ids THEN AfterStop(workers[d], host[d]) ELSE workers[d]]

\* stop / stopById
StopOne(d) ==
  /\ Stoppable({d}) # {}
  /\ StopEntries({d}, "cancelled")
  /\ workers' = StoppedWorkers(Stoppable({d}))
  /\ UNCHANGED <<status, resident, run, nudged, fellBack, definition, host, pc, runHost,
                 fallbackVars, parentVars, reconcileVars>>

StopParent(p) ==
  LET children == {d \in Delegations : ParentOf[d] = p} IN
  /\ epoch[p] < MaxEpoch
  /\ paused' = paused \cup {p}
  /\ epoch' = [epoch EXCEPT ![p] = @ + 1]
  /\ StopEntries(children, "cancelled")
  /\ workers' = StoppedWorkers(Stoppable(children))
  /\ UNCHANGED <<status, resident, run, nudged, fellBack, definition, host, pc, runHost,
                 fallbackVars, starter, startEpoch, reservations, reconcileVars>>

\* agent_start of the parent's next turn.
ResumeParent(p) ==
  /\ p \in paused
  /\ paused' = paused \ {p}
  /\ UNCHANGED <<entryVars, runVars, fallbackVars, stopVars, starter, startEpoch,
                 reservations, epoch, reconcileVars>>

\* The window closed: parents with entries or reservations are paused, and
\* the idle workers of terminal entries are stopped too.
StopAll ==
  LET known == {d \in Delegations : resident[d]}
      ps    == {p \in Parents : reservations[p] > 0 \/ \E d \in known : ParentOf[d] = p} IN
  /\ ps # {}
  /\ \A p \in ps : epoch[p] < MaxEpoch
  /\ paused' = paused \cup ps
  /\ epoch' = [p \in Parents |-> IF p \in ps THEN epoch[p] + 1 ELSE epoch[p]]
  /\ StopEntries(known, "interrupted")
  /\ workers' = StoppedWorkers(Stoppable(known) \cup {d \in known : status[d] \in Terminal})
  /\ UNCHANGED <<status, resident, run, nudged, fellBack, definition, host, pc, runHost,
                 fallbackVars, starter, startEpoch, reservations, reconcileVars>>

\* A rejected host.stop() rejects entry.stopping: nothing is settled.
StopRejected(d) ==
  /\ stopper[d] \in {"stopping", "again"}
  /\ workers[d][stopHost[d]] = "up"
  /\ stopper' = [stopper EXCEPT ![d] = "idle"]
  /\ UNCHANGED <<entryVars, runVars, fallbackVars, stopHost, stopStatus, parentVars, reconcileVars>>

StopHostDone(d) ==
  /\ stopper[d] = "stopping"
  /\ workers[d][stopHost[d]] = "gone"
  /\ stopper' = [stopper EXCEPT ![d] = "starting"]
  /\ UNCHANGED <<entryVars, runVars, fallbackVars, stopHost, stopStatus, parentVars, reconcileVars>>

\* entry.starting is over; a worker that got through is stopped again.
StartingOver(d) ==
  /\ stopper[d] = "starting"
  /\ \A r \in Runs : pc[d][r] \notin Starting
  /\ stopHost[d] # 0
  /\ IsRunning(workers[d][stopHost[d]])
  /\ stopper' = [stopper EXCEPT ![d] = "again"]
  /\ workers' = [workers EXCEPT ![d] = AfterStop(@, stopHost[d])]
  /\ UNCHANGED <<entryVars, pc, runHost, fallbackVars, stopHost, stopStatus, parentVars, reconcileVars>>

\* Faulty variant of StopSettles: entry.stopping is only cleared by a settle.
StopSettlesSticky(d) ==
  /\ stopper[d] = "starting"
  /\ \A r \in Runs : pc[d][r] \notin Starting
  /\ stopHost[d] # 0 => ~IsRunning(workers[d][stopHost[d]])
  /\ Settle(d, stopStatus[d])
  /\ stopper' = [stopper EXCEPT ![d] = IF status[d] \in Terminal THEN @ ELSE "idle"]
  /\ UNCHANGED <<resident, run, stopRequested, nudged, definition, host, pc, runHost,
                 stopHost, stopStatus, parentVars, reconcileVars>>

StopSettles(d) ==
  /\ \/ /\ stopper[d] = "starting"
        /\ \A r \in Runs : pc[d][r] \notin Starting
        /\ stopHost[d] # 0 => ~IsRunning(workers[d][stopHost[d]])
     \/ /\ stopper[d] = "again"
        /\ workers[d][stopHost[d]] = "gone"
  /\ Settle(d, stopStatus[d])
  /\ stopper' = [stopper EXCEPT ![d] = "idle"]
  /\ UNCHANGED <<resident, run, stopRequested, nudged, definition, host, pc, runHost,
                 stopHost, stopStatus, parentVars, reconcileVars>>

-----------------------------------------------------------------------------
(* Restart of the application: hydratePersistedEntries and reconciliation. *)

\* A row of an unfinished delegation is read back as interrupted.
Hydrated(st) == IF st \in Active THEN "interrupted" ELSE st

\* Workers die with the application.  The rows are read back without
\* definition, worker or fallback model; old ones over the limit are dropped.
Restart == \E dropped \in SUBSET {d \in Delegations : status[d] # "absent"} :
  /\ restarts < MaxRestarts
  /\ \/ dropped = {}
     \/ Cardinality(dropped) + MaxRetained <= Cardinality({d \in Delegations : status[d] # "absent"})
  /\ restarts' = restarts + 1
  /\ status' = [d \in Delegations |-> Hydrated(status[d])]
  /\ resident' = [d \in Delegations |-> status[d] # "absent" /\ d \notin dropped]
  /\ aborted' = [d \in Delegations |-> FALSE]
  /\ stopRequested' = [d \in Delegations |-> FALSE]
  /\ nudged' = [d \in Delegations |-> FALSE]
  /\ fellBack' = [d \in Delegations |-> FALSE]
  /\ definition' = [d \in Delegations |-> "none"]
  /\ host' = [d \in Delegations |-> 0]
  /\ workers' = [d \in Delegations |-> [h \in Hosts |-> "none"]]
  /\ pc' = [d \in Delegations |-> [r \in Runs |-> "none"]]
  /\ runHost' = [d \in Delegations |-> [r \in Runs |-> 0]]
  /\ fallback' = [d \in Delegations |-> "idle"]
  /\ stopper' = [d \in Delegations |-> "idle"]
  /\ starter' = [d \in Delegations |-> IF starter[d] = "loading" THEN "used" ELSE starter[d]]
  /\ reservations' = [p \in Parents |-> 0]
  /\ paused' = {}
  /\ epoch' = [p \in Parents |-> 0]
  /\ startEpoch' = [d \in Delegations |-> 0]
  /\ toReconcile' = {d \in Delegations : status[d] # "absent"} \ dropped
  /\ reconciling' = {}
  /\ overtaken' = {}
  /\ UNCHANGED <<run, fallbackRun, fallbackHost, stopHost, stopStatus>>

\* The next entry of reconcilePersistedFailures: only a failed one without
\* a worker has its session file read.
ReconcileNext(d) ==
  /\ reconciling = {}
  /\ d \in toReconcile
  /\ toReconcile' = toReconcile \ {d}
  /\ reconciling' = IF status[d] = "failed" /\ host[d] = 0 THEN {d} ELSE {}
  /\ UNCHANGED <<entryVars, runVars, fallbackVars, stopVars, parentVars, overtaken, restarts>>

\* The file was read; a report in it makes the record completed, also that
\* of a run which `continue` began in the meantime.
ReconcileRead(d, found) ==
  /\ d \in reconciling
  /\ reconciling' = {}
  /\ status' = IF found THEN [status EXCEPT ![d] = "completed"] ELSE status
  /\ overtaken' = IF found /\ status[d] \in Active THEN overtaken \cup {d} ELSE overtaken
  /\ UNCHANGED <<resident, run, aborted, stopRequested, nudged, fellBack, definition, host,
                 runVars, fallbackVars, stopVars, parentVars, toReconcile, restarts>>

-----------------------------------------------------------------------------
RunStep(d, r) ==
  \/ Abandon(d, r)
  \/ PrepareFails(d, r)
  \/ DefinitionLoaded(d, r)
  \/ OptionsBuilt(d, r)
  \/ StartDone(d, r)
  \/ StartFails(d, r)
  \/ UndoDone(d, r)
  \/ Advance(d, r)
  \/ Judge(d, r)
  \/ Nudge(d, r)
  \/ NudgeFails(d, r)
  \/ RunFails(d, r)
  \/ BestEffortRead(d, r)
  \/ SettleStopped(d, r)

WorkerStep(d, h) == Spawn(d, h) \/ CloseWorker(d, h)
FallbackStep(d)  == FallbackStopped(d) \/ FallbackRead(d)
StopStep(d)      == StopRejected(d) \/ StopHostDone(d) \/ StartingOver(d) \/ StopSettles(d)
StartStep(d)     == StartCommit(d) \/ StartReject(d)

Next ==
  \/ \E d \in Delegations :
       \/ StartReserve(d) \/ StartStep(d)
       \/ \E r \in Runs : RunStep(d, r) \/ BecomesIdle(d, r) \/ TurnLimit(d, r)
       \/ \E h \in Hosts : WorkerStep(d, h) \/ WorkerExit(d, h)
       \/ FallbackStep(d)
       \/ Continue(d)
       \/ StopOne(d) \/ StopStep(d)
       \/ ReconcileNext(d) \/ \E found \in BOOLEAN : ReconcileRead(d, found)
  \/ \E p \in Parents : StopParent(p) \/ ResumeParent(p)
  \/ StopAll
  \/ Restart

Spec == Init /\ [][Next]_vars

\* Every await returns: file reads end, RPCs and the run itself have timers,
\* terminateProcessTree waits a bounded time.  Nothing is assumed of the user,
\* of the worker's turn (BecomesIdle, TurnLimit) or of reconciliation.
Fairness ==
  \A d \in Delegations :
    /\ \A r \in Runs : WF_vars(RunStep(d, r))
    /\ \A h \in Hosts : WF_vars(WorkerStep(d, h))
    /\ WF_vars(FallbackStep(d))
    /\ WF_vars(StopStep(d))
    /\ WF_vars(StartStep(d))

FairSpec == Spec /\ Fairness

-----------------------------------------------------------------------------
(* Properties                                                              *)

\* The coordinator implements the contract of one delegation: status and run
\* number alone go through its transitions.
Contract == INSTANCE DelegationContract
ImplementsContract == Contract!Spec

HasProcess(w) == w \in {"preparing", "booting", "up", "closing"}

\* The worker of a delegation that failed or was stopped is gone when the
\* status says so, even if its startup was under way when the stop arrived.
\* Here and below, a record that reconciliation wrote over while its run was
\* under way is left out: its run goes on behind a terminal status.
NoWorkerBehindFailure ==
  \A d \in Delegations \ overtaken :
    status[d] \in {"failed", "cancelled", "interrupted"} /\ host[d] # 0
      => ~HasProcess(workers[d][host[d]])

\* Two workers never work on the same child session: besides those being
\* terminated there is at most one process per delegation, across
\* continues, fallbacks and late startups, and it is entry.host.
OneWorkerPerSession ==
  \A d \in Delegations \ overtaken : \A h \in Hosts :
    workers[d][h] \in {"preparing", "booting", "up"} => h = host[d]

\* A delegation has the processes its status and entry.host say, and no other.
WorkersAccountedFor == NoWorkerBehindFailure /\ OneWorkerPerSession

\* An entry that left the map takes its idle worker with it: nothing runs
\* that stopAll could no longer reach.
EvictedHasNoWorker ==
  \A d \in Delegations \ overtaken : ~resident[d] =>
    \A h \in Hosts : workers[d][h] \notin {"preparing", "booting", "up"}

\* Concurrent starts never pass the limit together: first runs in progress
\* and starts still loading their role fit into it.
AdmissionCap ==
  \A p \in Parents :
    Cardinality({d \in ActiveOf(p) : run[d] = 1}) + reservations[p] <= MaxConcurrency

\* While a parent is stopped nothing of it is running except what is being
\* stopped, whatever start, continue or fallback was under way.
PausedParentDrains ==
  \A p \in paused : \A d \in ActiveOf(p) : stopper[d] # "idle"

\* A record that is not terminal always has a coroutine that will settle it;
\* otherwise it would hold its slot forever and delegate_wait would only time
\* out.
Unattended(d) ==
  /\ status[d] \in Active
  /\ stopper[d] = "idle"
  /\ ~(Live(d, run[d]) /\ pc[d][run[d]] \in Working)
  /\ ~(fallback[d] # "idle" /\ Live(d, fallbackRun[d]))
NoUnattendedRun == \A d \in Delegations : ~Unattended(d)

\* A step of an earlier run, or of its fallback, leaves the current one alone.
StaleRunsKeep ==
  \A d \in Delegations \ overtaken :
    ((\E r \in Runs : r < run[d] /\ pc[d][r] # "none" /\ pc'[d][r] # pc[d][r])
       \/ (fallback'[d] # fallback[d] /\ fallback[d] # "idle" /\ fallbackRun[d] < run[d]))
      /\ run'[d] = run[d] /\ restarts' = restarts
    => /\ status'[d] = status[d] /\ aborted'[d] = aborted[d]
       /\ host'[d] = host[d]
       /\ host[d] # 0 /\ host[d] = runHost[d][run[d]] => workers'[d][host[d]] = workers[d][host[d]]

\* What a coroutine of an earlier run, or a fallback started by one, still
\* does never touches the record, the signal or the worker of a later run.
StaleRunsAreInert == [][StaleRunsKeep]_vars

\* stopParent leaves no delegated worker of the parent behind.
StopParentReapsWorkers ==
  \A p \in paused : \A d \in Delegations :
    ParentOf[d] = p /\ stopper[d] = "idle" => \A h \in Hosts : workers[d][h] # "up"

\* Reconciliation only completes failed records without a worker.
ReconcileOnlyFailed ==
  [][\A d \in reconciling : status'[d] # status[d] /\ restarts' = restarts /\ reconciling' = {}
       => status[d] = "failed" /\ host[d] = 0]_vars

\* Every run that was begun is settled.
EveryRunSettles ==
  \A d \in Delegations : status[d] \in Active ~> status[d] \in Terminal

\* A stop request is over at some point.
StopReturns ==
  \A d \in Delegations : stopper[d] # "idle" ~> stopper[d] = "idle"
=============================================================================
