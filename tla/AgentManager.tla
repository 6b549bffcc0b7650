------------------------------ MODULE AgentManager ------------------------------
(***************************************************************************)
(* AgentManager (src/main/agent-manager.ts): which worker answers for      *)
(* which session and which one the window looks at, while starts, resumes, *)
(* commands, answers, restarts for new capabilities, the reaper and stops  *)
(* overlap, workers exit by themselves and some outlive their termination. *)
(*                                                                         *)
(* A host is an AgentHost with the worker it has; a session has one file   *)
(* name throughout.  A call is a request of the window.  What a worker     *)
(* does in a turn and the delegations it owns are one flag.  A callback    *)
(* runs to its end and is followed by what it resolved or rejected before  *)
(* anything else happens.                                                  *)
(***************************************************************************)
EXTENDS Integers, Sequences, Functions

CONSTANTS
  Sessions,
  MaxHosts,     \* bound: hosts created
  MaxCalls,     \* bound: starts, resumes and commands
  MaxTroubles   \* bound: changes of trust, workers that exit by themselves and
                \* workers that outlive their termination

ASSUME BoundsAssumption == {MaxHosts, MaxCalls, MaxTroubles} \subseteq Nat
ASSUME SessionsAssumption == 0 \notin Sessions

VARIABLES
  \* hosts
  proc,      \* "none" (not created), "booting", "up", "ending" (being terminated) or "down"
  ender,     \* on whose behalf it is terminated: "no", "stop", "all", "clean" or "reload"
  sess,      \* its session
  busy,      \* is it in a turn, or has it delegations?
  stale,     \* requiresCapabilityRestart
  \* the manager
  runtimes, index, active, selection,
  queue,     \* the command queue of a host: calls, and 0 for a reload
  starts,    \* the queue of the starts of a session
  reloads,   \* the hosts in capabilityReloads
  reload,    \* where applyCapabilitiesOn is: "no", "asking", "stopping" or "booting"
  closed,    \* has the window closed?
  call,
  \* bookkeeping
  chosen,    \* the session the user chose last, or none
  survived,  \* has a worker outlived its termination?
  abandoned, \* those of which nobody was told
  troubles

hostVars == <<proc, ender, sess, busy, stale>>
mapVars  == <<runtimes, index, active, selection>>
jobVars  == <<queue, starts, reloads, reload>>
bookVars == <<chosen, survived, abandoned, troubles>>
vars == <<hostVars, mapVars, jobVars, closed, call, bookVars>>

-----------------------------------------------------------------------------
Hosts == 1..MaxHosts
Calls == 1..MaxCalls
None  == 0
RELOAD == 0

\* A start waits for a reload, in the queue of its session, for a new worker,
\* for the end of one that failed, or for the snapshot of one that was there.
\* A command waits in the queue, for a reload, for its response, or for the
\* user whom it asks; "rejected" is a request whose worker is gone.
Pending == {"wait", "queued", "booting", "cleanup", "reading", "applying", "requested", "asked", "answered", "rejected"}
Idle == [kind |-> "none", host |-> None, session |-> None, sel |-> 0, pc |-> "no"]

TypeOK ==
  /\ proc \in [Hosts -> {"none", "booting", "up", "ending", "down"}]
  /\ ender \in [Hosts -> {"no", "stop", "all", "clean", "reload"}]
  /\ \A h \in Hosts : proc[h] = "ending" <=> ender[h] # "no"
  /\ sess \in [Hosts -> Sessions \cup {None}]
  /\ busy \in [Hosts -> BOOLEAN] /\ stale \in [Hosts -> BOOLEAN]
  /\ runtimes \subseteq Hosts /\ reloads \subseteq Hosts /\ abandoned \subseteq Hosts
  /\ index \in [Sessions -> runtimes \cup {None}]
  /\ active \in runtimes \cup {None} /\ selection \in Nat
  /\ \A h \in Hosts : Range(queue[h]) \subseteq Calls \cup {RELOAD}
  /\ \A s \in Sessions : Range(starts[s]) \subseteq Calls
  /\ reload \in [Hosts -> {"no", "asking", "stopping", "booting"}]
  /\ call \in [Calls -> [kind : {"none", "start", "resume", "prompt", "plain", "abort"},
                         host : Hosts \cup {None}, session : Sessions \cup {None},
                         sel : Nat, pc : Pending \cup {"no", "done", "failed"}]]
  /\ chosen \in Sessions \cup {None}
  /\ closed \in BOOLEAN /\ survived \in BOOLEAN /\ troubles \in Nat

Init ==
  /\ proc = [h \in Hosts |-> "none"] /\ ender = [h \in Hosts |-> "no"]
  /\ sess = [h \in Hosts |-> None]
  /\ busy = [h \in Hosts |-> FALSE] /\ stale = [h \in Hosts |-> FALSE]
  /\ runtimes = {} /\ index = [s \in Sessions |-> None] /\ active = None /\ selection = 0
  /\ queue = [h \in Hosts |-> <<>>] /\ starts = [s \in Sessions |-> <<>>]
  /\ reloads = {} /\ reload = [h \in Hosts |-> "no"]
  /\ closed = FALSE /\ call = [c \in Calls |-> Idle]
  /\ chosen = None /\ survived = FALSE /\ abandoned = {} /\ troubles = 0

-----------------------------------------------------------------------------
isRunning(h) == proc[h] \in {"booting", "up"}

\* The calls that wait for a response of a host.
AskingHost(h) == {c \in Calls : call[c].host = h /\ call[c].pc \in {"reading", "requested", "asked", "answered"}}

\* No prompt of it is under way, nothing waits for the user, no turn, no child.
CanReload(h) == ~busy[h] /\ \A c \in AskingHost(h) : call[c].kind # "prompt"

findBySession(s) == index[s]

\* Faulty variant of removeHost: the paths of the host stay in the index.
removeHostOnly(h) ==
  /\ runtimes' = runtimes \ {h}
  /\ active' = IF active = h THEN None ELSE active
  /\ UNCHANGED index

removeHost(h) ==
  /\ runtimes' = runtimes \ {h}
  /\ index' = [s \in Sessions |-> IF index[s] = h THEN None ELSE index[s]]
  /\ active' = IF active = h THEN None ELSE active

\* The one path of the session leads to the host.
reindex(h) == index' = [index EXCEPT ![sess[h]] = h]

\* Host.stop: at once the host has no child any more and rejects what is
\* pending; one termination serves all who ask for it.
Rejected(H) == [c \in Calls |-> IF \E h \in H : c \in AskingHost(h) THEN [call[c] EXCEPT !.pc = "rejected"] ELSE call[c]]
HostStop(H, who) ==
  /\ proc' = [h \in Hosts |-> IF h \in H /\ isRunning(h) THEN "ending" ELSE proc[h]]
  /\ ender' = [h \in Hosts |-> IF h \in H /\ (isRunning(h) \/ ender[h] = "reload") THEN who ELSE ender[h]]
  /\ busy' = [h \in Hosts |-> busy[h] /\ h \notin H]

Goto(c, pc) == call' = [call EXCEPT ![c].pc = pc]
isFirst(c, jobs) == jobs # <<>> /\ Head(jobs) = c
\* What a call that ends leaves behind in the queues.
Leave(c) ==
  /\ queue' = [h \in Hosts |-> IF isFirst(c, queue[h]) THEN Tail(queue[h]) ELSE queue[h]]
  /\ starts' = [s \in Sessions |-> IF isFirst(c, starts[s]) THEN Tail(starts[s]) ELSE starts[s]]

\* The next call of the window.
Asks(c) == ~closed /\ call[c].pc = "no" /\ \A d \in 1..(c - 1) : call[d].pc # "no"

-----------------------------------------------------------------------------
(* start and resume.                                                       *)

Start(c, s) ==
  /\ Asks(c)
  /\ selection' = selection + 1 /\ chosen' = s
  /\ call' = [call EXCEPT ![c] = [kind |-> "start", host |-> None, session |-> s, sel |-> selection + 1, pc |-> "wait"]]
  /\ UNCHANGED <<hostVars, runtimes, index, active, jobVars, closed, survived, abandoned, troubles>>

Resume(c, h) ==
  /\ Asks(c) /\ h \in runtimes
  /\ selection' = selection + 1 /\ chosen' = sess[h]
  /\ call' = [call EXCEPT ![c] = [kind |-> "resume", host |-> h, session |-> sess[h], sel |-> selection + 1, pc |-> "wait"]]
  /\ UNCHANGED <<hostVars, runtimes, index, active, jobVars, closed, survived, abandoned, troubles>>

\* Once a reload of its host is over: a worker that runs is read, a dead one
\* is dropped, and the start joins the queue of the session.
StartFinds(c) ==
  LET s == call[c].session  h == findBySession(s) IN
  /\ call[c].pc = "wait" /\ call[c].kind = "start" /\ h \notin reloads
  /\ IF h # None /\ isRunning(h)
     THEN /\ call' = [call EXCEPT ![c].pc = "reading", ![c].host = h]
          /\ UNCHANGED <<runtimes, index, active, starts>>
     ELSE /\ Goto(c, "queued") /\ starts' = [starts EXCEPT ![s] = Append(@, c)]
          /\ removeHost(h)
  /\ UNCHANGED <<hostVars, selection, queue, reloads, reload, closed, bookVars>>

ResumeFinds(c) ==
  LET h == call[c].host IN
  /\ call[c].pc = "wait" /\ call[c].kind = "resume" /\ h \notin reloads
  /\ Goto(c, IF h \in runtimes /\ isRunning(h) THEN "reading" ELSE "failed")
  /\ UNCHANGED <<hostVars, mapVars, jobVars, closed, bookVars>>

\* A host is a new object: the first that has not been created.
isNext(h) == proc[h] = "none" /\ \A g \in 1..(h - 1) : proc[g] # "none"

\* Faulty variant of StartBegins: the queue is not followed by another look.
StartBeginsBlind(c) ==
  LET s == call[c].session IN
  /\ call[c].pc = "queued" /\ call[c].kind = "start" /\ isFirst(c, starts[s])
  /\ \E new \in Hosts :
       /\ isNext(new)
       /\ call' = [call EXCEPT ![c].pc = "booting", ![c].host = new]
       /\ proc' = [proc EXCEPT ![new] = "booting"] /\ sess' = [sess EXCEPT ![new] = s]
       /\ runtimes' = runtimes \cup {new}
  /\ UNCHANGED <<index, active, ender, busy, stale, selection, jobVars, closed, bookVars>>

\* The first of the queue looks again and creates a host.
StartBegins(c) ==
  LET s == call[c].session  h == findBySession(s) IN
  /\ call[c].pc = "queued" /\ call[c].kind = "start" /\ isFirst(c, starts[s])
  /\ IF h # None /\ isRunning(h)
     THEN /\ call' = [call EXCEPT ![c].pc = "reading", ![c].host = h]
          /\ UNCHANGED <<proc, sess, runtimes, index, active>>
     ELSE \E new \in Hosts :
          /\ isNext(new)
          /\ call' = [call EXCEPT ![c].pc = "booting", ![c].host = new]
          /\ proc' = [proc EXCEPT ![new] = "booting"] /\ sess' = [sess EXCEPT ![new] = s]
          /\ runtimes' = (runtimes \ {h}) \cup {new}
          /\ index' = [index EXCEPT ![s] = None]
          /\ active' = IF active = h THEN None ELSE active
  /\ UNCHANGED <<ender, busy, stale, selection, jobVars, closed, bookVars>>

\* Faulty variant of Select: the last to answer gets the view.
SelectLatest(c) == active' = call[c].host

\* The view goes to the host unless something else was chosen meanwhile.
Select(c) == active' = IF call[c].sel = selection THEN call[c].host ELSE active

Booted(c) ==
  LET h == call[c].host IN
  /\ call[c].pc = "booting" /\ proc[h] = "booting" /\ h \in runtimes
  /\ proc' = [proc EXCEPT ![h] = "up"]
  /\ reindex(h) /\ Select(c) /\ Goto(c, "done") /\ Leave(c)
  /\ UNCHANGED <<ender, sess, busy, stale, runtimes, selection, reloads, reload, closed, bookVars>>

\* The worker reports an error or takes too long; or it exited or is stopped.
BootEnds(c, places) ==
  LET h == call[c].host IN
  /\ call[c].pc = "booting" /\ proc[h] \in places
  /\ call' = [Rejected({h}) EXCEPT ![c].pc = "cleanup"]
  /\ removeHost(h) /\ HostStop({h}, "clean")
  /\ UNCHANGED <<sess, stale, selection, jobVars, closed, bookVars>>
BootFails(c) == BootEnds(c, {"booting"})
BootRejected(c) == BootEnds(c, {"ending", "down"})

CleanedUp(c) ==
  /\ call[c].pc = "cleanup" /\ proc[call[c].host] # "ending"
  /\ Goto(c, "failed") /\ Leave(c)
  /\ UNCHANGED <<hostVars, mapVars, reloads, reload, closed, bookVars>>

\* snapshotOn gets the snapshot.
Read(c) ==
  LET h == call[c].host IN
  /\ call[c].pc = "reading" /\ proc[h] = "up"
  /\ IF h \in runtimes THEN Select(c) /\ Goto(c, "done") ELSE Goto(c, "failed") /\ UNCHANGED active
  /\ Leave(c)
  /\ UNCHANGED <<hostVars, runtimes, index, selection, reloads, reload, closed, bookVars>>

\* Repeated, it would change nothing but the number.
deactivate ==
  /\ ~closed /\ (active # None \/ chosen # None)
  /\ selection' = selection + 1 /\ active' = None /\ chosen' = None
  /\ UNCHANGED <<hostVars, runtimes, index, jobVars, closed, call, survived, abandoned, troubles>>

-----------------------------------------------------------------------------
(* Commands, and the answers of the user.                                  *)

\* A host without a worker that is not being restarted is dropped; abort goes
\* around the queue.  Nobody knows a host that is being started.
Command(c, h, kind) ==
  /\ Asks(c) /\ h \in runtimes /\ (proc[h] = "booting" => reload[h] = "booting")
  /\ LET ask(pc) == call' = [call EXCEPT ![c] = [Idle EXCEPT !.kind = kind, !.host = h, !.session = sess[h], !.pc = pc]] IN
     IF ~isRunning(h) /\ h \notin reloads
     THEN ask("failed") /\ removeHost(h) /\ UNCHANGED queue
     ELSE /\ UNCHANGED <<runtimes, index, active>>
          /\ IF kind = "abort"
             THEN ask(IF isRunning(h) THEN "requested" ELSE "failed") /\ UNCHANGED queue
             ELSE ask("queued") /\ queue' = [queue EXCEPT ![h] = Append(@, c)]
  /\ UNCHANGED <<hostVars, selection, starts, reloads, reload, closed, bookVars>>

\* Its turn in the queue: a prompt first has a stale worker restarted.
CommandBegins(c) ==
  LET h == call[c].host IN
  /\ call[c].pc = "queued" /\ call[c].kind \in {"prompt", "plain"} /\ isFirst(c, queue[h])
  /\ \/ /\ h \notin runtimes
        /\ Goto(c, "failed") /\ Leave(c) /\ UNCHANGED <<reloads, reload>>
     \/ /\ h \in runtimes /\ call[c].kind = "prompt" /\ stale[h] /\ CanReload(h)
        /\ Goto(c, "applying") /\ reloads' = reloads \cup {h}
        /\ reload' = [reload EXCEPT ![h] = IF isRunning(h) THEN "asking" ELSE "stopping"]
        /\ UNCHANGED <<queue, starts>>
     \/ /\ h \in runtimes /\ ~(call[c].kind = "prompt" /\ stale[h] /\ CanReload(h))
        /\ Goto(c, IF isRunning(h) THEN "requested" ELSE "rejected")
        /\ UNCHANGED jobVars
  /\ UNCHANGED <<hostVars, mapVars, closed, bookVars>>

\* The worker asks the user something before it responds.
AsksUser(c) ==
  /\ call[c].pc = "requested" /\ call[c].kind = "prompt" /\ proc[call[c].host] = "up"
  /\ Goto(c, "asked")
  /\ UNCHANGED <<hostVars, mapVars, jobVars, closed, bookVars>>

\* Faulty variant of respondToUi: the answer waits for the commands before it.
respondInTurn(c) ==
  /\ call[c].pc = "asked" /\ call[c].host \in runtimes /\ queue[call[c].host] = <<>>
  /\ Goto(c, "answered")
  /\ UNCHANGED <<hostVars, mapVars, jobVars, closed, bookVars>>

\* The answer goes around the queue.
respondToUi(c) ==
  /\ call[c].pc = "asked" /\ call[c].host \in runtimes
  /\ Goto(c, "answered")
  /\ UNCHANGED <<hostVars, mapVars, jobVars, closed, bookVars>>

\* The response; a prompt may have begun a turn.
Responds(c) ==
  LET h == call[c].host IN
  /\ call[c].pc \in {"requested", "answered"} /\ proc[h] = "up"
  /\ Goto(c, "done") /\ Leave(c)
  /\ busy' \in {busy, [busy EXCEPT ![h] = call[c].kind = "prompt"]}
  /\ UNCHANGED <<proc, ender, sess, stale, mapVars, reloads, reload, closed, bookVars>>

TurnEnds(h) ==
  /\ busy[h] /\ busy' = [busy EXCEPT ![h] = FALSE]
  /\ UNCHANGED <<proc, ender, sess, stale, mapVars, jobVars, closed, call, bookVars>>

Rejection(c) ==
  /\ call[c].pc = "rejected"
  /\ Goto(c, "failed") /\ Leave(c)
  /\ UNCHANGED <<hostVars, mapVars, reloads, reload, closed, bookVars>>

-----------------------------------------------------------------------------
(* New capabilities that need another worker.                              *)

Trouble == troubles < MaxTroubles /\ troubles' = troubles + 1

\* invalidateCapabilities after a change of trust.
Distrust ==
  /\ ~closed /\ Trouble
  /\ \E h \in runtimes : proc[h] = "up" /\ ~stale[h]
  /\ stale' = [h \in Hosts |-> stale[h] \/ h \in runtimes]
  /\ UNCHANGED <<proc, ender, sess, busy, mapVars, jobVars, closed, call, chosen, survived, abandoned>>

\* reloadCapabilities, asked for by the user or by the end of what was in its way.
AskReload(h) ==
  /\ ~closed /\ h \in runtimes \ reloads /\ stale[h] /\ CanReload(h)
  /\ queue' = [queue EXCEPT ![h] = Append(@, RELOAD)] /\ reloads' = reloads \cup {h}
  /\ UNCHANGED <<hostVars, mapVars, starts, reload, closed, call, bookVars>>

\* The job that applies them ends: a queued one, or the prompt that did it.
EndApply(h, ok) ==
  LET j == Head(queue[h]) IN
  /\ reload' = [reload EXCEPT ![h] = "no"]
  /\ UNCHANGED starts
  /\ IF j = RELOAD
     THEN /\ queue' = [queue EXCEPT ![h] = Tail(@)] /\ UNCHANGED call
          /\ reloads' = IF RELOAD \in Range(Tail(queue[h])) THEN reloads ELSE reloads \ {h}
     ELSE /\ reloads' = reloads \ {h}
          /\ IF ok THEN Goto(j, IF isRunning(h) THEN "requested" ELSE "rejected") /\ UNCHANGED queue
             ELSE Goto(j, "failed") /\ queue' = [queue EXCEPT ![h] = Tail(@)]

ReloadBegins(h) ==
  /\ isFirst(RELOAD, queue[h]) /\ reload[h] = "no"
  /\ IF h \in runtimes /\ CanReload(h) /\ stale[h]
     THEN /\ reload' = [reload EXCEPT ![h] = IF isRunning(h) THEN "asking" ELSE "stopping"]
          /\ UNCHANGED <<queue, starts, reloads, call>>
     ELSE EndApply(h, h \in runtimes)
  /\ UNCHANGED <<hostVars, mapVars, closed, bookVars>>

\* get_state is answered.
StateAnswered(h) ==
  /\ reload[h] = "asking" /\ proc[h] = "up"
  /\ IF h \in runtimes /\ CanReload(h)
     THEN /\ reload' = [reload EXCEPT ![h] = "stopping"]
          /\ HostStop({h}, "reload") /\ call' = Rejected({h})
          /\ UNCHANGED <<queue, starts, reloads>>
     ELSE EndApply(h, h \in runtimes) /\ UNCHANGED <<proc, ender, busy>>
  /\ UNCHANGED <<sess, stale, mapVars, closed, bookVars>>

\* Faulty variant of Respawns: whether the session is still wanted is not looked at.
RespawnsAnyway(h) ==
  /\ reload[h] = "stopping" /\ proc[h] # "ending"
  /\ IF proc[h] = "down"
     THEN /\ proc' = [proc EXCEPT ![h] = "booting"] /\ reload' = [reload EXCEPT ![h] = "booting"]
          /\ UNCHANGED <<queue, starts, reloads, call>>
     ELSE EndApply(h, FALSE) /\ UNCHANGED proc
  /\ UNCHANGED <<ender, sess, busy, stale, mapVars, closed, bookVars>>

\* The old worker is gone and the session still wanted: another one is spawned.
Respawns(h) ==
  /\ reload[h] = "stopping" /\ proc[h] # "ending"
  /\ IF proc[h] = "down" /\ h \in runtimes
     THEN /\ proc' = [proc EXCEPT ![h] = "booting"] /\ reload' = [reload EXCEPT ![h] = "booting"]
          /\ UNCHANGED <<queue, starts, reloads, call>>
     ELSE EndApply(h, FALSE) /\ UNCHANGED proc
  /\ UNCHANGED <<ender, sess, busy, stale, mapVars, closed, bookVars>>

\* The new worker answers; otherwise what is left of it is stopped.
Respawned(h) ==
  /\ reload[h] = "booting" /\ proc[h] = "booting" /\ h \in runtimes
  /\ proc' = [proc EXCEPT ![h] = "up"] /\ stale' = [stale EXCEPT ![h] = FALSE]
  /\ reload' = [reload EXCEPT ![h] = "no"] /\ reindex(h)
  /\ LET j == Head(queue[h]) IN
     IF j = RELOAD
     THEN /\ queue' = [queue EXCEPT ![h] = Tail(@)] /\ UNCHANGED call
          /\ reloads' = IF RELOAD \in Range(Tail(queue[h])) THEN reloads ELSE reloads \ {h}
     ELSE reloads' = reloads \ {h} /\ Goto(j, "requested") /\ UNCHANGED queue
  /\ UNCHANGED <<ender, sess, busy, runtimes, active, selection, starts, closed, bookVars>>

\* The worker it asked, or the one it started, is stopped or exits.
ReloadRejected(h) ==
  /\ reload[h] \in {"asking", "booting"} /\ proc[h] \in {"ending", "down"}
  /\ EndApply(h, FALSE)
  /\ UNCHANGED <<hostVars, mapVars, closed, bookVars>>

-----------------------------------------------------------------------------
(* Stops, and workers that end.                                            *)

stop(h) == removeHost(h) /\ HostStop({h}, "stop") /\ call' = Rejected({h})

Stop(h) ==
  /\ ~closed /\ h \in runtimes
  /\ stop(h)
  /\ UNCHANGED <<sess, stale, selection, jobVars, closed, bookVars>>

\* reapIdle: which idle workers go is a matter of time and number; one that a
\* call has just touched does not.
Reap(h) ==
  /\ h \in runtimes \ reloads /\ h # active /\ isRunning(h) /\ CanReload(h) /\ ~stale[h] /\ queue[h] = <<>>
  /\ \A c \in Calls : call[c].host = h => call[c].pc \notin {"booting", "reading"}
  /\ stop(h)
  /\ UNCHANGED <<sess, stale, selection, jobVars, closed, bookVars>>

\* The window closes.  The maps of the queues are cleared; what is in the
\* queues goes on.
stopAll ==
  /\ ~closed /\ closed' = TRUE
  /\ selection' = selection + 1 /\ chosen' = None
  /\ runtimes' = {} /\ index' = [s \in Sessions |-> None] /\ active' = None /\ reloads' = {}
  /\ HostStop(runtimes, "all") /\ call' = Rejected(runtimes)
  /\ UNCHANGED <<sess, stale, queue, starts, reload, survived, abandoned, troubles>>

Terminated(h) ==
  /\ proc[h] = "ending"
  /\ proc' = [proc EXCEPT ![h] = "down"] /\ ender' = [ender EXCEPT ![h] = "no"]
  /\ UNCHANGED <<sess, busy, stale, mapVars, jobVars, closed, call, bookVars>>

\* The worker outlives its termination: stop puts the host back.
Survives(h) ==
  /\ proc[h] = "ending" /\ Trouble /\ survived' = TRUE
  /\ proc' = [proc EXCEPT ![h] = "up"] /\ ender' = [ender EXCEPT ![h] = "no"]
  /\ IF ender[h] = "stop"
     THEN runtimes' = runtimes \cup {h} /\ reindex(h)
     ELSE UNCHANGED <<runtimes, index>>
  /\ abandoned' = IF ender[h] \in {"all", "clean"} \/ (ender[h] = "reload" /\ h \notin runtimes) THEN abandoned \cup {h} ELSE abandoned
  /\ UNCHANGED <<sess, busy, stale, active, selection, jobVars, closed, call, chosen>>

Exits(h) ==
  /\ isRunning(h) /\ Trouble
  /\ proc' = [proc EXCEPT ![h] = "down"] /\ busy' = [busy EXCEPT ![h] = FALSE]
  /\ call' = Rejected({h})
  /\ UNCHANGED <<ender, sess, stale, mapVars, jobVars, closed, chosen, survived, abandoned>>

-----------------------------------------------------------------------------
\* What follows a callback at once, and whether there is anything left of it.
CallFollows(c) == \/ StartFinds(c) \/ ResumeFinds(c) \/ StartBegins(c) \/ BootRejected(c) \/ CleanedUp(c)
                  \/ CommandBegins(c) \/ Rejection(c)
HostFollows(h) == ReloadBegins(h) \/ Respawns(h) \/ ReloadRejected(h)

CallWaits(c) ==
  LET pc == call[c].pc  h == call[c].host  s == call[c].session IN
  /\ pc # "rejected"
  /\ pc = "wait" => (IF call[c].kind = "start" THEN findBySession(s) ELSE h) \in reloads
  /\ pc = "queued" => ~isFirst(c, IF call[c].kind = "start" THEN starts[s] ELSE queue[h])
  /\ pc = "booting" => proc[h] = "booting"
  /\ pc = "cleanup" => proc[h] = "ending"
HostWaits(h) ==
  /\ reload[h] = "no" => ~isFirst(RELOAD, queue[h])
  /\ reload[h] = "stopping" => proc[h] = "ending"
  /\ reload[h] \in {"asking", "booting"} => isRunning(h)
Quiet == (\A c \in Calls : CallWaits(c)) /\ (\A h \in Hosts : HostWaits(h))

\* Callbacks for workers and users who do what is expected of them.
CallProceeds(c) == Booted(c) \/ Read(c) \/ respondToUi(c) \/ Responds(c)
HostProceeds(h) == StateAnswered(h) \/ Respawned(h) \/ Terminated(h) \/ TurnEnds(h)

CallStep(c) == CallFollows(c) \/ (Quiet /\ CallProceeds(c))
HostStep(h) == HostFollows(h) \/ (Quiet /\ HostProceeds(h))

Callback ==
  \/ \E c \in Calls : \/ AsksUser(c) \/ BootFails(c)
                      \/ \E s \in Sessions : Start(c, s)
                      \/ \E h \in Hosts : Resume(c, h) \/ \E k \in {"prompt", "plain", "abort"} : Command(c, h, k)
  \/ \E h \in Hosts : AskReload(h) \/ Stop(h) \/ Reap(h) \/ Survives(h) \/ Exits(h)
  \/ deactivate \/ Distrust \/ stopAll

Proceed == (\E c \in Calls : CallStep(c)) \/ (\E h \in Hosts : HostStep(h))

Next == Proceed \/ (Quiet /\ Callback)

Spec == Init /\ [][Next]_vars

\* Workers respond, start or end, and users answer what they are asked.
FairSpec == Spec /\ WF_vars(Proceed)

-----------------------------------------------------------------------------
(* Properties.                                                             *)

\* A worker that runs can be reached: its host is in the map, so that a stop,
\* the reaper and the end of the application find it, or somebody is about to
\* see it end.  Only of one that outlives stopAll, a failed start or the restart
\* of a host dropped meanwhile nobody hears.
NoOrphan ==
  \A h \in Hosts : isRunning(h) => h \in runtimes \cup abandoned

\* A session has one worker that commands can reach, however starts, stops,
\* exits and restarts overlap, unless a worker outlived its stop.
OneWorker ==
  ~survived => \A g, h \in {k \in runtimes : isRunning(k)} : sess[g] = sess[h] => g = h

\* Every worker can be reached, and no session has two of them.
WorkersAreReached == NoOrphan /\ OneWorker

\* The view is never taken from what the user chose last by the late end of
\* an earlier start or resume.
ViewFollowsChoice == [][active' \in {active, None} \/ sess'[active'] = chosen']_vars

\* Every start, resume and command comes to an end, also one whose worker is
\* stopped, exits or is restarted, and a prompt that asks the user.
CallsSettle == []<>(\A c \in Calls : call[c].pc \notin Pending)

\* Once the window is closed no worker runs that is not being stopped.
ClosedIsQuiet == closed => \A h \in Hosts : ~isRunning(h)
=============================================================================
