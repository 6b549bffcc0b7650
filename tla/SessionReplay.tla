----------------------------- MODULE SessionReplay -----------------------------
(***************************************************************************)
(* How a view of a running session gets its transcript: the worker's       *)
(* stdout, AgentHost's numbering and replay buffer, the answers to         *)
(* agent:start, agent:attach and agent:replay, and the renderer that puts  *)
(* a snapshot, a replay and the live events together                       *)
(* (src/main/agent-host.ts, agent-manager.ts, renderer/App.tsx).           *)
(*                                                                         *)
(* An event is its number: the worker's n-th event gets __seq n.  A        *)
(* snapshot of the worker reflects every event written before it, so it is *)
(* the number of the last of them.  A transcript is the sequence of events *)
(* it was built from.  The channel to the renderer is first in, first out. *)
(***************************************************************************)
EXTENDS Integers, Sequences, FiniteSets, SequencesExt

CONSTANTS
  Updates,    \* events that are message_update or tool_execution_update
  Capacity,   \* REPLAY_CAP
  MaxChunk,   \* lines the pipe hands over in one read
  MayStart,   \* are views also opened by agent:start, which awaits before it answers?
  MaxEvents,  \* bound: events of the worker
  MaxViews    \* bound: times the session is opened in the renderer

ASSUME BoundsAssumption ==
  /\ Updates \subseteq Nat
  /\ Capacity \in Nat /\ MaxChunk \in Nat \ {0}
  /\ MayStart \in BOOLEAN
  /\ MaxEvents \in Nat /\ MaxViews \in Nat

VARIABLES
  wrote,       \* events the worker has written
  stdout,      \* lines not read yet
  chunk,       \* lines of the chunk in hand not handled yet
  seq, replayFloorSeq, snapshotSeq,   \* AgentHost; its buffer is replayFloorSeq+1 .. seq
  phase,       \* of each call of the renderer that may need a snapshot
  path,        \* agent:start or agent:attach opened the view
  reflected,   \* last event reflected in the messages of the call's snapshot
  answer,      \* what agent:start or agent:attach returns to the view
  afterSeq,    \* argument of the view's agent:replay
  channel,     \* answers and events on their way to the renderer
  view, live, eventSeq,   \* startSeq, live and eventSeqRef of the renderer
  shown, pending          \* events in `messages`, and those in the stream scheduler

hostVars     == <<seq, replayFloorSeq, snapshotSeq>>
callVars     == <<phase, path, reflected, answer, afterSeq>>
rendererVars == <<view, live, eventSeq, shown, pending>>
SRvars == <<wrote, stdout, chunk, hostVars, callVars, channel, rendererVars>>

Views  == 1..MaxViews
Events == 1..MaxEvents
Calls  == Views \X {"open", "replay"}
Phases == {"none", "sent", "worker", "stdout", "answered", "held", "done"}

Lines    == [type : {"event"}, n : Events] \cup [type : {"messages"}, n : 0..MaxEvents, call : Calls]
Snapshots == [type : {"snapshot"}, view : Views, n : 0..MaxEvents, last : 0..MaxEvents,
              replay : SUBSET Events]
Messages == [type : {"event"}, n : Events] \cup Snapshots
            \cup [type : {"replay"}, view : Views, replay : SUBSET Events]
            \cup [type : {"resync"}, view : Views, n : 0..MaxEvents, last : 0..MaxEvents]

SRTypeOK ==
  /\ wrote \in 0..MaxEvents
  /\ stdout \in Seq(Lines) /\ chunk \in 0..Len(stdout)
  /\ seq \in 0..wrote /\ replayFloorSeq \in 0..seq /\ snapshotSeq \in 0..seq
  /\ phase \in [Calls -> Phases]
  /\ path \in [Views -> {"start", "attach"}]
  /\ reflected \in [Calls -> 0..MaxEvents]
  /\ answer \in [Views -> Snapshots]
  /\ afterSeq \in [Views -> 0..MaxEvents]
  /\ channel \in Seq(Messages)
  /\ view \in 0..MaxViews /\ live \in BOOLEAN /\ eventSeq \in 0..MaxEvents
  /\ shown \in Seq(Events) /\ pending \in Seq(Events)

SRInit ==
  /\ wrote = 0 /\ stdout = <<>> /\ chunk = 0
  /\ seq = 0 /\ replayFloorSeq = 0 /\ snapshotSeq = 0
  /\ phase = [c \in Calls |-> "none"]
  /\ path = [v \in Views |-> "attach"]
  /\ reflected = [c \in Calls |-> 0]
  /\ answer = [v \in Views |-> [type |-> "snapshot", view |-> v, n |-> 0, last |-> 0, replay |-> {}]]
  /\ afterSeq = [v \in Views |-> 0]
  /\ channel = <<>>
  /\ view = 0 /\ live = FALSE /\ eventSeq = 0
  /\ shown = <<>> /\ pending = <<>>

UpTo(n)    == [i \in 1..n |-> i]
InOrder(S) == [i \in 1..Cardinality(S) |-> CHOOSE n \in S : Cardinality({m \in S : m <= n}) = i]
Highest(S, least) == CHOOSE n \in S \cup {least} : \A m \in S \cup {least} : m <= n

-----------------------------------------------------------------------------
(* The worker.                                                             *)

Write ==
  /\ wrote < MaxEvents
  /\ wrote' = wrote + 1
  /\ stdout' = Append(stdout, [type |-> "event", n |-> wrote + 1])
  /\ UNCHANGED <<chunk, hostVars, callVars, channel, rendererVars>>

\* The answer to get_messages reflects what was written before it.
Answer(c) ==
  /\ phase[c] = "worker"
  /\ phase' = [phase EXCEPT ![c] = "stdout"]
  /\ stdout' = Append(stdout, [type |-> "messages", n |-> wrote, call |-> c])
  /\ UNCHANGED <<wrote, chunk, hostVars, path, reflected, answer, afterSeq, channel, rendererVars>>

-----------------------------------------------------------------------------
(* AgentHost.                                                              *)

\* Faulty variant of MainIdle: one more await between the answer and the cut
\* lets the next chunk in.
MainIdleEarly == chunk = 0

\* A stdout callback runs to its end before the promises it resolved do.
MainIdle == chunk = 0 /\ \A c \in Calls : phase[c] # "answered"

Read(k) ==
  /\ MainIdle
  /\ k \in 1..Len(stdout)
  /\ chunk' = k
  /\ UNCHANGED <<wrote, stdout, hostVars, callVars, channel, rendererVars>>

\* The floor after an event was buffered: the oldest events leave until
\* count and bytes fit; how many bytes an event has is not modelled.
Evicted(floor, newest) == {f \in floor..newest : newest - f <= Capacity}

\* handleLine of an event: tagged() numbers it, buffers it, and it is sent on.
HandleEvent ==
  /\ chunk > 0
  /\ Head(stdout).type = "event"
  /\ stdout' = Tail(stdout)
  /\ chunk' = chunk - 1
  /\ seq' = seq + 1
  /\ replayFloorSeq' \in Evicted(replayFloorSeq, seq + 1)
  /\ channel' = Append(channel, [type |-> "event", n |-> seq + 1])
  /\ UNCHANGED <<wrote, snapshotSeq, callVars, rendererVars>>

\* handleLine of a response resolves the pending request.
HandleResponse ==
  /\ chunk > 0
  /\ Head(stdout).type = "messages"
  /\ stdout' = Tail(stdout)
  /\ chunk' = chunk - 1
  /\ phase' = [phase EXCEPT ![Head(stdout).call] = "answered"]
  /\ reflected' = [reflected EXCEPT ![Head(stdout).call] = Head(stdout).n]
  /\ UNCHANGED <<wrote, hostVars, path, answer, afterSeq, channel, rendererVars>>

\* replaySince: the buffered events after a number.
ReplaySince(after) == {n \in Events : after < n /\ n <= seq /\ n > replayFloorSeq}

\* Faulty variant of ReplayGap: an event that has just left is overlooked.
ReplayGapLate(after) == after + 1 < replayFloorSeq

ReplayGap(after) == after < replayFloorSeq

-----------------------------------------------------------------------------
(* AgentManager and the IPC handlers.                                      *)

\* agent:start and agent:attach ask the worker for its messages.
AskSnapshot(v) ==
  /\ MainIdle
  /\ phase[<<v, "open">>] = "sent"
  /\ phase' = [phase EXCEPT ![<<v, "open">>] = "worker"]
  /\ UNCHANGED <<wrote, stdout, chunk, hostVars, path, reflected, answer, afterSeq, channel, rendererVars>>

\* Faulty variant of Cut: the number the next event will get.
CutNext == seq + 1

\* snapshot() takes the last number given out once it has its answer.
Cut == seq

\* snapshot() and snapshotOn/startOn go on after the chunk.  agent:attach
\* answers at once, agent:start awaits the protected messages first.
TakeSnapshot(v) ==
  LET c == <<v, "open">>
      a == [type |-> "snapshot", view |-> v, n |-> reflected[c], last |-> Cut, replay |-> ReplaySince(Cut)]
  IN
  /\ chunk = 0
  /\ phase[c] = "answered"
  /\ snapshotSeq' = Cut
  /\ answer' = [answer EXCEPT ![v] = a]
  /\ \/ /\ path[v] = "attach"
        /\ phase' = [phase EXCEPT ![c] = "done"]
        /\ channel' = Append(channel, a)
     \/ /\ path[v] = "start"
        /\ phase' = [phase EXCEPT ![c] = "held"]
        /\ UNCHANGED channel
  /\ UNCHANGED <<wrote, stdout, chunk, seq, replayFloorSeq, path, reflected, afterSeq, rendererVars>>

\* agent:start has read the protected messages.
AnswerStart(v) ==
  /\ MainIdle
  /\ phase[<<v, "open">>] = "held"
  /\ phase' = [phase EXCEPT ![<<v, "open">>] = "done"]
  /\ channel' = Append(channel, answer[v])
  /\ UNCHANGED <<wrote, stdout, chunk, hostVars, path, reflected, answer, afterSeq, rendererVars>>

\* replayWithResync: buffered events, or a new snapshot if some have gone.
HandleReplay(v) ==
  LET c == <<v, "replay">> IN
  /\ MainIdle
  /\ phase[c] = "sent"
  /\ \/ /\ ~ReplayGap(afterSeq[v])
        /\ phase' = [phase EXCEPT ![c] = "done"]
        /\ channel' = Append(channel, [type |-> "replay", view |-> v, replay |-> ReplaySince(afterSeq[v])])
     \/ /\ ReplayGap(afterSeq[v])
        /\ phase' = [phase EXCEPT ![c] = "worker"]
        /\ UNCHANGED channel
  /\ UNCHANGED <<wrote, stdout, chunk, hostVars, path, reflected, answer, afterSeq, rendererVars>>

Resync(v) ==
  LET c == <<v, "replay">> IN
  /\ chunk = 0
  /\ phase[c] = "answered"
  /\ snapshotSeq' = Cut
  /\ phase' = [phase EXCEPT ![c] = "done"]
  /\ channel' = Append(channel, [type |-> "resync", view |-> v, n |-> reflected[c], last |-> Cut])
  /\ UNCHANGED <<wrote, stdout, chunk, seq, replayFloorSeq, path, reflected, answer, afterSeq, rendererVars>>

-----------------------------------------------------------------------------
(* The renderer.                                                           *)

\* startAgent: a new view of the session, empty and not live.
OpenView(how) ==
  /\ view < MaxViews
  /\ view' = view + 1
  /\ live' = FALSE /\ eventSeq' = 0
  /\ shown' = <<>> /\ pending' = <<>>
  /\ phase' = [phase EXCEPT ![<<view + 1, "open">>] = "sent"]
  /\ path' = [path EXCEPT ![view + 1] = how]
  /\ UNCHANGED <<wrote, stdout, chunk, hostVars, reflected, answer, afterSeq, channel>>

\* A message or tool event that is not an update first flushes the scheduler.
PushedAtOnce(n) ==
  /\ shown' = Append(shown \o pending, n)
  /\ pending' = <<>>

\* onEvent: dropped unless the view is live and the number is new.
ReceiveEvent ==
  LET n == Head(channel).n IN
  /\ channel # <<>> /\ Head(channel).type = "event"
  /\ channel' = Tail(channel)
  /\ \/ /\ ~live
        /\ pending' = <<>>
        /\ UNCHANGED <<shown, eventSeq>>
     \/ /\ live /\ n <= eventSeq
        /\ UNCHANGED <<shown, pending, eventSeq>>
     \/ /\ live /\ n > eventSeq
        /\ eventSeq' = n
        /\ \/ /\ n \in Updates
              /\ pending' = Append(pending, n)
              /\ UNCHANGED shown
           \/ /\ n \notin Updates
              /\ PushedAtOnce(n)
  /\ UNCHANGED <<wrote, stdout, chunk, hostVars, callVars, view, live>>

\* The scheduler's frame or its timer.
Flush ==
  /\ pending # <<>>
  /\ shown' = shown \o pending
  /\ pending' = <<>>
  /\ UNCHANGED <<wrote, stdout, chunk, hostVars, callVars, channel, view, live, eventSeq>>

\* The snapshot arrives: it is shown with its replay, the view goes live and
\* asks for what was sent since.
ReceiveSnapshot ==
  LET m == Head(channel)
      replaySeq == Highest(m.replay, m.last)
  IN
  /\ channel # <<>> /\ m.type = "snapshot"
  /\ channel' = Tail(channel)
  /\ \/ /\ m.view # view
        /\ UNCHANGED <<phase, afterSeq, live, eventSeq, shown>>
     \/ /\ m.view = view
        /\ shown' = UpTo(m.n) \o InOrder(m.replay)
        /\ eventSeq' = replaySeq
        /\ live' = TRUE
        /\ afterSeq' = [afterSeq EXCEPT ![view] = replaySeq]
        /\ phase' = [phase EXCEPT ![<<view, "replay">>] = "sent"]
  /\ UNCHANGED <<wrote, stdout, chunk, hostVars, path, reflected, answer, view, pending>>

\* Events of a replay that are newer than what has arrived live meanwhile.
Fresh(replay) == {n \in replay : n > eventSeq}

ReceiveReplay ==
  LET m == Head(channel)
      current == m.view = view /\ live
  IN
  /\ channel # <<>> /\ m.type \in {"replay", "resync"}
  /\ channel' = Tail(channel)
  /\ \/ /\ ~current
        /\ UNCHANGED <<eventSeq, shown>>
     \/ /\ current /\ m.type = "replay"
        /\ shown' = shown \o InOrder(Fresh(m.replay))
        /\ eventSeq' = Highest(Fresh(m.replay), eventSeq)
     \/ /\ current /\ m.type = "resync"
        /\ shown' = UpTo(m.n)
        /\ eventSeq' = m.last
  /\ UNCHANGED <<wrote, stdout, chunk, hostVars, callVars, view, live, pending>>

-----------------------------------------------------------------------------
Main ==
  \/ \E k \in 1..MaxChunk : Read(k)
  \/ HandleEvent \/ HandleResponse
  \/ \E v \in Views : AskSnapshot(v) \/ TakeSnapshot(v) \/ AnswerStart(v) \/ HandleReplay(v) \/ Resync(v)

Renderer == ReceiveEvent \/ ReceiveSnapshot \/ ReceiveReplay

Paths == IF MayStart THEN {"start", "attach"} ELSE {"attach"}

SRNext ==
  \/ Write
  \/ \E c \in Calls : Answer(c)
  \/ Main
  \/ Renderer \/ Flush
  \/ \E how \in Paths : OpenView(how)

SRSpec == SRInit /\ [][SRNext]_SRvars

\* The worker answers, callbacks run, messages arrive, and the scheduler has
\* a timer beside the frame.  Nothing is assumed of the worker's turn or of
\* the user.
SRFairness ==
  /\ \A c \in Calls : WF_SRvars(Answer(c))
  /\ WF_SRvars(Main) /\ WF_SRvars(Renderer) /\ WF_SRvars(Flush)

SRFairSpec == SRSpec /\ SRFairness

-----------------------------------------------------------------------------
(* Properties                                                              *)

\* Every event up to the number the view has reached is in its transcript
\* or about to be drawn.
Missing == {n \in 1..eventSeq : n \notin ToSet(shown \o pending)}

OpenedBy(how) == \E v \in Views : v = view /\ path[v] = how

\* A live view that agent:attach opened has no gap behind it, whichever of
\* snapshot, replay and live events brought an event.
NothingMissing == live /\ OpenedBy("attach") => Missing = {}

\* Events that begin or end something (message_start, tool ends) enter the
\* transcript once and in the order in which the worker wrote them.
StructuralOnce ==
  \A i, j \in 1..Len(shown) :
    i < j /\ shown[i] \notin Updates /\ shown[j] \notin Updates => shown[i] < shown[j]

\* The transcript has no gap and says nothing twice, however snapshot, replay
\* and live events overlap (applySnapshot, applyReplay and onEvent of App.tsx).
TranscriptIsWhole == NothingMissing /\ StructuralOnce

\* A replay that no live event has overtaken, and every new snapshot sent in
\* its place, closes the gap left while the view was not live, even if the
\* buffer had lost a part of it.
ReplayCloses ==
  [][channel # <<>> /\ Head(channel).type \in {"replay", "resync"} /\ channel' = Tail(channel)
       /\ Head(channel).view = view /\ live
       /\ (eventSeq = afterSeq[view] \/ Head(channel).type = "resync")
     => Missing' = {}]_SRvars

\* What was sent between the snapshot and the view going live is there once
\* the replay has been dealt with.
ReplayDone ==
  /\ live /\ phase[<<view, "replay">>] = "done"
  /\ \A i \in 1..Len(channel) : channel[i].type \in {"event", "snapshot"} \/ channel[i].view # view
AfterReplayNothingMissing == ReplayDone => Missing = {}

\* No event is applied to a transcript that already contains it.
NothingTwice == \A i, j \in 1..Len(shown) : i < j => shown[i] < shown[j]

\* Whatever the worker has written ends up in the view agent:attach opened,
\* or in the one that replaces it.
CatchesUp ==
  \A n \in Events :
    (OpenedBy("attach") /\ wrote >= n) ~> (n \in ToSet(shown) \/ OpenedBy("start"))
=============================================================================
