--------------------------- MODULE AgentHostProofs ---------------------------
(***************************************************************************)
(* Theorems about AgentHost for any number of prompts, workers and stops,  *)
(* and whether or not processes survive their termination.                 *)
(***************************************************************************)
EXTENDS AgentHost, FiniteSetTheorems, TLAPS

\* What the proofs need of TypeOK where lines and prompts play no part.
ControlTypes ==
  /\ process \in [Workers -> {"none", "running", "gone"}]
  /\ child \in 0..MaxWorkers /\ stopping \in 0..MaxWorkers
  /\ starter \in {"no", "stopping", "ready"}

\* A worker runs exactly when it is the child or being terminated.
Tracked ==
  /\ \A w \in Workers : process[w] = "running" <=> w \in {child, stopping}
  /\ child = 0 \/ stopping = 0

\* A start that has its stop behind it finds no worker; a start under way has
\* a worker left to spawn.
StartOrder ==
  /\ starter = "ready" => child = 0 /\ stopping = 0
  /\ starter # "no" => \E w \in Workers : process[w] = "none"

Control == ControlTypes /\ Tracked /\ StartOrder

-----------------------------------------------------------------------------
\* Steps that leave processes, child, stop and start alone.
LEMMA ControlFrame ==
  ASSUME Control, UNCHANGED <<process, child, stopping, starter>>
  PROVE  Control'
BY DEF Control, ControlTypes, Tracked, StartOrder

\* stop and start take the worker out of child only when no stop is under way.
LEMMA ControlStop ==
  ASSUME Control, Stop
  PROVE  Control'
BY BoundsAssumption DEF Control, ControlTypes, Tracked, StartOrder, Stop, StopNow, MainIdle, Workers, workerVars

LEMMA ControlStart ==
  ASSUME Control, Start
  PROVE  Control'
<1>1. CASE SharesStop
  BY <1>1, BoundsAssumption DEF Control, ControlTypes, Tracked, StartOrder, Start, SharesStop, Workers, workerVars
<1>2. CASE ~SharesStop
  BY <1>2, BoundsAssumption DEF Control, ControlTypes, Tracked, StartOrder, Start, SharesStop, StopNow, Workers, workerVars
<1>3. QED
  BY <1>1, <1>2

LEMMA ControlSpawn ==
  ASSUME Control, Spawn
  PROVE  Control'
<1> DEFINE w == CHOOSE w \in Workers : process[w] = "none"
<1>1. w \in Workers /\ process[w] = "none"
  BY DEF Control, StartOrder, Spawn
<1>2. child = 0 /\ stopping = 0 /\ stopping' = 0 /\ starter' = "no"
  BY DEF Control, StartOrder, Spawn
<1>3. CASE process' = [process EXCEPT ![w] = "running"] /\ child' = w
  <2>1. ControlTypes'
    BY <1>1, <1>2, <1>3, BoundsAssumption DEF Control, ControlTypes, Workers
  <2>2. Tracked'
    BY <1>1, <1>2, <1>3, BoundsAssumption DEF Control, ControlTypes, Tracked, Workers
  <2>3. QED
    BY <1>2, <2>1, <2>2 DEF Control, StartOrder
<1>4. CASE UNCHANGED <<process, child>>
  BY <1>2, <1>4 DEF Control, ControlTypes, Tracked, StartOrder
<1>5. QED
  BY <1>3, <1>4 DEF Spawn

\* The end of a worker, by itself or by a stop.
LEMMA ControlEnds ==
  ASSUME Control, StopSucceeds \/ Exit
  PROVE  Control'
<1>1. CASE StopSucceeds
  BY <1>1, BoundsAssumption DEF Control, ControlTypes, Tracked, StartOrder, StopSucceeds, Ends, Workers, hostVars
<1>2. CASE Exit
  BY <1>2, BoundsAssumption DEF Control, ControlTypes, Tracked, StartOrder, Exit, Ends, Workers, stopVars, MainIdle
<1>3. QED
  BY <1>1, <1>2

LEMMA ControlStopFails ==
  ASSUME Control, StopFails
  PROVE  Control'
BY BoundsAssumption DEF Control, ControlTypes, Tracked, StartOrder, StopFails, ChildAfterFailure, Workers,
   workerVars, MainIdle

\* Every step keeps the processes tracked.
LEMMA ControlStep ==
  ASSUME Control, [Next]_vars
  PROVE  Control'
<1> USE DEF workerVars, hostVars, stopVars, callVars
<1>1. CASE \E w \in Workers : TakePrompt(w) \/ TurnStarts(w) \/ TurnEnds(w)
  BY <1>1, ControlFrame DEF TakePrompt, TurnStarts, TurnEnds
<1>2. CASE (\E k \in 1..MaxChunk : Read(k)) \/ HandleLine \/ DropLine
  BY <1>2, ControlFrame DEF Read, HandleLine, DropLine
<1>3. CASE \E p \in Prompts : PromptAnswered(p) \/ PromptFailed(p) \/ WaitGoesOn(p)
  BY <1>3, ControlFrame DEF PromptAnswered, PromptFailed, WaitGoesOn
<1>4. CASE \E p \in Prompts : Send(p) \/ RequestTimeout(p) \/ GraceEnds(p)
  BY <1>4, ControlFrame DEF Send, RequestTimeout, GraceEnds
<1>5. CASE TurnStartTimeout
  BY <1>5, ControlFrame DEF TurnStartTimeout
<1>6. CASE UNCHANGED vars
  BY <1>6, ControlFrame DEF vars
<1>7. QED
  BY <1>1, <1>2, <1>3, <1>4, <1>5, <1>6, ControlStop, ControlStart, ControlSpawn, ControlEnds, ControlStopFails
  DEF Next, Continuations

LEMMA ControlInit == Init => Control
BY BoundsAssumption DEF Init, Control, ControlTypes, Tracked, StartOrder, Workers

LEMMA ControlAlways == Spec => []Control
<1>1. Control /\ [Next]_vars => Control'
  BY ControlStep
<1>2. QED
  BY <1>1, ControlInit, PTL DEF Spec

-----------------------------------------------------------------------------
(* Types.                                                                  *)

\* Being released, by whichever event, leads to a place of a caller.
LEMMA ReleasedPlaces ==
  ASSUME NEW at \in Places
  PROVE  /\ AfterStart(at) \in Places /\ AfterSettled(at) \in Places
         /\ Released(at) \in Places /\ AfterExit(at) \in Places
BY DEF AfterStart, AfterSettled, Released, AfterExit, Places, Waiting, Resolved

LEMMA BeginWaitPlace == BeginWait \in Places
BY DEF BeginWait, Places, Waiting, Resolved

LEMMA NothingThere == <<>> \in Seq(Prompts) /\ <<>> \in Seq(Lines)
OBVIOUS

LEMMA EndsTypes ==
  ASSUME WorkerTypes, NEW w, Ends(w)
  PROVE  WorkerTypes'
BY NothingThere DEF Ends, WorkerTypes

\* The flags of a turn to come, however they are taken back or set.
LEMMA FlagsCleared ==
  ASSUME ClearTurnStart, turnActive' \in BOOLEAN
  PROVE  FlagTypes'
BY Zenon DEF ClearTurnStart, FlagTypes

LEMMA FlagsKept ==
  ASSUME FlagTypes, turnActive' \in BOOLEAN, UNCHANGED <<awaitingTurnStart, turnStartTimer>>
  PROVE  FlagTypes'
BY DEF FlagTypes

\* A line is written by a worker and read, one by one, by the host.
LEMMA WorkerSteps ==
  ASSUME TypeOK, NEW w \in Workers, TakePrompt(w) \/ TurnStarts(w) \/ TurnEnds(w)
  PROVE  TypeOK'
<1> USE DEF TypeOK
<1>1. UNCHANGED <<child, chunk, turnActive, awaitingTurnStart, turnStartTimer>>
  BY DEF TakePrompt, TurnStarts, TurnEnds, hostVars
<1>2. StopTypes' /\ CallTypes'
  BY DEF TakePrompt, TurnStarts, TurnEnds, stopVars, callVars, StopTypes, CallTypes
<1>3. PICK line \in Lines : Say(w, line)
  <2>1. CASE TakePrompt(w)
    <3>1. Head(inbox[w]) \in Prompts
      BY <2>1 DEF TakePrompt, WorkerTypes
    <3>2. QED
      BY <2>1, <3>1 DEF TakePrompt, Lines
  <2>2. CASE TurnStarts(w) \/ TurnEnds(w)
    BY <2>2 DEF TurnStarts, TurnEnds, Lines
  <2>3. QED
    BY <2>1, <2>2
<1>4. out[w] \in Seq(Lines) /\ Len(Append(out[w], line)) = Len(out[w]) + 1
  BY DEF WorkerTypes
<1>5. out' \in [Workers -> Seq(Lines)]
  BY <1>3, <1>4 DEF Say, WorkerTypes
<1>6. HandTypes' /\ FlagTypes'
  <2>1. ASSUME chunk > 0 PROVE Len(out[child]) <= Len(out'[child])
    <3>1. child \in Workers
      BY <2>1 DEF HandTypes, FlagTypes, Workers
    <3>2. CASE child = w
      BY <1>3, <1>4, <3>1, <3>2 DEF Say, WorkerTypes
    <3>3. CASE child # w
      BY <1>3, <3>1, <3>3 DEF Say, WorkerTypes
    <3>4. out[child] \in Seq(Lines)
      BY <3>1 DEF WorkerTypes
    <3>5. QED
      BY <3>2, <3>3, <3>4
  <2>2. chunk > 0 => Len(out[child]) \in Nat /\ Len(out'[child]) \in Nat
    BY <1>5 DEF HandTypes, FlagTypes, WorkerTypes, Workers
  <2>3. QED
    BY <1>1, <2>1, <2>2 DEF HandTypes, FlagTypes
<1>7. process' = process /\ inbox' \in [Workers -> Seq(Prompts)]
  <2>1. CASE TakePrompt(w)
    <3>1. Tail(inbox[w]) \in Seq(Prompts)
      BY <2>1 DEF TakePrompt, WorkerTypes
    <3>2. QED
      BY <2>1, <3>1 DEF TakePrompt, WorkerTypes
  <2>2. CASE TurnStarts(w) \/ TurnEnds(w)
    BY <2>2 DEF TurnStarts, TurnEnds, WorkerTypes
  <2>3. QED
    BY <2>1, <2>2
<1>8. turn' \in [Workers -> {"idle", "accepted", "turn"}] /\ answering' \in [Workers -> SUBSET Prompts]
  <2>1. CASE TakePrompt(w)
    <3>1. Head(inbox[w]) \in Prompts
      BY <2>1 DEF TakePrompt, WorkerTypes
    <3>2. CASE UNCHANGED <<answering, turn>>
      BY <3>2 DEF WorkerTypes
    <3>3. CASE /\ answering' = [answering EXCEPT ![w] = @ \cup {Head(inbox[w])}]
               /\ turn' = [turn EXCEPT ![w] = IF @ = "idle" THEN "accepted" ELSE @]
      BY <3>1, <3>3 DEF WorkerTypes
    <3>4. QED
      BY <2>1, <3>2, <3>3 DEF TakePrompt
  <2>2. CASE TurnStarts(w) \/ TurnEnds(w)
    BY <2>2 DEF TurnStarts, TurnEnds, WorkerTypes
  <2>3. QED
    BY <2>1, <2>2
<1>9. QED
  BY <1>2, <1>5, <1>6, <1>7, <1>8 DEF WorkerTypes

LEMMA ReadSteps ==
  ASSUME TypeOK, (\E k \in 1..MaxChunk : Read(k)) \/ HandleLine \/ DropLine
  PROVE  TypeOK'
<1> USE DEF TypeOK
<1>1. CASE \E k \in 1..MaxChunk : Read(k)
  <2>1. PICK k \in 1..MaxChunk : Read(k)
    BY <1>1
  <2>2. child \in Workers /\ Len(out[child]) \in Nat
    BY <2>1 DEF Read, HandTypes, FlagTypes, WorkerTypes, Workers
  <2>3. QED
    BY <2>1, <2>2 DEF Read, workerVars, stopVars, callVars, WorkerTypes, HandTypes, FlagTypes, StopTypes, CallTypes
<1>2. CASE HandleLine
  <2> DEFINE line == Head(out[child])
  <2>1. child \in Workers /\ out[child] \in Seq(Lines) /\ out[child] # <<>>
    BY <1>2 DEF HandleLine, HandTypes, FlagTypes, WorkerTypes, Workers
  <2>2. line \in Lines /\ Tail(out[child]) \in Seq(Lines) /\ Len(Tail(out[child])) = Len(out[child]) - 1
    BY <2>1
  <2>3. WorkerTypes'
    BY <1>2, <2>1, <2>2 DEF HandleLine, WorkerTypes
  <2>4. /\ child' = child /\ chunk' \in Nat
        /\ chunk' > 0 => chunk' <= Len(out'[child])
    BY <1>2, <2>1, <2>2 DEF HandleLine, HandTypes, FlagTypes, WorkerTypes
  <2>5. pc' \in [Prompts -> Places]
    <3>1. CASE line.type \in {"accepted", "refused"}
      BY <1>2, <3>1 DEF HandleLine, CallTypes, Places, Resolved
    <3>2. CASE line.type \notin {"accepted", "refused"}
      BY <1>2, <3>2, ReleasedPlaces DEF HandleLine, CallTypes
    <3>3. QED
      BY <3>1, <3>2
  <2>6. FlagTypes'
    <3>1. CASE UNCHANGED <<turnActive, awaitingTurnStart, turnStartTimer>>
      BY <3>1, FlagsKept DEF FlagTypes
    <3>2. CASE ClearTurnStart /\ (turnActive' = TRUE \/ turnActive' = FALSE)
      BY <3>2, FlagsCleared
    <3>3. QED
      BY <1>2, <3>1, <3>2 DEF HandleLine
  <2>7. HandTypes'
    BY <2>1, <2>4 DEF HandTypes, Workers
  <2>8. StopTypes' /\ CallTypes'
    BY <1>2, <2>5 DEF HandleLine, StopTypes, CallTypes, stopVars
  <2>9. QED
    BY <2>3, <2>6, <2>7, <2>8
<1>3. CASE DropLine
  <2>1. stopping \in Workers /\ Tail(out[stopping]) \in Seq(Lines)
    BY <1>3 DEF DropLine, StopTypes, WorkerTypes, Workers
  <2>2. WorkerTypes'
    BY <1>3, <2>1 DEF DropLine, WorkerTypes
  <2>3. QED
    BY <1>3, <2>2 DEF DropLine, MainIdle, hostVars, stopVars, callVars, HandTypes, FlagTypes, StopTypes, CallTypes
<1>4. QED
  BY <1>1, <1>2, <1>3

LEMMA CallSteps ==
  ASSUME TypeOK, NEW p \in Prompts,
         \/ Send(p) \/ RequestTimeout(p) \/ GraceEnds(p)
         \/ PromptAnswered(p) \/ PromptFailed(p) \/ WaitGoesOn(p)
  PROVE  TypeOK'
<1> USE DEF TypeOK, workerVars, hostVars, stopVars, callVars
<1>1. CASE Send(p)
  <2>1. Append(inbox[child], p) \in Seq(Prompts) \/ child = 0
    BY DEF WorkerTypes, HandTypes, FlagTypes, Workers
  <2>2. WorkerTypes'
    BY <1>1, <2>1 DEF Send, WorkerTypes
  <2>3. HandTypes' /\ StopTypes'
    BY <1>1 DEF Send, MainIdle, HandTypes, StopTypes
  <2>4. FlagTypes'
    <3>1. CASE UNCHANGED <<awaitingTurnStart, turnStartTimer>>
      BY <1>1, <3>1, FlagsKept DEF Send, FlagTypes
    <3>2. CASE awaitingTurnStart' = TRUE /\ turnStartTimer' = FALSE
      <4>1. turnActive' \in BOOLEAN
        BY <1>1 DEF Send, FlagTypes
      <4>2. QED
        BY <3>2, <4>1, Zenon DEF FlagTypes
    <3>3. QED
      BY <1>1, <3>1, <3>2 DEF Send
  <2>5. CallTypes'
    <3>1. pc' \in [Prompts -> Places] /\ worker' \in [Prompts -> 0..MaxWorkers]
      BY <1>1 DEF Send, HandTypes, CallTypes, Places
    <3>2. startsTurn' \in [Prompts -> BOOLEAN]
      BY <1>1 DEF Send, FlagTypes, CallTypes
    <3>3. QED
      BY <3>1, <3>2 DEF CallTypes
  <2>6. QED
    BY <2>2, <2>3, <2>4, <2>5
<1>2. CASE RequestTimeout(p) \/ GraceEnds(p)
  <2>1. pc' \in [Prompts -> Places] /\ UNCHANGED <<workerVars, hostVars, stopVars, worker, startsTurn>>
    BY <1>2 DEF RequestTimeout, GraceEnds, CallTypes, Places, Resolved
  <2>2. QED
    BY <2>1 DEF WorkerTypes, HandTypes, FlagTypes, StopTypes, CallTypes
<1>3. CASE PromptAnswered(p)
  <2>1. pc' \in [Prompts -> Places]
    BY <1>3, BeginWaitPlace DEF PromptAnswered, CallTypes, Places
  <2>2. QED
    BY <1>3, <2>1 DEF PromptAnswered, TimerAfter, WorkerTypes, HandTypes, FlagTypes, StopTypes, CallTypes
<1>4. CASE PromptFailed(p)
  <2>1. pc' \in [Prompts -> Places]
    BY <1>4 DEF PromptFailed, CallTypes, Places
  <2>2. FlagTypes'
    BY <1>4, FlagsKept, FlagsCleared DEF PromptFailed, FlagTypes
  <2>3. QED
    BY <1>4, <2>1, <2>2 DEF PromptFailed, WorkerTypes, HandTypes, StopTypes, CallTypes
<1>5. CASE WaitGoesOn(p)
  <2>1. pc' \in [Prompts -> Places]
    BY <1>5, BeginWaitPlace DEF WaitGoesOn, CallTypes, Places, Waiting
  <2>2. QED
    BY <1>5, <2>1 DEF WaitGoesOn, WorkerTypes, HandTypes, FlagTypes, StopTypes, CallTypes
<1>6. QED
  BY <1>1, <1>2, <1>3, <1>4, <1>5

LEMMA StopSteps ==
  ASSUME TypeOK, Control, Stop \/ Start \/ StopSucceeds \/ StopFails
  PROVE  TypeOK'
<1> USE BoundsAssumption DEF TypeOK, workerVars, hostVars, stopVars, callVars
<1>1. ASSUME StopNow PROVE pc' \in [Prompts -> Places]
  BY <1>1, ReleasedPlaces DEF StopNow, CallTypes
<1>f. ASSUME StopNow PROVE FlagTypes'
  BY <1>f, FlagsCleared DEF StopNow
<1>w. ASSUME StopNow PROVE wasActive' \in BOOLEAN
  BY <1>w DEF StopNow, FlagTypes
<1>2. CASE Stop
  <2>a. stopping' \in 0..MaxWorkers /\ stops' \in 0..MaxStops
    BY <1>2 DEF Stop, StopNow, HandTypes, StopTypes
  <2>b. UNCHANGED <<starter, stopFailed>> /\ starter \in {"no", "ready"}
    BY <1>2 DEF Stop, StopTypes
  <2>1. StopTypes'
    BY <1>2, <1>w, <2>a, <2>b DEF Stop, StopTypes
  <2>2. HandTypes' /\ WorkerTypes'
    BY <1>2 DEF Stop, StopNow, MainIdle, HandTypes, WorkerTypes
  <2>3. CallTypes'
    BY <1>1, <1>2 DEF Stop, CallTypes
  <2>4. QED
    BY <1>2, <1>f, <2>1, <2>2, <2>3 DEF Stop
<1>3. CASE Start
  <2>1. CASE SharesStop
    BY <1>3, <2>1 DEF Start, SharesStop, MainIdle, WorkerTypes, HandTypes, FlagTypes, StopTypes, CallTypes
  <2>2. CASE ~SharesStop
    <3>1. StopTypes'
      BY <1>3, <2>2, <1>w DEF Start, StopNow, HandTypes, StopTypes
    <3>2. HandTypes' /\ WorkerTypes'
      BY <1>3, <2>2 DEF Start, StopNow, MainIdle, HandTypes, WorkerTypes
    <3>3. CallTypes'
      BY <1>1, <1>3, <2>2 DEF Start, CallTypes
    <3>4. QED
      BY <1>3, <1>f, <2>2, <3>1, <3>2, <3>3 DEF Start
  <2>3. QED
    BY <2>1, <2>2
<1>4. CASE StopSucceeds
  <2>1. WorkerTypes'
    BY <1>4, EndsTypes DEF StopSucceeds
  <2>2. QED
    BY <1>4, <2>1 DEF StopSucceeds, MainIdle, HandTypes, FlagTypes, StopTypes, CallTypes
<1>5. CASE StopFails
  BY <1>5 DEF StopFails, ChildAfterFailure, MainIdle, WorkerTypes, HandTypes, FlagTypes, StopTypes, CallTypes
<1>6. QED
  BY <1>2, <1>3, <1>4, <1>5

LEMMA WorkerEdgeSteps ==
  ASSUME TypeOK, Control, Spawn \/ Exit \/ TurnStartTimeout
  PROVE  TypeOK'
<1> USE BoundsAssumption DEF TypeOK, workerVars, hostVars, stopVars, callVars
<1>1. CASE Spawn
  <2>1. ControlTypes'
    BY <1>1, ControlSpawn DEF Control
  <2>2. QED
    BY <1>1, <2>1 DEF Spawn, ControlTypes, WorkerTypes, HandTypes, FlagTypes, StopTypes, CallTypes
<1>2. CASE Exit
  <2>1. WorkerTypes'
    BY <1>2, EndsTypes DEF Exit
  <2>2. pc' \in [Prompts -> Places]
    BY <1>2, ReleasedPlaces DEF Exit, CallTypes
  <2>3. FlagTypes'
    BY <1>2, FlagsKept DEF Exit
  <2>4. QED
    BY <1>2, <2>1, <2>2, <2>3 DEF Exit, MainIdle, HandTypes, StopTypes, CallTypes
<1>3. CASE TurnStartTimeout
  BY <1>3 DEF TurnStartTimeout, ClearTurnStart, WorkerTypes, HandTypes, FlagTypes, StopTypes, CallTypes
<1>4. QED
  BY <1>1, <1>2, <1>3

\* Every variable keeps its type: no line is handled that was not read from
\* the child there is, and the timer runs only while a turn is awaited.
THEOREM TypeCorrect == Spec => []TypeOK
<1>1. Init => TypeOK
  <2> SUFFICES ASSUME Init PROVE TypeOK
    OBVIOUS
  <2>1. WorkerTypes
    BY NothingThere DEF Init, WorkerTypes
  <2>2. HandTypes /\ CallTypes
    BY BoundsAssumption DEF Init, HandTypes, CallTypes, Places
  <2>3. FlagTypes
    BY Zenon DEF Init, FlagTypes
  <2>4. StopTypes
    <3>1. stopping \in 0..MaxWorkers /\ stops \in 0..MaxStops /\ starter = "no"
      BY BoundsAssumption DEF Init
    <3>2. wasActive \in BOOLEAN /\ stopFailed \in BOOLEAN
      BY Zenon DEF Init
    <3>3. QED
      BY <3>1, <3>2 DEF StopTypes
  <2>5. QED
    BY <2>1, <2>2, <2>3, <2>4 DEF TypeOK
<1>2. ASSUME TypeOK, Control, [Next]_vars PROVE TypeOK'
  <2>1. CASE UNCHANGED vars
    BY <1>2, <2>1 DEF vars, workerVars, hostVars, stopVars, callVars, TypeOK, WorkerTypes, HandTypes, FlagTypes, StopTypes, CallTypes
  <2>2. CASE Next
    BY <1>2, <2>2, WorkerSteps, ReadSteps, CallSteps, StopSteps, WorkerEdgeSteps DEF Next, Continuations
  <2>3. QED
    BY <1>2, <2>1, <2>2
<1>3. QED
  BY <1>1, <1>2, ControlAlways, PTL DEF Spec

-----------------------------------------------------------------------------
\* Whatever starts, stops, failed stops and exits do, no worker that runs is
\* forgotten: it is the child or a stop is at work on it.
THEOREM WorkersAreTracked == Spec => []NoLostWorker
<1>1. Control => NoLostWorker
  BY DEF Control, Tracked, NoLostWorker
<1>2. QED
  BY <1>1, ControlAlways, PTL

\* A host has at most one worker at any time, so no two processes write the
\* same session file.
THEOREM OneWorkerAtATime == Spec => []OneWorker
<1>1. ASSUME Control PROVE OneWorker
  <2> DEFINE R == {w \in Workers : process[w] = "running"}
             x == IF child # 0 THEN child ELSE stopping
  <2>1. R \subseteq {x}
    BY <1>1, BoundsAssumption DEF Control, Tracked, ControlTypes, Workers
  <2>2. IsFiniteSet({x}) /\ Cardinality({x}) = 1
    BY FS_Singleton
  <2>3. IsFiniteSet(R) /\ Cardinality(R) <= Cardinality({x})
    BY <2>1, <2>2, FS_Subset
  <2>4. QED
    BY <2>2, <2>3 DEF OneWorker
<1>2. QED
  BY <1>1, ControlAlways, PTL

\* Start, stopNow and handleExit together: there is at most one worker, and it
\* is never out of the host's reach.
THEOREM WorkerIsInHand == Spec => []WorkerInHand
<1>1. WorkerInHand <=> OneWorker /\ NoLostWorker
  BY DEF WorkerInHand
<1>2. QED
  BY <1>1, WorkersAreTracked, OneWorkerAtATime, PTL

-----------------------------------------------------------------------------
(* waitForIdle.                                                            *)

\* The worker's answer to a prompt.
Response(line, p) == line.type \in {"accepted", "refused"} /\ line.prompt = p

\* Where a caller is until the answer to its prompt is read, or after it gave up.
Unanswered == {"asking", "failed", "rejected"}

\* Nothing is in a worker that does not run.
NothingInOthers ==
  \A w \in Workers : process[w] # "running" =>
    inbox[w] = <<>> /\ out[w] = <<>> /\ turn[w] = "idle" /\ answering[w] = {}

\* A prompt is with its worker at most once, or its answer is; then the answer
\* has not been read.
AtMostOnce(w, p) ==
  /\ \A i \in 1..Len(inbox[w]) : inbox[w][i] = p =>
       /\ worker[p] = w /\ pc[p] \in Unanswered
       /\ \A j \in 1..Len(inbox[w]) : inbox[w][j] = p => j = i
       /\ \A j \in 1..Len(out[w]) : ~Response(out[w][j], p)
  /\ \A i \in 1..Len(out[w]) : Response(out[w][i], p) =>
       /\ worker[p] = w /\ pc[p] \in Unanswered
       /\ \A j \in 1..Len(out[w]) : Response(out[w][j], p) => j = i

PromptsOnce == \A w \in Workers, p \in Prompts : AtMostOnce(w, p)

\* In these lines the end of a turn comes before the answer that accepts p.
AcceptedLater(lines, p) ==
  \A i \in 1..Len(lines) : lines[i].type = "agent_settled" =>
    \E j \in (i + 1)..Len(lines) : lines[j].type = "accepted" /\ lines[j].prompt = p

\* The turn of an accepted prompt has not ended, and an end told before it was
\* accepted is the end of an earlier turn.
TurnsAnswer ==
  \A w \in Workers : \A p \in answering[w] : turn[w] # "idle" /\ AcceptedLater(out[w], p)

\* These lines, and what the host believes, tell of a turn.
Told(lines, active) ==
  \/ /\ active
     /\ \A i \in 1..Len(lines) : lines[i].type # "agent_settled"
  \/ \E i \in 1..Len(lines) :
       /\ lines[i].type = "agent_start"
       /\ \A j \in (i + 1)..Len(lines) : lines[j].type # "agent_settled"

\* What the host believes after it has read a line.
Believed(line, active) ==
  CASE line.type = "agent_start"   -> TRUE
    [] line.type = "agent_settled" -> FALSE
    [] OTHER                       -> active

\* A turn that goes on was told or is about to be.
TurnIsTold == ~stopFailed /\ child # 0 /\ turn[child] = "turn" => Told(out[child], turnActive)

\* A caller waits for what is to come from the worker it asked.
Follows(p) ==
  /\ worker[p] # 0 => process[worker[p]] # "none"
  /\ pc[p] \notin {"unsent", "rejected"} => worker[p] # 0
  /\ pc[p] = "quiet" => chunk = 0
  /\ ~stopFailed /\ child = worker[p] =>
       /\ pc[p] \in {"grace", "quiet"} => ~turnActive
       /\ pc[p] = "quiet" => p \notin answering[child]
       /\ pc[p] \in {"started", "settleAgain", "settledAgain"} /\ p \in answering[child] => turnActive

CallersFollow == \A p \in Prompts : Follows(p)

\* How far the host's view of turns and the callers' places can lag behind the
\* worker.
Lagging == NothingInOthers /\ PromptsOnce /\ TurnsAnswer /\ TurnIsTold /\ CallersFollow

-----------------------------------------------------------------------------
\* A sequence less its head, and with one element more.
LEMMA TailOf ==
  ASSUME NEW S, NEW s \in Seq(S), s # <<>>
  PROVE  /\ Len(s) \in Nat /\ Len(s) >= 1 /\ Len(Tail(s)) = Len(s) - 1
         /\ Head(s) = s[1] /\ s[1] \in S
         /\ \A i \in 1..(Len(s) - 1) : Tail(s)[i] = s[i + 1]
OBVIOUS

LEMMA AppendOf ==
  ASSUME NEW S, NEW s \in Seq(S), NEW e \in S
  PROVE  /\ Len(s) \in Nat /\ Len(Append(s, e)) = Len(s) + 1
         /\ Append(s, e)[Len(s) + 1] = e
         /\ \A i \in 1..Len(s) : Append(s, e)[i] = s[i]
OBVIOUS

\* Lines are told apart by their types.
LEMMA LineTypes ==
  ASSUME NEW line \in Lines
  PROVE  /\ line.type \in {"accepted", "refused", "agent_start", "agent_settled"}
         /\ line.type \in {"accepted", "refused"} => line.prompt \in Prompts
BY DEF Lines

\* The worker that runs is the one whose output is read and whose input is written.
LEMMA ChildRuns ==
  ASSUME TypeOK, Control
  PROVE  /\ child # 0 => child \in Workers /\ process[child] = "running"
         /\ stopping # 0 => stopping \in Workers /\ process[stopping] = "running"
BY DEF Control, ControlTypes, Tracked, Workers

-----------------------------------------------------------------------------
\* Nothing gets into a worker that does not run.
LEMMA NothingSteps ==
  ASSUME TypeOK, Control, NothingInOthers, [Next]_vars
  PROVE  NothingInOthers'
<1> USE DEF NothingInOthers
<1>1. CASE UNCHANGED workerVars
  BY <1>1 DEF workerVars
<1>2. ASSUME NEW w \in Workers, TakePrompt(w) \/ TurnStarts(w) \/ TurnEnds(w)
      PROVE  NothingInOthers'
  <2>1. process' = process /\ process[w] = "running"
    BY <1>2 DEF TakePrompt, TurnStarts, TurnEnds
  <2>2. \A v \in Workers \ {w} : /\ inbox'[v] = inbox[v] /\ out'[v] = out[v]
                                 /\ turn'[v] = turn[v] /\ answering'[v] = answering[v]
    BY <1>2 DEF TakePrompt, TurnStarts, TurnEnds, Say, TypeOK, WorkerTypes
  <2>3. QED
    BY <2>1, <2>2
<1>3. CASE HandleLine \/ DropLine
  <2>1. PICK w \in Workers : process[w] = "running" /\ out' = [out EXCEPT ![w] = Tail(@)]
    BY <1>3, ChildRuns DEF HandleLine, DropLine, TypeOK, HandTypes
  <2>2. UNCHANGED <<process, inbox, turn, answering>>
    BY <1>3 DEF HandleLine, DropLine
  <2>3. QED
    BY <2>1, <2>2 DEF TypeOK, WorkerTypes
<1>4. ASSUME NEW p \in Prompts, Send(p) PROVE NothingInOthers'
  <2>1. UNCHANGED <<process, out, turn, answering>>
    BY <1>4 DEF Send
  <2>2. inbox' = inbox \/ (child # 0 /\ inbox' = [inbox EXCEPT ![child] = Append(@, p)])
    BY <1>4 DEF Send
  <2>3. QED
    BY <2>1, <2>2, ChildRuns DEF TypeOK, WorkerTypes
<1>5. CASE Spawn
  BY <1>5 DEF Spawn, TypeOK, WorkerTypes
<1>6. ASSUME NEW w, Ends(w) PROVE NothingInOthers'
  BY <1>6 DEF Ends, TypeOK, WorkerTypes
<1>7. CASE Start \/ Stop \/ StopFails \/ TurnStartTimeout \/ \E k \in 1..MaxChunk : Read(k)
  BY <1>1, <1>7, Zenon DEF Start, Stop, StopFails, TurnStartTimeout, Read
<1>8. CASE \E p \in Prompts : \/ RequestTimeout(p) \/ GraceEnds(p)
                              \/ PromptAnswered(p) \/ PromptFailed(p) \/ WaitGoesOn(p)
  BY <1>1, <1>8, Zenon DEF RequestTimeout, GraceEnds, PromptAnswered, PromptFailed, WaitGoesOn
<1>9. CASE StopSucceeds \/ Exit
  BY <1>6, <1>9 DEF StopSucceeds, Exit
<1>10. CASE UNCHANGED vars
  BY <1>1, <1>10, Zenon DEF vars
<1>11. QED
  BY <1>2, <1>3, <1>4, <1>5, <1>7, <1>8, <1>9, <1>10 DEF Next, Continuations

-----------------------------------------------------------------------------
\* A caller that gave up, or whose answer is not read, stays so when another
\* event releases it.
LEMMA UnansweredStay ==
  ASSUME NEW at \in Unanswered
  PROVE  /\ AfterStart(at) \in Unanswered /\ AfterSettled(at) \in Unanswered
         /\ Released(at) \in Unanswered /\ AfterExit(at) \in Unanswered
BY DEF AfterStart, AfterSettled, Released, AfterExit, Unanswered

\* Steps that move no prompt and no line.
LEMMA OnceFrame ==
  ASSUME PromptsOnce, UNCHANGED <<inbox, out, worker>>,
         \A p \in Prompts : pc[p] \in Unanswered => pc'[p] \in Unanswered
  PROVE  PromptsOnce'
<1> SUFFICES ASSUME NEW w \in Workers, NEW p \in Prompts PROVE AtMostOnce(w, p)'
  BY DEF PromptsOnce
<1>1. AtMostOnce(w, p)
  BY DEF PromptsOnce
<1>2. QED
  BY <1>1 DEF AtMostOnce

\* The worker takes a prompt out of its input and writes its answer.
LEMMA OnceTake ==
  ASSUME TypeOK, PromptsOnce, NEW w \in Workers, TakePrompt(w)
  PROVE  PromptsOnce'
<1> DEFINE q == Head(inbox[w])
<1>1. /\ inbox[w] \in Seq(Prompts) /\ inbox[w] # <<>> /\ out[w] \in Seq(Lines) /\ q \in Prompts
  BY DEF TakePrompt, TypeOK, WorkerTypes
<1>2. PICK line \in Lines : Say(w, line) /\ Response(line, q)
  BY <1>1 DEF TakePrompt, Response, Lines
<1>3. /\ inbox'[w] = Tail(inbox[w]) /\ out'[w] = Append(out[w], line)
      /\ \A v \in Workers \ {w} : inbox'[v] = inbox[v] /\ out'[v] = out[v]
  BY <1>2 DEF TakePrompt, Say, TypeOK, WorkerTypes
<1>4. UNCHANGED <<worker, pc>>
  BY DEF TakePrompt, callVars
<1>5. /\ Len(inbox[w]) \in Nat /\ Len(inbox[w]) >= 1 /\ Len(inbox'[w]) = Len(inbox[w]) - 1
      /\ q = inbox[w][1]
      /\ \A i \in 1..(Len(inbox[w]) - 1) : inbox'[w][i] = inbox[w][i + 1]
  BY <1>1, <1>3, TailOf
<1>6. /\ Len(out[w]) \in Nat /\ Len(out'[w]) = Len(out[w]) + 1
      /\ out'[w][Len(out[w]) + 1] = line
      /\ \A i \in 1..Len(out[w]) : out'[w][i] = out[w][i]
  BY <1>1, <1>3, AppendOf
<1>7. \A p \in Prompts : Response(line, p) => p = q
  BY <1>2 DEF Response
<1> SUFFICES ASSUME NEW v \in Workers, NEW p \in Prompts PROVE AtMostOnce(v, p)'
  BY DEF PromptsOnce
<1>8. AtMostOnce(v, p)
  BY DEF PromptsOnce
<1>9. CASE v # w
  BY <1>3, <1>4, <1>8, <1>9 DEF AtMostOnce
<1>10. CASE v = w /\ p = q
  <2>1. /\ worker[p] = w /\ pc[p] \in Unanswered
        /\ \A j \in 1..Len(inbox[w]) : inbox[w][j] = p => j = 1
        /\ \A j \in 1..Len(out[w]) : ~Response(out[w][j], p)
    BY <1>5, <1>8, <1>10 DEF AtMostOnce
  <2>2. \A i \in 1..Len(inbox'[w]) : inbox'[w][i] # p
    BY <1>5, <2>1
  <2>3. \A i \in 1..Len(out'[w]) : Response(out'[w][i], p) => i = Len(out[w]) + 1
    BY <1>6, <2>1
  <2>4. QED
    BY <1>4, <1>10, <2>1, <2>2, <2>3 DEF AtMostOnce
<1>11. CASE v = w /\ p # q
  <2>1. \A i \in 1..Len(out'[w]) : Response(out'[w][i], p) => i \in 1..Len(out[w]) /\ Response(out[w][i], p)
    BY <1>6, <1>7, <1>11
  <2>2. \A i \in 1..Len(inbox'[w]) : inbox'[w][i] = inbox[w][i + 1] /\ i + 1 \in 1..Len(inbox[w])
    BY <1>5
  <2>3. /\ \A i \in 1..Len(inbox[w]) : inbox[w][i] = p =>
             /\ worker[p] = w /\ pc[p] \in Unanswered
             /\ \A j \in 1..Len(inbox[w]) : inbox[w][j] = p => j = i
             /\ \A j \in 1..Len(out[w]) : ~Response(out[w][j], p)
        /\ \A i \in 1..Len(out[w]) : Response(out[w][i], p) =>
             /\ worker[p] = w /\ pc[p] \in Unanswered
             /\ \A j \in 1..Len(out[w]) : Response(out[w][j], p) => j = i
    BY <1>8, <1>11 DEF AtMostOnce
  <2>4. ASSUME NEW i \in 1..Len(inbox'[w]), inbox'[w][i] = p
        PROVE  /\ worker[p] = w /\ pc[p] \in Unanswered
               /\ \A j \in 1..Len(inbox'[w]) : inbox'[w][j] = p => j = i
               /\ \A j \in 1..Len(out'[w]) : ~Response(out'[w][j], p)
    <3>1. inbox[w][i + 1] = p /\ i + 1 \in 1..Len(inbox[w])
      BY <2>2, <2>4
    <3>2. \A j \in 1..Len(inbox'[w]) : inbox'[w][j] = p => j + 1 = i + 1
      BY <2>2, <2>3, <3>1
    <3>3. \A j \in 1..Len(inbox'[w]) : inbox'[w][j] = p => j = i
      BY <1>5, <3>2
    <3>4. worker[p] = w /\ pc[p] \in Unanswered /\ \A j \in 1..Len(out[w]) : ~Response(out[w][j], p)
      BY <2>3, <3>1
    <3>5. QED
      BY <2>1, <3>3, <3>4
  <2>5. QED
    BY <1>4, <1>11, <2>1, <2>3, <2>4 DEF AtMostOnce
<1>12. QED
  BY <1>9, <1>10, <1>11

\* The worker writes a line that answers nothing.
LEMMA OnceTurn ==
  ASSUME TypeOK, PromptsOnce, NEW w \in Workers, TurnStarts(w) \/ TurnEnds(w)
  PROVE  PromptsOnce'
<1>1. out[w] \in Seq(Lines)
  BY DEF TypeOK, WorkerTypes
<1>2. PICK line \in Lines : Say(w, line) /\ line.type \notin {"accepted", "refused"}
  BY DEF TurnStarts, TurnEnds, Lines
<1>3. out'[w] = Append(out[w], line) /\ \A v \in Workers \ {w} : out'[v] = out[v]
  BY <1>2 DEF Say, TypeOK, WorkerTypes
<1>4. UNCHANGED <<inbox, worker, pc>>
  BY DEF TurnStarts, TurnEnds, callVars
<1>5. /\ Len(out[w]) \in Nat /\ Len(out'[w]) = Len(out[w]) + 1
      /\ out'[w][Len(out[w]) + 1] = line
      /\ \A i \in 1..Len(out[w]) : out'[w][i] = out[w][i]
  BY <1>1, <1>2, <1>3, AppendOf
<1> SUFFICES ASSUME NEW v \in Workers, NEW p \in Prompts PROVE AtMostOnce(v, p)'
  BY DEF PromptsOnce
<1>6. AtMostOnce(v, p)
  BY DEF PromptsOnce
<1>7. CASE v # w
  BY <1>3, <1>4, <1>6, <1>7 DEF AtMostOnce
<1>8. CASE v = w
  <2>1. \A i \in 1..Len(out'[w]) : Response(out'[w][i], p) => i \in 1..Len(out[w]) /\ Response(out[w][i], p)
    BY <1>2, <1>5 DEF Response
  <2>2. QED
    BY <1>4, <1>6, <1>8, <2>1 DEF AtMostOnce
<1>9. QED
  BY <1>7, <1>8

\* A line is read or dropped; when it is an answer, the caller may have it now.
LEMMA OnceRead ==
  ASSUME TypeOK, PromptsOnce, NEW w \in Workers, out[w] # <<>>,
         out' = [out EXCEPT ![w] = Tail(@)], UNCHANGED <<inbox, worker>>,
         \A p \in Prompts : pc[p] \in Unanswered /\ ~Response(Head(out[w]), p) => pc'[p] \in Unanswered
  PROVE  PromptsOnce'
<1>1. out[w] \in Seq(Lines)
  BY DEF TypeOK, WorkerTypes
<1>2. out'[w] = Tail(out[w]) /\ \A v \in Workers \ {w} : out'[v] = out[v]
  BY DEF TypeOK, WorkerTypes
<1>t. /\ Len(out[w]) \in Nat /\ Len(out[w]) >= 1 /\ Len(Tail(out[w])) = Len(out[w]) - 1
      /\ Head(out[w]) = out[w][1]
      /\ \A i \in 1..(Len(out[w]) - 1) : Tail(out[w])[i] = out[w][i + 1]
  <2>1. out[w] \in Seq(Lines) /\ out[w] # <<>>
    BY <1>1
  <2>2. QED
    BY ONLY <2>1, TailOf
<1>3. /\ Len(out[w]) \in Nat /\ Len(out[w]) >= 1 /\ Len(out'[w]) = Len(out[w]) - 1
      /\ Head(out[w]) = out[w][1]
      /\ \A i \in 1..(Len(out[w]) - 1) : out'[w][i] = out[w][i + 1]
  BY <1>2, <1>t
<1> SUFFICES ASSUME NEW v \in Workers, NEW p \in Prompts PROVE AtMostOnce(v, p)'
  BY DEF PromptsOnce
<1>4. AtMostOnce(v, p) /\ AtMostOnce(w, p)
  BY DEF PromptsOnce
<1>5. CASE Response(Head(out[w]), p)
  <2>1. /\ worker[p] = w
        /\ \A j \in 1..Len(out[w]) : Response(out[w][j], p) => j = 1
        /\ \A j \in 1..Len(inbox[w]) : inbox[w][j] # p
    BY <1>3, <1>4, <1>5 DEF AtMostOnce
  <2>2. CASE v = w
    <3>1. \A i \in 1..Len(out'[w]) : ~Response(out'[w][i], p)
      BY <1>3, <2>1
    <3>2. QED
      BY <2>1, <2>2, <3>1 DEF AtMostOnce
  <2>3. CASE v # w
    BY <1>2, <1>4, <2>1, <2>3 DEF AtMostOnce
  <2>4. QED
    BY <2>2, <2>3
<1>6. CASE ~Response(Head(out[w]), p)
  <2>1. pc[p] \in Unanswered => pc'[p] \in Unanswered
    BY <1>6
  <2>2. CASE v = w
    <3>1. \A i \in 1..Len(out'[w]) : out'[w][i] = out[w][i + 1] /\ i + 1 \in 1..Len(out[w])
      BY <1>3
    <3>2. /\ \A i \in 1..Len(inbox[w]) : inbox[w][i] = p =>
               /\ worker[p] = w /\ pc[p] \in Unanswered
               /\ \A j \in 1..Len(inbox[w]) : inbox[w][j] = p => j = i
               /\ \A j \in 1..Len(out[w]) : ~Response(out[w][j], p)
          /\ \A i \in 1..Len(out[w]) : Response(out[w][i], p) =>
               /\ worker[p] = w /\ pc[p] \in Unanswered
               /\ \A j \in 1..Len(out[w]) : Response(out[w][j], p) => j = i
      BY <1>4 DEF AtMostOnce
    <3>3. ASSUME NEW i \in 1..Len(out'[w]), Response(out'[w][i], p)
          PROVE  /\ worker[p] = w /\ pc[p] \in Unanswered
                 /\ \A j \in 1..Len(out'[w]) : Response(out'[w][j], p) => j = i
      <4>1. Response(out[w][i + 1], p) /\ i + 1 \in 1..Len(out[w])
        BY <3>1, <3>3
      <4>2. \A j \in 1..Len(out'[w]) : Response(out'[w][j], p) => j + 1 = i + 1
        BY <3>1, <3>2, <4>1
      <4>3. i \in Int /\ \A j \in 1..Len(out'[w]) : j + 1 = i + 1 => j = i
        BY <1>3
      <4>4. \A j \in 1..Len(out'[w]) : Response(out'[w][j], p) => j = i
        BY <4>2, <4>3, Zenon
      <4>5. QED
        BY <3>2, <4>1, <4>4
    <3>4. \A i \in 1..Len(inbox[w]) : inbox[w][i] = p => \A j \in 1..Len(out'[w]) : ~Response(out'[w][j], p)
      BY <3>1, <3>2
    <3>5. QED
      BY <2>1, <2>2, <3>2, <3>3, <3>4 DEF AtMostOnce
  <2>3. CASE v # w
    BY <1>2, <1>4, <2>1, <2>3 DEF AtMostOnce
  <2>4. QED
    BY <2>2, <2>3
<1>7. QED
  BY <1>5, <1>6

\* The prompt sent was nowhere before.
LEMMA OnceSend ==
  ASSUME TypeOK, PromptsOnce, NEW q \in Prompts, Send(q)
  PROVE  PromptsOnce'
<1>1. pc[q] = "unsent" /\ UNCHANGED out
  BY DEF Send
<1>2. CASE child = 0
  <2>1. UNCHANGED <<inbox, worker>> /\ \A p \in Prompts : pc[p] \in Unanswered => pc'[p] \in Unanswered
    BY <1>2 DEF Send, TypeOK, CallTypes, Unanswered
  <2>2. QED
    BY <1>1, <2>1, OnceFrame
<1>3. CASE child # 0
  <2>1. child \in Workers /\ inbox[child] \in Seq(Prompts)
    BY <1>3 DEF TypeOK, HandTypes, WorkerTypes, Workers
  <2>2. inbox'[child] = Append(inbox[child], q) /\ \A v \in Workers \ {child} : inbox'[v] = inbox[v]
    BY <1>3, <2>1 DEF Send, TypeOK, WorkerTypes
  <2>3. /\ pc'[q] = "asking" /\ worker'[q] = child
        /\ \A p \in Prompts \ {q} : pc'[p] = pc[p] /\ worker'[p] = worker[p]
    BY <1>3 DEF Send, TypeOK, CallTypes
  <2>4. /\ Len(inbox[child]) \in Nat /\ Len(inbox'[child]) = Len(inbox[child]) + 1
        /\ inbox'[child][Len(inbox[child]) + 1] = q
        /\ \A i \in 1..Len(inbox[child]) : inbox'[child][i] = inbox[child][i]
    BY <2>1, <2>2, AppendOf
  <2> SUFFICES ASSUME NEW v \in Workers, NEW p \in Prompts PROVE AtMostOnce(v, p)'
    BY DEF PromptsOnce
  <2>5. AtMostOnce(v, p)
    BY DEF PromptsOnce
  <2>6. CASE p = q
    <3>1. /\ \A i \in 1..Len(inbox[v]) : inbox[v][i] # q
          /\ \A i \in 1..Len(out[v]) : ~Response(out[v][i], q)
      BY <1>1, <2>5, <2>6 DEF AtMostOnce, Unanswered
    <3>2. CASE v = child
      <4>1. \A i \in 1..Len(inbox'[v]) : inbox'[v][i] = q => i = Len(inbox[v]) + 1
        BY <2>4, <3>1, <3>2
      <4>2. QED
        BY <1>1, <2>3, <2>6, <3>1, <3>2, <4>1 DEF AtMostOnce, Unanswered
    <3>3. CASE v # child
      BY <1>1, <2>2, <2>6, <3>1, <3>3 DEF AtMostOnce
    <3>4. QED
      BY <3>2, <3>3
  <2>7. CASE p # q
    <3>1. \A i \in 1..Len(inbox'[v]) : inbox'[v][i] = p => i \in 1..Len(inbox[v]) /\ inbox[v][i] = p
      BY <2>2, <2>4, <2>7
    <3>2. QED
      BY <1>1, <2>3, <2>5, <2>7, <3>1 DEF AtMostOnce
  <2>8. QED
    BY <2>6, <2>7
<1>4. QED
  BY <1>2, <1>3

\* A caller's answer is read at most once, whatever its caller has done meanwhile.
LEMMA OnceSteps ==
  ASSUME TypeOK, PromptsOnce, [Next]_vars
  PROVE  PromptsOnce'
<1> DEFINE Stay == \A p \in Prompts : pc[p] \in Unanswered => pc'[p] \in Unanswered
<1>1. CASE HandleLine
  <2> DEFINE line == Head(out[child])
  <2>1. child \in Workers /\ out[child] \in Seq(Lines) /\ out[child] # <<>>
    BY <1>1 DEF HandleLine, TypeOK, HandTypes, WorkerTypes, Workers
  <2>2. line \in Lines
    BY <2>1
  <2>3. ASSUME NEW p \in Prompts, pc[p] \in Unanswered, ~Response(line, p) PROVE pc'[p] \in Unanswered
    <3>1. CASE line.type \in {"accepted", "refused"}
      BY <1>1, <2>2, <2>3, <3>1 DEF HandleLine, Response, TypeOK, CallTypes
    <3>2. CASE line.type \notin {"accepted", "refused"}
      BY <1>1, <2>3, <3>2, UnansweredStay DEF HandleLine
    <3>3. QED
      BY <3>1, <3>2
  <2>4. out' = [out EXCEPT ![child] = Tail(@)] /\ UNCHANGED <<inbox, worker>>
    BY <1>1 DEF HandleLine
  <2>5. QED
    BY <2>1, <2>3, <2>4, OnceRead
<1>2. CASE DropLine
  <2>1. stopping \in Workers /\ out[stopping] # <<>> /\ out' = [out EXCEPT ![stopping] = Tail(@)]
    BY <1>2 DEF DropLine, TypeOK, StopTypes, Workers
  <2>2. UNCHANGED <<inbox, worker, pc>>
    BY <1>2 DEF DropLine, callVars
  <2>3. QED
    BY <2>1, <2>2, OnceRead
<1>3. ASSUME UNCHANGED <<inbox, out, worker>>, Stay PROVE PromptsOnce'
  BY <1>3, OnceFrame
<1>4. ASSUME NEW w, Ends(w), UNCHANGED worker, Stay PROVE PromptsOnce'
  <2>1. \A v \in Workers : \/ inbox'[v] = <<>> /\ out'[v] = <<>>
                           \/ inbox'[v] = inbox[v] /\ out'[v] = out[v]
    BY <1>4 DEF Ends, TypeOK, WorkerTypes
  <2>2. SUFFICES ASSUME NEW v \in Workers, NEW p \in Prompts PROVE AtMostOnce(v, p)'
    BY DEF PromptsOnce
  <2>3. AtMostOnce(v, p) /\ (pc[p] \in Unanswered => pc'[p] \in Unanswered) /\ worker' = worker
    BY <1>4 DEF PromptsOnce
  <2>4. CASE inbox'[v] = <<>> /\ out'[v] = <<>>
    <3>1. Len(inbox'[v]) = 0 /\ Len(out'[v]) = 0
      BY <2>4
    <3>2. QED
      BY <3>1 DEF AtMostOnce
  <2>5. CASE inbox'[v] = inbox[v] /\ out'[v] = out[v]
    BY <2>3, <2>5 DEF AtMostOnce
  <2>6. QED
    BY <2>1, <2>4, <2>5
<1>5. CASE Start \/ Stop
  <2>1. Stay
    BY <1>5, UnansweredStay DEF Start, Stop, StopNow
  <2>2. UNCHANGED <<inbox, out, worker>>
    BY <1>5 DEF Start, Stop, workerVars
  <2>3. QED
    BY <1>3, <2>1, <2>2
<1>6. CASE Exit
  <2>1. Stay
    BY <1>6, UnansweredStay DEF Exit
  <2>2. QED
    BY <1>4, <1>6, <2>1 DEF Exit
<1>7. CASE StopSucceeds
  BY <1>4, <1>7 DEF StopSucceeds, callVars
<1>8. CASE StopFails \/ TurnStartTimeout \/ (\E k \in 1..MaxChunk : Read(k)) \/ Spawn
  <2>1. UNCHANGED <<inbox, out, worker, pc>>
    BY <1>8 DEF StopFails, TurnStartTimeout, Read, Spawn, workerVars, callVars
  <2>2. QED
    BY <1>3, <2>1
<1>9. ASSUME NEW p \in Prompts, \/ RequestTimeout(p) \/ GraceEnds(p)
                                \/ PromptAnswered(p) \/ PromptFailed(p) \/ WaitGoesOn(p)
      PROVE  PromptsOnce'
  <2>1. UNCHANGED <<inbox, out, worker>>
    BY <1>9 DEF RequestTimeout, GraceEnds, PromptAnswered, PromptFailed, WaitGoesOn, workerVars
  <2>2. \A q \in Prompts : q # p => pc'[q] = pc[q]
    BY <1>9 DEF RequestTimeout, GraceEnds, PromptAnswered, PromptFailed, WaitGoesOn, TypeOK, CallTypes
  <2>3. pc[p] \in Unanswered => pc'[p] \in Unanswered
    BY <1>9 DEF RequestTimeout, GraceEnds, PromptAnswered, PromptFailed, WaitGoesOn, TypeOK, CallTypes, Unanswered
  <2>4. QED
    BY <1>3, <2>1, <2>2, <2>3
<1>10. CASE UNCHANGED vars
  BY <1>3, <1>10 DEF vars, workerVars, callVars
<1>11. QED
  BY <1>1, <1>2, <1>5, <1>6, <1>7, <1>8, <1>9, <1>10, OnceTake, OnceTurn, OnceSend DEF Next, Continuations

-----------------------------------------------------------------------------
\* Lines that are read, and lines that are written.
LEMMA LaterTail ==
  ASSUME NEW s \in Seq(Lines), s # <<>>, NEW p, AcceptedLater(s, p)
  PROVE  AcceptedLater(Tail(s), p)
<1> DEFINE t == Tail(s)
<1>1. /\ Len(s) \in Nat /\ Len(t) = Len(s) - 1
      /\ \A i \in 1..(Len(s) - 1) : t[i] = s[i + 1]
  BY TailOf
<1> HIDE DEF t
<1>2. SUFFICES ASSUME NEW i \in 1..Len(t), t[i].type = "agent_settled"
               PROVE  \E j \in (i + 1)..Len(t) : t[j].type = "accepted" /\ t[j].prompt = p
  BY DEF AcceptedLater, t
<1>3. i + 1 \in 1..Len(s) /\ s[i + 1].type = "agent_settled"
  BY <1>1, <1>2
<1>4. PICK j \in ((i + 1) + 1)..Len(s) : s[j].type = "accepted" /\ s[j].prompt = p
  BY <1>3 DEF AcceptedLater
<1>5. j - 1 \in (i + 1)..Len(t) /\ j - 1 \in 1..(Len(s) - 1) /\ (j - 1) + 1 = j
  BY <1>1, <1>4
<1>6. t[j - 1] = s[j]
  BY <1>1, <1>5
<1>7. QED
  BY <1>4, <1>5, <1>6

LEMMA LaterAppend ==
  ASSUME NEW s \in Seq(Lines), NEW line \in Lines, NEW p,
         \/ line.type # "agent_settled" /\ AcceptedLater(s, p)
         \/ line.type = "accepted" /\ line.prompt = p
  PROVE  AcceptedLater(Append(s, line), p)
<1> DEFINE t == Append(s, line)
<1>1. /\ Len(s) \in Nat /\ Len(t) = Len(s) + 1 /\ t[Len(s) + 1] = line
      /\ \A i \in 1..Len(s) : t[i] = s[i]
  BY AppendOf
<1> HIDE DEF t
<1>2. SUFFICES ASSUME NEW i \in 1..Len(t), t[i].type = "agent_settled"
               PROVE  \E j \in (i + 1)..Len(t) : t[j].type = "accepted" /\ t[j].prompt = p
  BY DEF AcceptedLater, t
<1>3. i \in 1..Len(s) /\ s[i].type = "agent_settled"
  BY <1>1, <1>2
<1>4. CASE line.type # "agent_settled" /\ AcceptedLater(s, p)
  <2>1. PICK j \in (i + 1)..Len(s) : s[j].type = "accepted" /\ s[j].prompt = p
    BY <1>3, <1>4 DEF AcceptedLater
  <2>2. j \in (i + 1)..Len(t) /\ t[j] = s[j]
    BY <1>1, <1>3, <2>1
  <2>3. QED
    BY <2>1, <2>2
<1>5. CASE line.type = "accepted" /\ line.prompt = p
  <2>1. Len(s) + 1 \in (i + 1)..Len(t)
    BY <1>1, <1>3
  <2>2. QED
    BY <1>1, <1>5, <2>1
<1>6. QED
  BY <1>4, <1>5

\* Reading a line leaves every end of a turn before the answers it precedes.
LEMMA TurnsRead ==
  ASSUME TypeOK, TurnsAnswer, NEW w \in Workers, out[w] # <<>>,
         out' = [out EXCEPT ![w] = Tail(@)], UNCHANGED <<turn, answering>>
  PROVE  TurnsAnswer'
<1>1. out[w] \in Seq(Lines) /\ \A p \in answering[w] : AcceptedLater(out[w], p)
  BY DEF TypeOK, WorkerTypes, TurnsAnswer
<1>2. \A p \in answering[w] : AcceptedLater(Tail(out[w]), p)
  BY <1>1, LaterTail
<1>3. out'[w] = Tail(out[w]) /\ \A v \in Workers \ {w} : out'[v] = out[v]
  BY DEF TypeOK, WorkerTypes
<1>4. QED
  BY <1>2, <1>3 DEF TurnsAnswer

\* What a worker adds to its output, and what it makes of its turn.
LEMMA TurnsTake ==
  ASSUME TypeOK, TurnsAnswer, NEW w \in Workers, TakePrompt(w)
  PROVE  TurnsAnswer'
<1> DEFINE q == Head(inbox[w])
<1>1. out[w] \in Seq(Lines) /\ q \in Prompts
  BY DEF TakePrompt, TypeOK, WorkerTypes
<1> HIDE DEF q
<1>2. PICK line \in Lines :
        /\ Say(w, line) /\ line.type # "agent_settled"
        /\ \/ UNCHANGED <<answering, turn>>
           \/ /\ line.type = "accepted" /\ line.prompt = q
              /\ answering' = [answering EXCEPT ![w] = @ \cup {q}]
              /\ turn' = [turn EXCEPT ![w] = IF @ = "idle" THEN "accepted" ELSE @]
  <2>1. [type |-> "accepted", prompt |-> q] \in Lines /\ [type |-> "refused", prompt |-> q] \in Lines
    BY <1>1 DEF Lines
  <2>2. QED
    BY <2>1 DEF TakePrompt, q
<1>3. out'[w] = Append(out[w], line) /\ \A v \in Workers \ {w} : out'[v] = out[v]
  BY <1>2 DEF Say, TypeOK, WorkerTypes
<1>4. \A p \in answering[w] : turn[w] # "idle" /\ AcceptedLater(out'[w], p)
  BY <1>1, <1>2, <1>3, LaterAppend DEF TurnsAnswer
<1>5. CASE UNCHANGED <<answering, turn>>
  BY <1>3, <1>4, <1>5 DEF TurnsAnswer
<1>6. CASE /\ line.type = "accepted" /\ line.prompt = q
           /\ answering' = [answering EXCEPT ![w] = @ \cup {q}]
           /\ turn' = [turn EXCEPT ![w] = IF @ = "idle" THEN "accepted" ELSE @]
  <2>1. AcceptedLater(out'[w], q)
    BY <1>1, <1>3, <1>6, LaterAppend
  <2>2. turn'[w] # "idle" /\ answering'[w] = answering[w] \cup {q}
    BY <1>6 DEF TypeOK, WorkerTypes
  <2>3. \A v \in Workers \ {w} : turn'[v] = turn[v] /\ answering'[v] = answering[v]
    BY <1>6 DEF TypeOK, WorkerTypes
  <2>4. QED
    BY <1>3, <1>4, <2>1, <2>2, <2>3 DEF TurnsAnswer
<1>7. QED
  BY <1>2, <1>5, <1>6

LEMMA TurnsTurn ==
  ASSUME TypeOK, TurnsAnswer, NEW w \in Workers, TurnStarts(w) \/ TurnEnds(w)
  PROVE  TurnsAnswer'
<1>1. \A v \in Workers \ {w} : out'[v] = out[v] /\ turn'[v] = turn[v] /\ answering'[v] = answering[v]
  BY DEF TurnStarts, TurnEnds, Say, TypeOK, WorkerTypes
<1>2. CASE TurnStarts(w)
  <2>1. turn'[w] = "turn" /\ answering' = answering
    BY <1>2 DEF TurnStarts, TypeOK, WorkerTypes
  <2>2. [type |-> "agent_start"] \in Lines /\ out[w] \in Seq(Lines)
    BY DEF Lines, TypeOK, WorkerTypes
  <2>3. out'[w] = Append(out[w], [type |-> "agent_start"])
    BY <1>2 DEF TurnStarts, Say, TypeOK, WorkerTypes
  <2>4. \A p \in answering[w] : AcceptedLater(out'[w], p)
    BY <2>2, <2>3, LaterAppend DEF TurnsAnswer
  <2>5. QED
    BY <1>1, <2>1, <2>4 DEF TurnsAnswer
<1>3. CASE TurnEnds(w)
  <2>1. answering'[w] = {}
    BY <1>3 DEF TurnEnds, TypeOK, WorkerTypes
  <2>2. QED
    BY <1>1, <2>1 DEF TurnsAnswer
<1>4. QED
  BY <1>2, <1>3

LEMMA TurnsSteps ==
  ASSUME TypeOK, TurnsAnswer, [Next]_vars
  PROVE  TurnsAnswer'
<1>1. CASE UNCHANGED <<out, turn, answering>>
  BY <1>1 DEF TurnsAnswer
<1>2. CASE HandleLine
  <2>1. child \in Workers /\ out[child] # <<>>
    BY <1>2 DEF HandleLine, TypeOK, HandTypes, WorkerTypes, Workers
  <2>2. out' = [out EXCEPT ![child] = Tail(@)] /\ UNCHANGED <<turn, answering>>
    BY <1>2 DEF HandleLine
  <2>3. QED
    BY <2>1, <2>2, TurnsRead
<1>3. CASE DropLine
  <2>1. stopping \in Workers
    BY <1>3 DEF DropLine, TypeOK, StopTypes, Workers
  <2>2. QED
    BY <1>3, <2>1, TurnsRead DEF DropLine
<1>4. ASSUME NEW w, Ends(w) PROVE TurnsAnswer'
  <2>1. \A v \in Workers : \/ answering'[v] = {}
                           \/ out'[v] = out[v] /\ turn'[v] = turn[v] /\ answering'[v] = answering[v]
    BY <1>4 DEF Ends, TypeOK, WorkerTypes
  <2>2. QED
    BY <2>1 DEF TurnsAnswer
<1>5. CASE StopSucceeds \/ Exit
  BY <1>4, <1>5 DEF StopSucceeds, Exit
<1>6. CASE Start \/ Stop \/ StopFails \/ TurnStartTimeout \/ Spawn \/ \E k \in 1..MaxChunk : Read(k)
  BY <1>1, <1>6 DEF Start, Stop, StopFails, TurnStartTimeout, Spawn, Read, workerVars
<1>7. CASE \E p \in Prompts : \/ Send(p) \/ RequestTimeout(p) \/ GraceEnds(p)
                              \/ PromptAnswered(p) \/ PromptFailed(p) \/ WaitGoesOn(p)
  BY <1>1, <1>7 DEF Send, RequestTimeout, GraceEnds, PromptAnswered, PromptFailed, WaitGoesOn, workerVars
<1>8. CASE UNCHANGED vars
  BY <1>1, <1>8 DEF vars, workerVars
<1>9. QED
  BY <1>2, <1>3, <1>5, <1>6, <1>7, <1>8, TurnsTake, TurnsTurn DEF Next, Continuations

-----------------------------------------------------------------------------
\* The host's belief follows the line it reads; a line written tells no less.
LEMMA ToldTail ==
  ASSUME NEW s \in Seq(Lines), s # <<>>, NEW active, Told(s, active)
  PROVE  Told(Tail(s), Believed(Head(s), active))
<1> DEFINE t     == Tail(s)
           after == Believed(Head(s), active)
<1>1. /\ Len(s) \in Nat /\ Len(s) >= 1 /\ Len(t) = Len(s) - 1 /\ Head(s) = s[1]
      /\ \A i \in 1..(Len(s) - 1) : t[i] = s[i + 1]
  BY TailOf
<1> HIDE DEF t, after
<1>2. \A i \in 1..Len(t) : t[i] = s[i + 1] /\ i + 1 \in 1..Len(s)
  BY <1>1
<1>3. CASE active /\ \A i \in 1..Len(s) : s[i].type # "agent_settled"
  <2>1. \A i \in 1..Len(t) : t[i].type # "agent_settled"
    BY <1>2, <1>3
  <2>2. Head(s).type # "agent_settled"
    BY <1>1, <1>3
  <2>3. after
    BY <1>3, <2>2 DEF after, Believed
  <2>4. QED
    BY <2>1, <2>3 DEF Told, t, after
<1>4. ASSUME NEW k \in 1..Len(s), s[k].type = "agent_start",
             \A j \in (k + 1)..Len(s) : s[j].type # "agent_settled"
      PROVE  Told(t, after)
  <2>1. CASE k = 1
    <3>1. after
      BY <1>1, <1>4, <2>1 DEF after, Believed
    <3>2. \A i \in 1..Len(t) : i + 1 \in (k + 1)..Len(s)
      BY <1>1, <2>1
    <3>3. \A i \in 1..Len(t) : t[i].type # "agent_settled"
      BY <1>2, <1>4, <3>2
    <3>4. QED
      BY <3>1, <3>3 DEF Told
  <2>2. CASE k # 1
    <3>1. k - 1 \in 1..Len(t) /\ (k - 1) + 1 = k
      BY <1>1, <2>2
    <3>2. t[k - 1].type = "agent_start"
      BY <1>2, <1>4, <3>1
    <3>3. \A j \in ((k - 1) + 1)..Len(t) : j \in 1..Len(t) /\ j + 1 \in (k + 1)..Len(s)
      BY <1>1, <3>1
    <3>4. \A j \in ((k - 1) + 1)..Len(t) : t[j].type # "agent_settled"
      BY <1>2, <1>4, <3>3
    <3>5. QED
      BY <3>1, <3>2, <3>4 DEF Told
  <2>3. QED
    BY <2>1, <2>2
<1>5. QED
  BY <1>3, <1>4 DEF Told, t, after

LEMMA ToldAppend ==
  ASSUME NEW s \in Seq(Lines), NEW line \in Lines, NEW active,
         \/ line.type = "agent_start"
         \/ line.type # "agent_settled" /\ Told(s, active)
  PROVE  Told(Append(s, line), active)
<1> DEFINE t == Append(s, line)
<1>1. /\ Len(s) \in Nat /\ Len(t) = Len(s) + 1 /\ t[Len(s) + 1] = line
      /\ \A i \in 1..Len(s) : t[i] = s[i]
  BY AppendOf
<1> HIDE DEF t
<1>2. CASE line.type = "agent_start"
  <2>1. Len(s) + 1 \in 1..Len(t) /\ \A j \in ((Len(s) + 1) + 1)..Len(t) : FALSE
    BY <1>1
  <2>2. QED
    BY <1>1, <1>2, <2>1 DEF Told, t
<1>3. CASE line.type # "agent_settled" /\ Told(s, active)
  <2>1. \A i \in 1..Len(t) : t[i].type = "agent_settled" => i \in 1..Len(s) /\ s[i].type = "agent_settled"
    BY <1>1, <1>3
  <2>2. CASE active /\ \A i \in 1..Len(s) : s[i].type # "agent_settled"
    BY <2>1, <2>2 DEF Told, t
  <2>3. ASSUME NEW k \in 1..Len(s), s[k].type = "agent_start",
               \A j \in (k + 1)..Len(s) : s[j].type # "agent_settled"
        PROVE  Told(t, active)
    <3>1. k \in 1..Len(t) /\ t[k].type = "agent_start"
      BY <1>1, <2>3
    <3>2. \A j \in (k + 1)..Len(t) : j \in 1..Len(t) /\ (j \in 1..Len(s) => j \in (k + 1)..Len(s))
      BY <1>1
    <3>3. \A j \in (k + 1)..Len(t) : t[j].type # "agent_settled"
      BY <2>1, <2>3, <3>2
    <3>4. QED
      BY <3>1, <3>3 DEF Told
  <2>4. QED
    BY <1>3, <2>2, <2>3 DEF Told, t
<1>4. QED
  BY <1>2, <1>3

\* The worker the host sees cannot be in a turn that no line tells of.
LEMMA ToldWorker ==
  ASSUME TypeOK, TurnIsTold, NEW w \in Workers, TakePrompt(w) \/ TurnStarts(w) \/ TurnEnds(w)
  PROVE  TurnIsTold'
<1>1. UNCHANGED <<child, turnActive, stopFailed>>
  BY DEF TakePrompt, TurnStarts, TurnEnds, hostVars, stopVars
<1>2. SUFFICES ASSUME ~stopFailed, child # 0, turn'[child] = "turn" PROVE Told(out'[child], turnActive)
  BY <1>1 DEF TurnIsTold
<1>3. child \in Workers /\ out[child] \in Seq(Lines)
  BY <1>2 DEF TypeOK, HandTypes, WorkerTypes, Workers
<1>4. CASE child # w
  <2>1. out'[child] = out[child] /\ turn'[child] = turn[child]
    BY <1>3, <1>4 DEF TakePrompt, TurnStarts, TurnEnds, Say, TypeOK, WorkerTypes
  <2>2. QED
    BY <1>2, <2>1 DEF TurnIsTold
<1>5. CASE child = w /\ TakePrompt(w)
  <2>1. turn[w] = "turn"
    BY <1>2, <1>5 DEF TakePrompt, TypeOK, WorkerTypes
  <2>2. Head(inbox[w]) \in Prompts
    BY <1>5 DEF TakePrompt, TypeOK, WorkerTypes
  <2>3. PICK line \in Lines : Say(w, line) /\ line.type # "agent_settled"
    BY <1>5, <2>2 DEF TakePrompt, Lines
  <2>4. out'[w] = Append(out[w], line)
    BY <2>3 DEF Say, TypeOK, WorkerTypes
  <2>5. QED
    BY <1>2, <1>3, <1>5, <2>1, <2>3, <2>4, ToldAppend DEF TurnIsTold
<1>6. CASE child = w /\ TurnStarts(w)
  <2>1. out'[w] = Append(out[w], [type |-> "agent_start"]) /\ [type |-> "agent_start"] \in Lines
    BY <1>6 DEF TurnStarts, Say, Lines, TypeOK, WorkerTypes
  <2>2. QED
    BY <1>3, <1>6, <2>1, ToldAppend
<1>7. CASE child = w /\ TurnEnds(w)
  BY <1>2, <1>7 DEF TurnEnds, TypeOK, WorkerTypes
<1>8. QED
  BY <1>4, <1>5, <1>6, <1>7

LEMMA ToldRead ==
  ASSUME TypeOK, TurnIsTold, HandleLine
  PROVE  TurnIsTold'
<1>1. child \in Workers /\ out[child] \in Seq(Lines) /\ out[child] # <<>>
  BY DEF HandleLine, TypeOK, HandTypes, WorkerTypes, Workers
<1>2. out'[child] = Tail(out[child]) /\ UNCHANGED <<child, turn, stopFailed>>
  BY <1>1 DEF HandleLine, stopVars, TypeOK, WorkerTypes
<1>3. turnActive' = Believed(Head(out[child]), turnActive)
  BY DEF HandleLine, Believed
<1>4. SUFFICES ASSUME ~stopFailed, turn[child] = "turn" PROVE Told(Tail(out[child]), turnActive')
  BY <1>2 DEF TurnIsTold
<1>5. Told(out[child], turnActive)
  BY <1>1, <1>4 DEF TurnIsTold, Workers
<1>6. QED
  BY <1>1, <1>3, <1>5, ToldTail

LEMMA ToldSteps ==
  ASSUME TypeOK, Control, NothingInOthers, TurnIsTold, [Next]_vars
  PROVE  TurnIsTold'
<1>1. CASE UNCHANGED <<out, turn, child, turnActive, stopFailed>>
  BY <1>1 DEF TurnIsTold
<1>2. CASE child' = 0 \/ stopFailed'
  BY <1>2 DEF TurnIsTold
<1>3. CASE Start
  <2>1. CASE SharesStop
    BY <1>1, <1>3, <2>1 DEF Start, SharesStop, workerVars
  <2>2. CASE ~SharesStop
    BY <1>2, <1>3, <2>2 DEF Start, StopNow
  <2>3. QED
    BY <2>1, <2>2
<1>4. CASE Stop \/ StopFails \/ Exit
  BY <1>2, <1>4 DEF Stop, StopNow, StopFails, Exit
<1>5. CASE StopSucceeds
  BY <1>2, <1>5 DEF StopSucceeds, hostVars, Control, Tracked
<1>6. CASE DropLine
  BY <1>2, <1>6 DEF DropLine, hostVars, Control, Tracked
<1>7. CASE Spawn
  <2>1. child = 0 /\ UNCHANGED <<out, turn>>
    BY <1>7 DEF Spawn, Control, StartOrder
  <2>2. child' # 0 => \E w \in Workers : child' = w /\ process[w] = "none"
    BY <1>7, <2>1 DEF Spawn, Control, StartOrder
  <2>3. child' # 0 => turn'[child'] = "idle"
    BY <2>1, <2>2 DEF NothingInOthers
  <2>4. QED
    BY <2>3 DEF TurnIsTold
<1>8. CASE TurnStartTimeout \/ \E k \in 1..MaxChunk : Read(k)
  BY <1>1, <1>8 DEF TurnStartTimeout, Read, workerVars, stopVars
<1>9. CASE \E p \in Prompts : \/ Send(p) \/ RequestTimeout(p) \/ GraceEnds(p)
                              \/ PromptAnswered(p) \/ PromptFailed(p) \/ WaitGoesOn(p)
  BY <1>1, <1>9 DEF Send, RequestTimeout, GraceEnds, PromptAnswered, PromptFailed, WaitGoesOn,
     workerVars, hostVars, stopVars
<1>10. CASE UNCHANGED vars
  BY <1>1, <1>10 DEF vars, workerVars, hostVars, stopVars
<1>11. QED
  BY <1>3, <1>4, <1>5, <1>6, <1>7, <1>8, <1>9, <1>10, ToldWorker, ToldRead DEF Next, Continuations

-----------------------------------------------------------------------------
\* A caller whose answer was read is not among those whose turn is still to
\* come when the end of a turn is read.
LEMMA SettledIsTheirs ==
  ASSUME TypeOK, PromptsOnce, TurnsAnswer, NEW w \in Workers, NEW p \in answering[w],
         out[w] # <<>>, Head(out[w]).type = "agent_settled"
  PROVE  pc[p] \in Unanswered
<1>1. p \in Prompts /\ out[w] \in Seq(Lines)
  BY DEF TypeOK, WorkerTypes
<1>2. 1 \in 1..Len(out[w]) /\ Head(out[w]) = out[w][1] /\ Len(out[w]) \in Nat
  BY <1>1
<1>3. PICK j \in (1 + 1)..Len(out[w]) : out[w][j].type = "accepted" /\ out[w][j].prompt = p
  BY <1>2 DEF TurnsAnswer, AcceptedLater
<1>4. j \in 1..Len(out[w]) /\ Response(out[w][j], p)
  BY <1>2, <1>3 DEF Response
<1>5. QED
  BY <1>1, <1>4 DEF PromptsOnce, AtMostOnce

\* So it is when the worker takes a prompt.
LEMMA TakenIsUnanswered ==
  ASSUME TypeOK, PromptsOnce, NEW w \in Workers, TakePrompt(w)
  PROVE  pc[Head(inbox[w])] \in Unanswered
<1>1. inbox[w] \in Seq(Prompts) /\ inbox[w] # <<>>
  BY DEF TakePrompt, TypeOK, WorkerTypes
<1>2. 1 \in 1..Len(inbox[w]) /\ Head(inbox[w]) = inbox[w][1] /\ inbox[w][1] \in Prompts
  BY <1>1
<1>3. QED
  BY <1>2 DEF PromptsOnce, AtMostOnce

\* When the grace period ends no turn is to come, and none goes on.
LEMMA QuietIsOver ==
  ASSUME TypeOK, TurnsAnswer, TurnIsTold, NEW p \in Prompts, Follows(p), GraceEnds(p),
         ~stopFailed, child # 0, child = worker[p]
  PROVE  p \notin answering[child]
<1>1. SUFFICES ASSUME p \in answering[child] PROVE FALSE
  OBVIOUS
<1>2. child \in Workers /\ ~turnActive
  BY DEF TypeOK, HandTypes, Workers, Follows, GraceEnds
<1>3. turn[child] = "turn"
  BY <1>1, <1>2 DEF TurnsAnswer, GraceEnds, GraceOver, TypeOK, WorkerTypes
<1>4. Told(out[child], turnActive)
  BY <1>3 DEF TurnIsTold
<1>5. QED
  BY <1>2, <1>4 DEF Told, GraceEnds, GraceOver

-----------------------------------------------------------------------------
\* Steps after which there is no child, or a stop has failed.
LEMMA FollowsAlone ==
  ASSUME CallersFollow, child' = 0 \/ stopFailed', worker' = worker,
         \A w : process[w] # "none" => process'[w] # "none",
         \A p \in Prompts : /\ pc'[p] \notin {"unsent", "rejected"} => pc[p] \notin {"unsent", "rejected"}
                            /\ pc'[p] = "quiet" => chunk' = 0
  PROVE  CallersFollow'
BY DEF CallersFollow, Follows

\* Steps of workers: who is added to answering has not read its answer.
LEMMA FollowsWorker ==
  ASSUME CallersFollow, UNCHANGED <<process, child, chunk, turnActive, pc, worker, stopFailed>>,
         \A p \in Prompts : child # 0 /\ p \in answering'[child] => p \in answering[child] \/ pc[p] \in Unanswered
  PROVE  CallersFollow'
<1> SUFFICES ASSUME NEW p \in Prompts PROVE Follows(p)'
  BY DEF CallersFollow
<1>1. Follows(p)
  BY DEF CallersFollow
<1>2. CASE child = 0
  BY <1>1, <1>2 DEF Follows
<1>3. CASE child # 0
  BY <1>1, <1>3 DEF Follows, Unanswered
<1>4. QED
  BY <1>2, <1>3

\* A step of one caller.
LEMMA FollowsMove ==
  ASSUME CallersFollow, UNCHANGED <<process, child, chunk, turnActive, answering, worker, stopFailed>>,
         NEW q \in Prompts, NEW at, pc \in [Prompts -> Places], pc' = [pc EXCEPT ![q] = at],
         pc[q] \notin {"unsent", "rejected"},
         at = "quiet" => chunk = 0,
         at = "grace" => ~turnActive,
         ~stopFailed /\ child = worker[q] =>
           /\ at = "quiet" => ~turnActive /\ q \notin answering[child]
           /\ at \in {"started", "settleAgain", "settledAgain"} /\ q \in answering[child] => turnActive
  PROVE  CallersFollow'
<1> SUFFICES ASSUME NEW p \in Prompts PROVE Follows(p)'
  BY DEF CallersFollow
<1>1. Follows(p)
  BY DEF CallersFollow
<1>2. CASE p # q
  BY <1>1, <1>2 DEF Follows
<1>3. CASE p = q
  BY <1>1, <1>3 DEF Follows
<1>4. QED
  BY <1>2, <1>3

LEMMA FollowsLine ==
  ASSUME TypeOK, PromptsOnce, TurnsAnswer, CallersFollow, HandleLine
  PROVE  CallersFollow'
<1> DEFINE line == Head(out[child])
<1>1. child \in Workers /\ out[child] \in Seq(Lines) /\ out[child] # <<>> /\ child # 0
  BY DEF HandleLine, TypeOK, HandTypes, WorkerTypes, Workers
<1>2. UNCHANGED <<process, answering, child, worker, stopFailed>>
  BY DEF HandleLine, stopVars
<1>3. chunk # 0
  BY DEF HandleLine, TypeOK, HandTypes
<1> SUFFICES ASSUME NEW p \in Prompts PROVE Follows(p)'
  BY DEF CallersFollow
<1>4. Follows(p) /\ pc[p] # "quiet" /\ pc[p] \in Places
  BY <1>3 DEF CallersFollow, Follows, TypeOK, CallTypes
<1>5. CASE line.type \in {"accepted", "refused"}
  <2>1. turnActive' = turnActive
    BY <1>5 DEF HandleLine
  <2>2. pc'[p] = pc[p] \/ (pc[p] = "asking" /\ pc'[p] \in {"answered", "failed"})
    BY <1>5 DEF HandleLine, TypeOK, CallTypes
  <2>3. QED
    BY <1>2, <1>4, <2>1, <2>2 DEF Follows
<1>6. CASE line.type = "agent_start"
  <2>1. turnActive' = TRUE /\ pc'[p] = AfterStart(pc[p])
    BY <1>6 DEF HandleLine
  <2>2. pc'[p] \notin {"grace", "quiet"} /\ (pc[p] \in {"unsent", "rejected"} => pc'[p] = pc[p])
    BY <1>4, <2>1 DEF AfterStart
  <2>3. QED
    BY <1>2, <1>4, <2>1, <2>2 DEF Follows
<1>7. CASE line.type = "agent_settled"
  <2>1. turnActive' = FALSE /\ pc'[p] = AfterSettled(pc[p])
    BY <1>7 DEF HandleLine
  <2>2. pc'[p] # "quiet" /\ (pc[p] \in {"unsent", "rejected"} => pc'[p] = pc[p])
    BY <1>4, <2>1 DEF AfterSettled
  <2>3. p \in answering[child] => pc[p] \in Unanswered
    BY <1>1, <1>7, SettledIsTheirs
  <2>4. p \in answering[child] => pc'[p] \notin {"started", "settleAgain", "settledAgain"}
    BY <2>1, <2>3 DEF AfterSettled, Unanswered
  <2>5. QED
    BY <1>2, <1>4, <2>1, <2>2, <2>4 DEF Follows
<1>8. QED
  BY <1>1, <1>5, <1>6, <1>7, LineTypes DEF HandleLine

LEMMA FollowsSend ==
  ASSUME TypeOK, Control, CallersFollow, NEW q \in Prompts, Send(q)
  PROVE  CallersFollow'
<1>1. UNCHANGED <<process, child, chunk, turnActive, answering, stopFailed>>
  BY DEF Send, stopVars
<1>2. /\ \A p \in Prompts \ {q} : pc'[p] = pc[p] /\ worker'[p] = worker[p]
      /\ \/ child = 0 /\ pc'[q] = "rejected" /\ worker'[q] = worker[q]
         \/ child # 0 /\ pc'[q] = "asking" /\ worker'[q] = child
  BY DEF Send, TypeOK, CallTypes
<1>3. child # 0 => process[child] # "none"
  BY ChildRuns
<1> SUFFICES ASSUME NEW p \in Prompts PROVE Follows(p)'
  BY DEF CallersFollow
<1>4. Follows(p)
  BY DEF CallersFollow
<1>5. CASE p # q
  BY <1>1, <1>2, <1>4, <1>5 DEF Follows
<1>6. CASE p = q
  BY <1>1, <1>2, <1>3, <1>4, <1>6 DEF Follows
<1>7. QED
  BY <1>5, <1>6

LEMMA FollowsCall ==
  ASSUME TypeOK, TurnsAnswer, TurnIsTold, CallersFollow, NEW q \in Prompts,
         \/ RequestTimeout(q) \/ GraceEnds(q)
         \/ PromptAnswered(q) \/ PromptFailed(q) \/ WaitGoesOn(q)
  PROVE  CallersFollow'
<1>1. UNCHANGED <<process, child, chunk, turnActive, answering, worker, stopFailed>>
  BY DEF RequestTimeout, GraceEnds, PromptAnswered, PromptFailed, WaitGoesOn, workerVars, hostVars, stopVars
<1>2. pc \in [Prompts -> Places] /\ Follows(q)
  BY DEF TypeOK, CallTypes, CallersFollow
<1>3. CASE RequestTimeout(q) \/ PromptFailed(q)
  <2>1. PICK at \in {"failed", "rejected"} : pc' = [pc EXCEPT ![q] = at]
    BY <1>3 DEF RequestTimeout, PromptFailed
  <2>2. pc[q] \notin {"unsent", "rejected"}
    BY <1>3 DEF RequestTimeout, PromptFailed
  <2>3. QED
    BY <1>1, <1>2, <2>1, <2>2, FollowsMove
<1>4. CASE PromptAnswered(q)
  <2>1. PICK at \in {BeginWait, "left"} : pc' = [pc EXCEPT ![q] = at]
    BY <1>4 DEF PromptAnswered
  <2>2. at \in {"settle", "grace", "done", "left"} /\ (at = "grace" => ~turnActive)
    BY <2>1 DEF BeginWait
  <2>3. pc[q] \notin {"unsent", "rejected"}
    BY <1>4 DEF PromptAnswered
  <2>4. QED
    BY <1>1, <1>2, <2>1, <2>2, <2>3, FollowsMove
<1>5. CASE GraceEnds(q)
  <2>1. pc' = [pc EXCEPT ![q] = "quiet"] /\ pc[q] = "grace" /\ chunk = 0
    BY <1>5 DEF GraceEnds, MainIdle
  <2>2. worker[q] # 0
    BY <1>2, <2>1 DEF Follows
  <2>3. ~stopFailed /\ child = worker[q] => ~turnActive /\ q \notin answering[child]
    BY <1>2, <1>5, <2>1, <2>2, QuietIsOver DEF Follows
  <2>4. QED
    BY <1>1, <1>2, <2>1, <2>3, FollowsMove
<1>6. CASE WaitGoesOn(q)
  <2>1. PICK at \in Places :
          /\ pc' = [pc EXCEPT ![q] = at]
          /\ at \in {"settle", "grace", "done"} \/ (at = "settleAgain" /\ turnActive)
          /\ at = "grace" => ~turnActive
    BY <1>6, BeginWaitPlace DEF WaitGoesOn, BeginWait, Places, Waiting
  <2>2. pc[q] \notin {"unsent", "rejected"}
    BY <1>6 DEF WaitGoesOn
  <2>3. QED
    BY <1>1, <1>2, <2>1, <2>2, FollowsMove
<1>7. QED
  BY <1>3, <1>4, <1>5, <1>6

\* The worker that start spawns was asked nothing yet.
LEMMA FollowsSpawn ==
  ASSUME TypeOK, Control, CallersFollow, Spawn
  PROVE  CallersFollow'
<1>1. UNCHANGED <<answering, chunk, turnActive, pc, worker, stopFailed>> /\ child = 0
  BY DEF Spawn, callVars, Control, StartOrder
<1>2. PICK w \in Workers :
        /\ process[w] = "none"
        /\ \/ process' = [process EXCEPT ![w] = "running"] /\ child' = w
           \/ UNCHANGED <<process, child>>
  BY DEF Spawn, Control, StartOrder
<1>3. \A v \in Workers : process[v] # "none" => process'[v] # "none"
  BY <1>2 DEF TypeOK, WorkerTypes
<1>4. \A p \in Prompts : worker[p] # 0 => worker[p] \in Workers
  BY BoundsAssumption DEF TypeOK, CallTypes, Workers
<1>5. CASE child' = 0
  <2>1. \A p \in Prompts : worker[p] # 0 => process'[worker[p]] # "none"
    BY <1>3, <1>4 DEF CallersFollow, Follows
  <2>2. QED
    BY <1>1, <1>5, <2>1 DEF CallersFollow, Follows
<1>6. CASE child' # 0
  <2>1. child' = w
    BY <1>1, <1>2, <1>6
  <2> SUFFICES ASSUME NEW p \in Prompts PROVE Follows(p)'
    BY DEF CallersFollow
  <2>2. Follows(p)
    BY DEF CallersFollow
  <2>3. worker[p] # child'
    BY <1>2, <1>6, <2>1, <2>2 DEF Follows
  <2>4. worker[p] # 0 => process'[worker[p]] # "none"
    BY <1>3, <1>4, <2>2 DEF Follows
  <2>5. QED
    BY <1>1, <2>2, <2>3, <2>4 DEF Follows
<1>7. QED
  BY <1>5, <1>6

LEMMA FollowsSteps ==
  ASSUME TypeOK, Control, PromptsOnce, TurnsAnswer, TurnIsTold, CallersFollow, [Next]_vars
  PROVE  CallersFollow'
<1>1. ASSUME UNCHANGED <<process, child, chunk, turnActive, answering, pc, worker, stopFailed>>
      PROVE  CallersFollow'
  BY <1>1, FollowsWorker
<1>2. ASSUME NEW w \in Workers, TakePrompt(w) \/ TurnStarts(w) \/ TurnEnds(w) PROVE CallersFollow'
  <2>1. UNCHANGED <<process, child, chunk, turnActive, pc, worker, stopFailed>>
    BY <1>2 DEF TakePrompt, TurnStarts, TurnEnds, hostVars, stopVars, callVars
  <2>2. CASE TakePrompt(w)
    <3>1. pc[Head(inbox[w])] \in Unanswered
      BY <2>2, TakenIsUnanswered
    <3>2. \A v \in Workers, p \in Prompts :
            p \in answering'[v] => p \in answering[v] \/ p = Head(inbox[w])
      <4>1. answering \in [Workers -> SUBSET Prompts]
        BY DEF TypeOK, WorkerTypes
      <4>2. answering' = answering \/ answering' = [answering EXCEPT ![w] = @ \cup {Head(inbox[w])}]
        BY <2>2 DEF TakePrompt
      <4>3. QED
        BY <4>1, <4>2
    <3>3. child # 0 => child \in Workers
      BY ChildRuns
    <3>4. QED
      BY <2>1, <3>1, <3>2, <3>3, FollowsWorker
  <2>3. CASE TurnStarts(w) \/ TurnEnds(w)
    <3>1. \A v \in Workers : answering'[v] = answering[v] \/ answering'[v] = {}
      BY <2>3 DEF TurnStarts, TurnEnds, TypeOK, WorkerTypes
    <3>2. child # 0 => child \in Workers
      BY ChildRuns
    <3>3. QED
      BY <2>1, <3>1, <3>2, FollowsWorker
  <2>4. QED
    BY <1>2, <2>2, <2>3
<1>3. CASE \E k \in 1..MaxChunk : Read(k)
  <2>1. /\ UNCHANGED <<process, child, turnActive, answering, pc, worker, stopFailed>>
        /\ \A p \in Prompts : pc[p] # "quiet"
    BY <1>3 DEF Read, MainIdle, Resolved, workerVars, stopVars, callVars
  <2>2. QED
    BY <2>1 DEF CallersFollow, Follows
<1>4. ASSUME worker' = worker, chunk = 0, UNCHANGED chunk, child' = 0 \/ stopFailed',
             \A p \in Prompts : pc'[p] = pc[p] \/ pc'[p] = Released(pc[p]),
             \A v : process[v] # "none" => process'[v] # "none"
      PROVE  CallersFollow'
  <2>1. \A p \in Prompts : Released(pc[p]) \notin {"unsent", "rejected"} => pc[p] \notin {"unsent", "rejected"}
    BY DEF Released, AfterSettled
  <2>2. \A p \in Prompts : pc'[p] \notin {"unsent", "rejected"} => pc[p] \notin {"unsent", "rejected"}
    BY <1>4, <2>1
  <2>3. QED
    BY <1>4, <2>2, FollowsAlone
<1>5. ASSUME NEW w \in Workers, Ends(w) PROVE \A v : process[v] # "none" => process'[v] # "none"
  BY <1>5 DEF Ends
<1>6. CASE Start
  <2>1. CASE SharesStop
    BY <1>1, <1>6, <2>1 DEF Start, SharesStop, workerVars
  <2>2. CASE ~SharesStop
    BY <1>4, <1>6, <2>2 DEF Start, StopNow, MainIdle, workerVars
  <2>3. QED
    BY <2>1, <2>2
<1>7. CASE Stop
  BY <1>4, <1>7 DEF Stop, StopNow, MainIdle, workerVars
<1>8. CASE StopFails
  BY <1>4, <1>8 DEF StopFails, MainIdle, workerVars, callVars
<1>9. CASE StopSucceeds
  <2>1. stopping \in Workers /\ child = 0
    BY <1>9, ChildRuns DEF StopSucceeds, Control, Tracked
  <2>2. \A v : process[v] # "none" => process'[v] # "none"
    BY <1>5, <1>9, <2>1 DEF StopSucceeds
  <2>3. worker' = worker /\ chunk = 0 /\ UNCHANGED chunk /\ child' = 0 /\ \A p \in Prompts : pc'[p] = pc[p]
    BY <1>9, <2>1 DEF StopSucceeds, MainIdle, hostVars, callVars
  <2>4. QED
    BY <1>4, <2>2, <2>3
<1>10. CASE Exit
  <2>1. child \in Workers
    BY <1>10, ChildRuns DEF Exit
  <2>2. \A v : process[v] # "none" => process'[v] # "none"
    BY <1>5, <1>10, <2>1 DEF Exit
  <2>3. worker' = worker /\ chunk = 0 /\ UNCHANGED chunk /\ child' = 0 /\ \A p \in Prompts : pc'[p] = Released(pc[p])
    BY <1>10 DEF Exit, MainIdle, AfterExit
  <2>4. QED
    BY <1>4, <2>2, <2>3
<1>11. CASE TurnStartTimeout \/ DropLine
  BY <1>1, <1>11 DEF TurnStartTimeout, DropLine, workerVars, hostVars, stopVars, callVars
<1>12. CASE UNCHANGED vars
  BY <1>1, <1>12 DEF vars, workerVars, hostVars, stopVars, callVars
<1>13. QED
  BY <1>2, <1>3, <1>6, <1>7, <1>8, <1>9, <1>10, <1>11, <1>12, FollowsLine, FollowsSend, FollowsCall, FollowsSpawn
  DEF Next, Continuations

-----------------------------------------------------------------------------
LEMMA LaggingInit == Init => Lagging
<1> SUFFICES ASSUME Init PROVE Lagging
  OBVIOUS
<1>1. \A w \in Workers : inbox[w] = <<>> /\ out[w] = <<>> /\ turn[w] = "idle" /\ answering[w] = {}
  BY DEF Init
<1>2. Len(<<>>) = 0
  OBVIOUS
<1>3. NothingInOthers /\ TurnsAnswer /\ TurnIsTold
  BY <1>1 DEF Init, NothingInOthers, TurnsAnswer, TurnIsTold
<1>4. PromptsOnce
  BY <1>1, <1>2 DEF PromptsOnce, AtMostOnce
<1>5. CallersFollow
  BY DEF Init, CallersFollow, Follows
<1>6. QED
  BY <1>3, <1>4, <1>5 DEF Lagging

\* How the host and the callers lag behind the worker, in every state.
THEOREM HostLags == Spec => []Lagging
<1>1. TypeOK /\ Control /\ Lagging /\ [Next]_vars => Lagging'
  BY NothingSteps, OnceSteps, TurnsSteps, ToldSteps, FollowsSteps DEF Lagging
<1>2. QED
  BY <1>1, LaggingInit, TypeCorrect, ControlAlways, PTL DEF Spec

\* waitForIdle returns while its worker is still there, and no stop has failed,
\* only when the turn of the caller's prompt is over and none goes on: neither
\* the gap between the response and agent_start, nor the end of an earlier turn
\* told late, is taken for idle.
THEOREM IdleIsRealHolds == Spec => IdleIsReal
<1> DEFINE Real ==
      \A p \in Prompts :
        pc[p] \in {"answered", "settled", "started", "quiet", "settledAgain"} /\ pc'[p] = "done"
          /\ child' = worker[p] /\ ~stopFailed
        => ~turnActive' /\ p \notin answering'[worker[p]]
<1>1. ASSUME TypeOK, Control, Lagging, [Next]_vars PROVE Real
  <2> SUFFICES ASSUME NEW p \in Prompts,
                      pc[p] \in {"answered", "settled", "started", "quiet", "settledAgain"}, pc'[p] = "done",
                      child' = worker[p], ~stopFailed
               PROVE  ~turnActive' /\ p \notin answering'[worker[p]]
    OBVIOUS
  <2>1. PromptAnswered(p) \/ WaitGoesOn(p)
    <3>1. pc'[p] # pc[p] /\ pc'[p] # "asking" /\ pc'[p] # "rejected" /\ pc'[p] # "failed" /\ pc'[p] # "quiet"
      OBVIOUS
    <3>2. ASSUME NEW q \in Prompts,
                 \/ Send(q) \/ RequestTimeout(q) \/ GraceEnds(q)
                 \/ PromptAnswered(q) \/ PromptFailed(q) \/ WaitGoesOn(q)
          PROVE  PromptAnswered(p) \/ WaitGoesOn(p)
      <4>1. \A r \in Prompts \ {q} : pc'[r] = pc[r]
        BY <1>1, <3>2 DEF Send, RequestTimeout, GraceEnds, PromptAnswered, PromptFailed, WaitGoesOn, TypeOK, CallTypes
      <4>2. p = q
        BY <3>1, <4>1
      <4>3. QED
        BY <1>1, <3>1, <3>2, <4>2 DEF Send, RequestTimeout, GraceEnds, PromptFailed, TypeOK, CallTypes
    <3>3. AfterStart(pc[p]) # "done" /\ AfterSettled(pc[p]) # "done" /\ Released(pc[p]) # "done" /\ AfterExit(pc[p]) # "done"
      BY DEF AfterStart, AfterSettled, Released, AfterExit
    <3>4. ~HandleLine
      BY <1>1, <3>1, <3>3 DEF HandleLine, TypeOK, CallTypes
    <3>5. ~Start /\ ~Stop /\ ~Exit
      BY <3>1, <3>3 DEF Start, Stop, Exit, StopNow
    <3>6. ~StopSucceeds /\ ~StopFails /\ ~TurnStartTimeout /\ ~DropLine /\ ~Spawn /\ ~UNCHANGED vars
      BY <3>1 DEF StopSucceeds, StopFails, TurnStartTimeout, DropLine, Spawn, callVars, vars
    <3>7. ~(\E k \in 1..MaxChunk : Read(k)) /\ ~(\E w \in Workers : TakePrompt(w) \/ TurnStarts(w) \/ TurnEnds(w))
      BY <3>1 DEF Read, TakePrompt, TurnStarts, TurnEnds, callVars
    <3>8. QED
      BY <1>1, <3>2, <3>4, <3>5, <3>6, <3>7 DEF Next, Continuations
  <2>2. UNCHANGED <<child, turnActive, answering>>
    BY <2>1 DEF PromptAnswered, WaitGoesOn, workerVars, hostVars
  <2>3. Follows(p) /\ worker[p] # 0
    BY <1>1 DEF Lagging, CallersFollow, Follows
  <2>4. child # 0 /\ child = worker[p]
    BY <2>2, <2>3
  <2>5. CASE pc[p] \in {"answered", "settled"}
    <3>1. BeginWait = "done"
      BY <1>1, <2>1, <2>5 DEF PromptAnswered, WaitGoesOn, TypeOK, CallTypes
    <3>2. QED
      BY <1>1, <2>4, <3>1 DEF BeginWait, isRunning, TypeOK, FlagTypes
  <2>6. CASE pc[p] = "quiet"
    BY <2>2, <2>3, <2>4, <2>6 DEF Follows
  <2>7. CASE pc[p] \in {"started", "settledAgain"}
    <3>1. ~(turnActive /\ isRunning)
      BY <1>1, <2>1, <2>7 DEF PromptAnswered, WaitGoesOn, TypeOK, CallTypes
    <3>2. ~turnActive
      BY <2>4, <3>1 DEF isRunning
    <3>3. QED
      BY <2>2, <2>3, <2>4, <2>7, <3>2 DEF Follows
  <2>8. QED
    BY <2>5, <2>6, <2>7
<1>2. TypeOK /\ Control /\ Lagging /\ [Next]_vars => [Real]_vars
  BY <1>1
<1>3. QED
  BY <1>2, HostLags, TypeCorrect, ControlAlways, PTL DEF Spec, IdleIsReal
=============================================================================
