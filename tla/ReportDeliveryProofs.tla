-------------------------- MODULE ReportDeliveryProofs --------------------------
(***************************************************************************)
(* What TLAPS proves of ReportDelivery, for every number of delegations,   *)
(* runs, calls, messages and stops, and whether or not messages are read   *)
(* together with a response.                                               *)
(***************************************************************************)
EXTENDS ReportDelivery, FiniteSetTheorems, TLAPS

Messages == Events \cup Responses

\* Nothing of d has reached the parent or was withdrawn.
Unheard(d) == \A k \in 1..MaxRuns : <<d, k>> \notin told /\ <<d, k>> \notin waived /\ sent[<<d, k>>] = 0

\* What waits to be notified is a background delegation nothing was heard of.
Held ==
  /\ \A d \in Ids : delivery.pending[d] # 0 => d \in delivery.background
  /\ \A d \in delivery.background : status[d] # "none" /\ Unheard(d)

\* The entries: a stop is about one that runs.
Entered ==
  \A d \in Ids : /\ status[d] = "none" => run[d] = 0 /\ Unheard(d)
                 /\ status[d] # "none" => run[d] # 0
                 /\ d \in stopping => status[d] = "running"

\* No response is under way.
NoResponse == answer = NoAnswer /\ \A i \in 1..Len(inbox) : inbox[i].type = "event"

\* A tool has one request or one response at a time.
OneAtATime ==
  /\ request # NoRequest \/ call = NoCall => NoResponse
  /\ call.op = "none" => request = NoRequest /\ call = NoCall
  /\ answer # NoAnswer => \A i \in 1..Len(inbox) : inbox[i].type = "event"
  /\ \A i, j \in 1..Len(inbox) : inbox[i].type = "response" /\ inbox[j].type = "response" => i = j

\* What a tool asks for: delegate starts, then waits for what it has started.
Asked ==
  /\ \A d \in request.ids : request.action # "start" => status[d] # "none"
  /\ call.op \in {"delegate", "background"} => \A d \in call.ids : status[d] # "none"
  /\ call.op = "background" => request.action \in {"none", "start"}
  /\ call.op = "delegate" =>
       /\ request.action \in {"none", "start", "wait"}
       /\ request.action = "wait" => request.ids = call.ids /\ call.ids # {}
       /\ call.ids \cap delivery.background = {}

\* A response is about entries; delegate learns of none that is in the background.
Sound(m) ==
  /\ \A d \in DOMAIN m.result : status[d] # "none"
  /\ call.op = "background" => \A d \in DOMAIN m.result : d \notin delivery.background /\ Unheard(d)
  /\ call.op = "delegate" => \A d \in DOMAIN m.result : d \notin delivery.background
  /\ call.op \in {"delegate", "background"} /\ m.ok => DOMAIN m.result # {}

Answered ==
  /\ answer.type = "response" => Sound(answer)
  /\ \A i \in 1..Len(inbox) : inbox[i].type = "response" => Sound(inbox[i])

Inductive == TypeOK /\ Held /\ Entered /\ OneAtATime /\ Asked /\ Answered

-----------------------------------------------------------------------------
\* Events and responses differ.
LEMMA MessageTypes ==
  /\ \A m \in Events : m.type = "event"
  /\ \A m \in Responses : m.type = "response" /\ m.ok \in BOOLEAN /\ m.result \in Results
                          /\ DOMAIN m.result \subseteq Ids
  /\ \A m \in Messages : m.type \in {"event", "response"}
  <1>1. \A r \in Results : DOMAIN r \subseteq Ids
    BY DEF Results
  <1> QED BY <1>1 DEF Events, Responses, Messages

\* What a queue holds after a message was appended.
LEMMA Appended ==
  ASSUME NEW q \in Seq(Messages), NEW m \in Messages
  PROVE  /\ Append(q, m) \in Seq(Messages) /\ Len(Append(q, m)) = Len(q) + 1
         /\ \A i \in 1..Len(q) : Append(q, m)[i] = q[i]
         /\ Append(q, m)[Len(q) + 1] = m
  OBVIOUS

LEMMA AppendedTwo ==
  ASSUME NEW q \in Seq(Messages), NEW e \in Messages, NEW m \in Messages
  PROVE  q \o <<e, m>> = Append(Append(q, e), m)
  OBVIOUS

\* A message that was read has left the queue.
LEMMA Read ==
  ASSUME NEW q \in Seq(Messages), q # <<>>
  PROVE  /\ Head(q) \in Messages /\ Head(q) = q[1] /\ Len(q) \in Nat \ {0}
         /\ Tail(q) \in Seq(Messages) /\ Len(Tail(q)) = Len(q) - 1
         /\ \A i \in 1..(Len(q) - 1) : Tail(q)[i] = q[i + 1]
  OBVIOUS

LEMMA RunResult ==
  ASSUME NEW d \in Ids, NEW k \in 1..MaxRuns, NEW st \in {"running"} \cup Terminal
  PROVE  /\ Ok([e \in {d} |-> [run |-> k, status |-> st]]) \in Responses
         /\ DOMAIN Ok([e \in {d} |-> [run |-> k, status |-> st]]).result = {d}
  <1> DEFINE f == [e \in {d} |-> [run |-> k, status |-> st]]
  <1>1. f \in [{d} -> [run : 1..MaxRuns, status : {"running"} \cup Terminal]] /\ DOMAIN f = {d}
    OBVIOUS
  <1>2. f \in Results
    BY <1>1 DEF Results
  <1> HIDE DEF f
  <1>3. Ok(f) \in Responses /\ DOMAIN Ok(f).result = {d}
    BY <1>1, <1>2 DEF Ok, Responses
  <1> QED BY <1>3 DEF f

LEMMA ResultTypes ==
  /\ \A ids \in SUBSET Ids : (\A d \in ids : run[d] \in 1..MaxRuns /\ status[d] \in {"running"} \cup Terminal)
       => Ok(Snapshot(ids)) \in Responses /\ DOMAIN Ok(Snapshot(ids)).result = ids /\ Ok(Snapshot(ids)).ok
  /\ Error \in Responses /\ DOMAIN Error.result = {} /\ ~Error.ok
  /\ \A d \in Ids, k \in 1..MaxRuns, st \in Terminal : Event(d, k, st) \in Events
  <1>1. ASSUME NEW ids \in SUBSET Ids, \A d \in ids : run[d] \in 1..MaxRuns /\ status[d] \in {"running"} \cup Terminal
        PROVE  Ok(Snapshot(ids)) \in Responses /\ DOMAIN Ok(Snapshot(ids)).result = ids /\ Ok(Snapshot(ids)).ok
    <2>1. Snapshot(ids) \in [ids -> [run : 1..MaxRuns, status : {"running"} \cup Terminal]]
      BY <1>1 DEF Snapshot
    <2>2. Snapshot(ids) \in Results /\ DOMAIN Snapshot(ids) = ids
      BY <2>1 DEF Results
    <2> QED BY <2>2 DEF Ok, Responses
  <1>3. Error \in Responses /\ DOMAIN Error.result = {} /\ ~Error.ok
    <2>1. NoResult \in [{} -> [run : 1..MaxRuns, status : {"running"} \cup Terminal]] /\ DOMAIN NoResult = {}
      BY DEF NoResult
    <2>2. NoResult \in Results
      BY <2>1 DEF Results
    <2> QED BY <2>1, <2>2 DEF Error, Responses
  <1>4. \A d \in Ids, k \in 1..MaxRuns, st \in Terminal : Event(d, k, st) \in Events
    BY DEF Event, Events
  <1> QED BY <1>1, <1>3, <1>4

-----------------------------------------------------------------------------
LEMMA InitInductive == Init => Inductive
  <1> SUFFICES ASSUME Init PROVE Inductive
    OBVIOUS
  <1> USE BoundsAssumption
  <1>0. MaxTasks \in Nat
    BY IdsAssumption, FS_CardinalityType DEF MaxTasks
  <1>1. TypeOK
    <2>1. delivery \in [background : SUBSET Ids, pending : [Ids -> 0..MaxRuns], timer : BOOLEAN]
      BY DEF Init
    <2>2. inbox \in Seq(Events \cup Responses) /\ answer \in Responses \cup {NoAnswer}
      BY DEF Init
    <2>3. call \in [op : Tools \cup {"none"}, ids : SUBSET Ids, left : 0..MaxTasks] /\ reserved \in SUBSET Ids
      BY <1>0 DEF Init, NoCall
    <2>4. request \in [action : {"none", "start", "wait", "stop", "stopping", "continue", "continuing"}, ids : SUBSET Ids]
      BY DEF Init, NoRequest
    <2>5. told \in SUBSET Reports /\ waived \in SUBSET Reports /\ sent \in [Reports -> 0..2] /\ overlooked \in SUBSET Ids
      BY DEF Init
    <2>6. inputs \in 0..MaxInputs /\ calls \in 0..MaxCalls /\ aborts \in 0..MaxAborts
      BY DEF Init
    <2>7. {suspended, idleTimer, aborting, paused, started, abortLine} \subseteq BOOLEAN
      BY DEF Init
    <2> QED BY <2>1, <2>2, <2>3, <2>4, <2>5, <2>6, <2>7 DEF Init, TypeOK
  <1>2. Held /\ Entered
    BY DEF Init, Held, Entered, Unheard, Reports
  <1>3. OneAtATime /\ Asked /\ Answered
    BY DEF Init, OneAtATime, Asked, Answered, NoResponse, NoCall, NoRequest, NoAnswer
  <1> QED BY <1>1, <1>2, <1>3 DEF Inductive

\* The buffer of the reports.
Buffers == [background : SUBSET Ids, pending : [Ids -> 0..MaxRuns], timer : BOOLEAN]

LEMMA Acknowledged ==
  ASSUME NEW D \in Buffers, NEW ids \in SUBSET Ids
  PROVE  /\ acknowledge(D, ids) \in Buffers
         /\ acknowledge(D, ids).background = D.background \ ids
         /\ \A d \in Ids : acknowledge(D, ids).pending[d] = IF d \in ids THEN 0 ELSE D.pending[d]
  <1> DEFINE P == [d \in Ids |-> IF d \in ids THEN 0 ELSE D.pending[d]]
  <1>1. D \in [background : SUBSET Ids, pending : [Ids -> 0..MaxRuns], timer : BOOLEAN]
    BY DEF Buffers
  <1>2. P \in [Ids -> 0..MaxRuns] /\ \A d \in Ids : P[d] = IF d \in ids THEN 0 ELSE D.pending[d]
    BY <1>1, BoundsAssumption
  <1>3. acknowledge(D, ids) = [[D EXCEPT !.background = @ \ ids] EXCEPT !.pending = P]
    BY DEF acknowledge
  <1> HIDE DEF P
  <1>4. acknowledge(D, ids) = [background |-> D.background \ ids, pending |-> P, timer |-> D.timer]
    BY <1>1, <1>3
  <1> QED BY <1>1, <1>2, <1>4 DEF Buffers

LEMMA Scheduled ==
  ASSUME NEW D \in Buffers
  PROVE  /\ scheduleDelivery(D) \in Buffers
         /\ scheduleDelivery(D).background = D.background /\ scheduleDelivery(D).pending = D.pending
  BY DEF scheduleDelivery, Buffers

LEMMA Cancelled ==
  /\ cancelDelivery(delivery) \in Buffers /\ cancelDelivery(delivery).background = {}
  /\ \A d \in Ids : cancelDelivery(delivery).pending[d] = 0
  BY BoundsAssumption DEF cancelDelivery, Buffers

\* The end of a run takes its delegation out of the buffer, or makes it wait there.
LEMMA Queued ==
  ASSUME NEW D \in Buffers, NEW d \in Ids, NEW r \in 1..MaxRuns, NEW st, suspended \in BOOLEAN
  PROVE  LET Q == queueReport(D, d, r, st) IN
           /\ Q \in Buffers /\ Q.background \subseteq D.background
           /\ (\A e \in Ids : D.pending[e] # 0 => e \in D.background)
                => \A e \in Ids : Q.pending[e] # 0 => e \in Q.background
  <1> DEFINE W == [D EXCEPT !.pending[d] = r]
  <1>0. D \in [background : SUBSET Ids, pending : [Ids -> 0..MaxRuns], timer : BOOLEAN]
    BY DEF Buffers
  <1>1. W \in Buffers /\ W.background = D.background /\ \A e \in Ids : W.pending[e] = IF e = d THEN r ELSE D.pending[e]
    BY <1>0, BoundsAssumption DEF Buffers
  <1> HIDE DEF W
  <1>2. scheduleDelivery(W) \in Buffers /\ scheduleDelivery(W).background = D.background
        /\ scheduleDelivery(W).pending = W.pending
    BY <1>1, Scheduled
  <1>3. acknowledge(D, {d}) \in Buffers /\ acknowledge(D, {d}).background = D.background \ {d}
        /\ \A e \in Ids : acknowledge(D, {d}).pending[e] = IF e = d THEN 0 ELSE D.pending[e]
    <2>1. {d} \in SUBSET Ids
      OBVIOUS
    <2> QED BY <2>1, Acknowledged
  <1>4. queueReport(D, d, r, st) \in {D, acknowledge(D, {d}), scheduleDelivery(W)}
        /\ (queueReport(D, d, r, st) = scheduleDelivery(W) => d \in D.background \/ queueReport(D, d, r, st) \in {D, acknowledge(D, {d})})
    BY DEF queueReport, W
  <1> QED BY <1>1, <1>2, <1>3, <1>4

-----------------------------------------------------------------------------
\* A step that leaves the bridge, the entries and the history alone keeps the
\* invariant when the buffer loses no more than delegations.
LEMMA Frame ==
  ASSUME Inductive,
         UNCHANGED <<call, answer, request, inbox, status, run, stopping>>,
         told' = told, waived' = waived,
         \A d \in Ids : delivery'.pending[d] # 0 => d \in delivery'.background,
         delivery'.background \subseteq delivery.background,
         \A d \in delivery'.background : \A k \in 1..MaxRuns : sent'[<<d, k>>] = sent[<<d, k>>],
         \A d \in Ids : d \notin delivery.background => \A k \in 1..MaxRuns : sent'[<<d, k>>] = sent[<<d, k>>]
  PROVE  Held' /\ Entered' /\ OneAtATime' /\ Asked' /\ Answered'
  <1> USE DEF Inductive
  <1>0. delivery.background \subseteq Ids
    BY DEF TypeOK
  <1>1. Held'
    BY <1>0 DEF Held, Unheard
  <1>2. Entered'
    BY <1>0 DEF Entered, Held, Unheard
  <1>3. OneAtATime'
    BY DEF OneAtATime, NoResponse
  <1>4. Asked'
    BY DEF Asked
  <1>5. Answered'
    <2>0. \A m \in Responses : DOMAIN m.result \subseteq Ids
      BY MessageTypes
    <2>1. answer.type = "response" => answer \in Responses
      BY DEF TypeOK, NoAnswer
    <2>2. ASSUME NEW i \in 1..Len(inbox), inbox[i].type = "response" PROVE inbox[i] \in Responses
      BY <2>2, MessageTypes DEF TypeOK
    <2>3. ASSUME NEW m \in Responses, Sound(m) PROVE Sound(m)'
      BY <2>0, <2>3 DEF Sound, Unheard
    <2> QED BY <2>1, <2>2, <2>3 DEF Answered
  <1> QED BY <1>1, <1>2, <1>3, <1>4, <1>5

\* What a step of no tool leaves: the calls and the requests.
LEMMA TypeFrame ==
  ASSUME TypeOK, UNCHANGED <<call, answer, request>>,
         delivery' \in Buffers, reserved' \in SUBSET Ids,
         {suspended', idleTimer', aborting', paused', started', abortLine'} \subseteq BOOLEAN,
         phase' \in {"idle", "run", "closing"}, queued' \in {"none", "user", "report"},
         inbox' \in Seq(Events \cup Responses),
         status' \in [Ids -> {"none", "running"} \cup Terminal],
         run' \in [Ids -> 0..MaxRuns], stopping' \in SUBSET Ids,
         inputs' \in 0..MaxInputs, calls' \in 0..MaxCalls, aborts' \in 0..MaxAborts,
         told' \in SUBSET Reports, waived' \in SUBSET Reports,
         sent' \in [Reports -> 0..2], overlooked' \in SUBSET Ids
  PROVE  TypeOK'
  BY DEF TypeOK, Buffers

\* The types of the variables, each where a step needs it.
LEMMA Types ==
  ASSUME TypeOK
  PROVE  /\ delivery \in Buffers /\ reserved \in SUBSET Ids
         /\ {suspended, idleTimer, aborting, paused, started, abortLine} \subseteq BOOLEAN
         /\ phase \in {"idle", "run", "closing"} /\ queued \in {"none", "user", "report"}
         /\ inbox \in Seq(Events \cup Responses) /\ inbox \in Seq(Messages)
         /\ status \in [Ids -> {"none", "running"} \cup Terminal]
         /\ run \in [Ids -> 0..MaxRuns] /\ stopping \in SUBSET Ids
         /\ inputs \in 0..MaxInputs /\ calls \in 0..MaxCalls /\ aborts \in 0..MaxAborts
         /\ told \in SUBSET Reports /\ waived \in SUBSET Reports
         /\ sent \in [Reports -> 0..2] /\ overlooked \in SUBSET Ids
         /\ call \in [op : Tools \cup {"none"}, ids : SUBSET Ids, left : 0..MaxTasks]
         /\ answer \in Responses \cup {NoAnswer}
         /\ request \in [action : {"none", "start", "wait", "stop", "stopping", "continue", "continuing"}, ids : SUBSET Ids]
  BY DEF TypeOK, Buffers, Messages

\* Steps of the user, of Pi and of the timers.
LEMMA QuietStep ==
  ASSUME Inductive,
         input \/ agent_start \/ becomesIdle \/ notifyWhenIdle \/ abortTurn \/ resumeParent
  PROVE  Inductive'
  <1> USE BoundsAssumption
  <1>0. TypeOK /\ Held
    BY DEF Inductive
  <1>1. delivery' \in Buffers /\ delivery'.background = delivery.background /\ delivery'.pending = delivery.pending
    BY <1>0, Types, Scheduled DEF input, agent_start, becomesIdle, notifyWhenIdle, abortTurn, resumeParent, worker
  <1>2. UNCHANGED <<reserved, call, answer, request, inbox, status, run, stopping, told, waived, sent, overlooked, calls, aborts>>
    BY DEF input, agent_start, becomesIdle, notifyWhenIdle, abortTurn, resumeParent, worker, pi, main, counts, history
  <1>3. {suspended', idleTimer', aborting', paused', started', abortLine'} \subseteq BOOLEAN
    <2>1. {suspended, idleTimer, aborting, paused, started, abortLine} \subseteq BOOLEAN /\ (phase = "run") \in BOOLEAN
      BY <1>0, Types
    <2> QED BY <2>1, Zenon DEF input, agent_start, becomesIdle, notifyWhenIdle, abortTurn, resumeParent,
                             worker, pi, main, counts, history
  <1>7. phase' \in {"idle", "run", "closing"} /\ queued' \in {"none", "user", "report"} /\ inputs' \in 0..MaxInputs
    BY <1>0, Types DEF input, agent_start, becomesIdle, notifyWhenIdle, abortTurn, resumeParent, worker, pi, main, counts, history
  <1>4. TypeOK'
    BY <1>0, <1>1, <1>2, <1>3, <1>7, Types, TypeFrame
  <1>5. \A d \in Ids : delivery'.pending[d] # 0 => d \in delivery'.background
    BY <1>0, <1>1 DEF Held
  <1>6. Held' /\ Entered' /\ OneAtATime' /\ Asked' /\ Answered'
    BY <1>1, <1>2, <1>5, Frame
  <1> QED BY <1>4, <1>6 DEF Inductive

\* The timer of the delivery sends what nothing was heard of.
LEMMA DeliverStep ==
  ASSUME Inductive, deliver
  PROVE  Inductive' /\ \A r \in Reports : sent'[r] > sent[r] => sent[r] = 0 /\ r \notin told /\ r \notin waived
  <1> DEFINE due == {d \in Ids : delivery.pending[d] # 0} \ reserved
             off == [delivery EXCEPT !.timer = FALSE]
  <1>0. TypeOK /\ Held
    BY DEF Inductive
  <1>1. UNCHANGED <<reserved, suspended, idleTimer, call, answer, phase, aborting, request, inbox, told, waived, overlooked,
                    status, run, stopping, paused, started, abortLine, inputs, calls, aborts>>
    BY DEF deliver, main, counts
  <1>2. off \in Buffers /\ off.background = delivery.background /\ off.pending = delivery.pending
    BY <1>0, Types DEF Buffers
  <1>3. due \in SUBSET Ids /\ due \subseteq delivery.background
    BY <1>0 DEF Held
  <1>4. delivery' \in {off, acknowledge(off, due)}
    BY DEF deliver
  <1>5. queued' \in {"none", "user", "report"}
    BY <1>0, Types DEF deliver
  <1>8. sent' = sent \/ ( /\ delivery' = acknowledge(off, due)
                         /\ sent' = [r \in Reports |->
                              IF r[1] \in due /\ r[2] = delivery.pending[r[1]] /\ sent[r] < 2
                              THEN sent[r] + 1 ELSE sent[r]])
    BY DEF deliver
  <1> HIDE DEF off, due
  <1>9. acknowledge(off, due) \in Buffers /\ acknowledge(off, due).background = delivery.background \ due
        /\ \A d \in Ids : acknowledge(off, due).pending[d] = IF d \in due THEN 0 ELSE delivery.pending[d]
    BY <1>2, <1>3, Acknowledged
  <1>6. CASE sent' = sent
    <2>1. delivery' \in Buffers /\ delivery'.background \subseteq delivery.background
          /\ \A d \in Ids : delivery'.pending[d] # 0 => d \in delivery'.background
      BY <1>0, <1>2, <1>4, <1>9 DEF Held
    <2>2. TypeOK'
      BY <1>0, <1>1, <1>5, <1>6, <2>1, Types, TypeFrame
    <2>3. Held' /\ Entered' /\ OneAtATime' /\ Asked' /\ Answered'
      BY <1>1, <1>6, <2>1, Frame
    <2>4. \A r \in Reports : sent[r] \in 0..2
      BY <1>0, Types
    <2> QED BY <1>6, <2>2, <2>3, <2>4 DEF Inductive
  <1>7. CASE sent' # sent
    <2>1. delivery' = acknowledge(off, due)
          /\ sent' = [r \in Reports |->
                        IF r[1] \in due /\ r[2] = delivery.pending[r[1]] /\ sent[r] < 2
                        THEN sent[r] + 1 ELSE sent[r]]
      BY <1>7, <1>8
    <2>2. delivery' \in Buffers /\ delivery'.background = delivery.background \ due
          /\ \A d \in Ids : delivery'.pending[d] = IF d \in due THEN 0 ELSE delivery.pending[d]
      BY <1>9, <2>1
    <2>3. \A d \in Ids : delivery'.pending[d] # 0 => d \in delivery'.background
      BY <1>0, <2>2 DEF Held
    <2>4. sent \in [Reports -> 0..2] /\ sent' \in [Reports -> 0..2]
      BY <1>0, <2>1, Types
    <2>5. \A d \in Ids, k \in 1..MaxRuns : <<d, k>> \in Reports /\ (d \notin due => sent'[<<d, k>>] = sent[<<d, k>>])
      BY <2>1 DEF Reports
    <2>6. TypeOK'
      BY <1>0, <1>1, <1>5, <2>2, <2>4, Types, TypeFrame
    <2>7. Held' /\ Entered' /\ OneAtATime' /\ Asked' /\ Answered'
      <3>1. delivery'.background \subseteq delivery.background
        BY <2>2
      <3>2. \A d \in delivery'.background : \A k \in 1..MaxRuns : sent'[<<d, k>>] = sent[<<d, k>>]
        BY <1>0, <2>2, <2>5, Types DEF Buffers
      <3>3. \A d \in Ids : d \notin delivery.background => \A k \in 1..MaxRuns : sent'[<<d, k>>] = sent[<<d, k>>]
        BY <1>3, <2>5
      <3> QED BY <1>1, <2>3, <3>1, <3>2, <3>3, Frame
    <2>8. ASSUME NEW r \in Reports, sent'[r] > sent[r]
          PROVE  sent[r] = 0 /\ r \notin told /\ r \notin waived
      <3>1. r[1] \in Ids /\ r[2] \in 1..MaxRuns /\ r = <<r[1], r[2]>>
        BY DEF Reports
      <3>2. r[1] \in due
        BY <2>1, <2>4, <2>8
      <3>3. Unheard(r[1])
        BY <1>0, <1>3, <3>2 DEF Held
      <3> QED BY <3>1, <3>3 DEF Unheard
    <2> QED BY <2>6, <2>7, <2>8 DEF Inductive
  <1> QED BY <1>6, <1>7

-----------------------------------------------------------------------------
\* When a turn ends no tool runs; a stopped turn withdraws what there is.
LEMMA TurnEnds ==
  ASSUME Inductive, agent_end
  PROVE  Inductive'
  <1>0. TypeOK /\ Held /\ OneAtATime /\ Entered
    BY DEF Inductive
  <1>1. UNCHANGED <<reserved, call, answer, queued, request, inbox, status, run, stopping, paused, started, abortLine,
                    inputs, calls, aborts, told, sent, overlooked>> /\ call = NoCall
    BY DEF agent_end, main, counts
  <1>2. \/ delivery' = delivery /\ waived' = waived /\ suspended' = suspended
        \/ /\ delivery' = cancelDelivery(delivery) /\ suspended' = TRUE
           /\ waived' = waived \cup {r \in Reports : r[2] <= run[r[1]]}
    BY DEF agent_end
  <1>3. delivery' \in Buffers /\ waived' \in SUBSET Reports
    BY <1>0, <1>2, Types, Cancelled
  <1>4. {suspended', idleTimer', aborting', paused', started', abortLine'} \subseteq BOOLEAN
        /\ phase' \in {"idle", "run", "closing"}
    BY <1>0, <1>1, <1>2, Types DEF agent_end
  <1>5. TypeOK'
    BY <1>0, <1>1, <1>3, <1>4, Types, TypeFrame
  <1>6. Held'
    BY <1>0, <1>1, <1>2, Cancelled DEF Held, Unheard
  <1>7. Entered'
    <2>1. run \in [Ids -> 0..MaxRuns]
      BY <1>0, Types
    <2>2. ASSUME NEW d \in Ids, status[d] = "none", NEW k \in 1..MaxRuns PROVE <<d, k>> \notin waived'
      BY <1>0, <1>2, <2>1, <2>2, BoundsAssumption DEF Entered, Unheard
    <2> QED BY <1>0, <1>1, <2>2 DEF Entered, Unheard
  <1>8. NoResponse /\ request = NoRequest
    BY <1>0, <1>1 DEF OneAtATime, NoCall
  <1>9. OneAtATime' /\ Asked' /\ Answered'
    BY <1>0, <1>1, <1>8 DEF Inductive, OneAtATime, NoResponse, Asked, Answered, NoCall, NoRequest, NoAnswer
  <1> QED BY <1>5, <1>6, <1>7, <1>9 DEF Inductive

-----------------------------------------------------------------------------
\* What was sound stays so when entries are only added.
LEMMA SoundStays ==
  ASSUME NEW m \in Responses, Sound(m),
         call'.op = call.op, delivery'.background \subseteq delivery.background,
         told' = told, waived' = waived, sent' = sent,
         \A d \in Ids : status[d] # "none" => status'[d] # "none"
  PROVE  Sound(m)'
  <1>1. DOMAIN m.result \subseteq Ids
    BY MessageTypes
  <1> QED BY <1>1 DEF Sound, Unheard

\* The responses of the invariant are responses.
LEMMA Carried ==
  ASSUME TypeOK
  PROVE  /\ answer.type = "response" => answer \in Responses
         /\ \A i \in 1..Len(inbox) : inbox[i] \in Messages
                /\ (inbox[i].type = "response" => inbox[i] \in Responses)
         /\ answer # NoAnswer => answer.type = "response"
  <1>1. answer.type = "response" => answer \in Responses
    BY DEF TypeOK, NoAnswer
  <1>2. \A i \in 1..Len(inbox) : inbox[i] \in Messages
    BY DEF TypeOK, Messages
  <1>3. answer # NoAnswer => answer.type = "response"
    BY MessageTypes DEF TypeOK
  <1> QED BY <1>1, <1>2, <1>3, MessageTypes DEF Messages

\* What the coordinator may do to its entries.
EntriesMove ==
  /\ status' \in [Ids -> {"none", "running"} \cup Terminal] /\ run' \in [Ids -> 0..MaxRuns]
  /\ stopping' \in SUBSET Ids
  /\ \A d \in Ids : /\ status[d] # "none" => status'[d] # "none"
                    /\ status'[d] = "none" => run'[d] = 0
                    /\ status'[d] # "none" => run'[d] # 0
                    /\ d \in stopping' => status'[d] = "running"

\* A step of the coordinator that answers nothing; it may publish an event.
LEMMA PublishStep ==
  ASSUME Inductive, EntriesMove,
         UNCHANGED <<worker, pi, history, inputs, calls>>,
         aborts' \in 0..MaxAborts, {paused', started', abortLine'} \subseteq BOOLEAN,
         request' = request \/ (request # NoRequest /\ request'.ids = request.ids
                                /\ <<request.action, request'.action>> \in {<<"stop", "stopping">>, <<"continue", "continuing">>}),
         request' \in [action : {"none", "start", "wait", "stop", "stopping", "continue", "continuing"}, ids : SUBSET Ids],
         inbox' = inbox \/ \E e \in Events : inbox' = Append(inbox, e)
  PROVE  Inductive'
  <1>0. TypeOK /\ Held /\ Entered /\ OneAtATime /\ Asked /\ Answered
    BY DEF Inductive
  <1>1. UNCHANGED <<delivery, reserved, suspended, idleTimer, call, answer, phase, queued, aborting, told, sent, waived, overlooked>>
    BY DEF worker, pi, history
  <1>2. /\ inbox' \in Seq(Messages) /\ Len(inbox') >= Len(inbox)
        /\ \A i \in 1..Len(inbox) : inbox'[i] = inbox[i]
        /\ \A i \in 1..Len(inbox') : i \in 1..Len(inbox) \/ inbox'[i].type = "event"
    <2>1. inbox \in Seq(Messages) /\ Len(inbox) \in Nat
      BY <1>0, Types
    <2>2. CASE inbox' = inbox
      BY <2>1, <2>2
    <2>3. ASSUME NEW e \in Events, inbox' = Append(inbox, e)
          PROVE  /\ inbox' \in Seq(Messages) /\ Len(inbox') >= Len(inbox)
                 /\ \A i \in 1..Len(inbox) : inbox'[i] = inbox[i]
                 /\ \A i \in 1..Len(inbox') : i \in 1..Len(inbox) \/ inbox'[i].type = "event"
      <3>1. e \in Messages /\ e.type = "event"
        BY MessageTypes DEF Messages
      <3>2. /\ inbox' \in Seq(Messages) /\ Len(inbox') = Len(inbox) + 1
            /\ \A i \in 1..Len(inbox) : inbox'[i] = inbox[i]
            /\ inbox'[Len(inbox) + 1] = e
        BY <2>1, <2>3, <3>1, Appended
      <3> QED BY <2>1, <3>1, <3>2
    <2> QED BY <2>2, <2>3
  <1>3. TypeOK'
    <2>1. call.op = "none" => request' = NoRequest /\ answer' = NoAnswer
      BY <1>0, <1>1 DEF OneAtATime, NoResponse
    <2>2. inbox' \in Seq(Events \cup Responses)
      BY <1>2 DEF Messages
    <2>3. {suspended', idleTimer', aborting'} \subseteq BOOLEAN
      BY <1>0, <1>1, Types
    <2> QED BY <1>0, <1>1, <2>1, <2>2, <2>3 DEF TypeOK, EntriesMove
  <1>4. Held' /\ Entered'
    BY <1>0, <1>1, Types DEF Held, Entered, Unheard, EntriesMove, Buffers
  <1>5. OneAtATime'
    <2>1. NoResponse => NoResponse'
      BY <1>1, <1>2 DEF NoResponse
    <2>2. request' # NoRequest => request # NoRequest
      OBVIOUS
    <2>3. inbox \in Seq(Messages) /\ Len(inbox) \in Nat /\ Len(inbox') \in Nat
      BY <1>0, <1>2, Types
    <2> QED BY <1>0, <1>1, <1>2, <2>1, <2>2, <2>3 DEF OneAtATime
  <1>6. Asked'
    <2>1. request'.ids = request.ids /\ request.ids \in SUBSET Ids /\ call.ids \in SUBSET Ids
      BY <1>0, Types
    <2>2. request'.action = request.action \/ (request.action \in {"stop", "continue"} /\ request'.action \in {"stopping", "continuing"})
      OBVIOUS
    <2> QED BY <1>0, <1>1, <2>1, <2>2 DEF Asked, EntriesMove
  <1>7. Answered'
    BY <1>0, <1>1, <1>2, SoundStays, Carried DEF Answered, EntriesMove
  <1> QED BY <1>3, <1>4, <1>5, <1>6, <1>7 DEF Inductive

\* A step of the coordinator that answers the request, after an event or without.
LEMMA ReplyStep ==
  ASSUME Inductive, EntriesMove,
         UNCHANGED <<worker, pi, history, counts, paused, started, abortLine>>,
         request # NoRequest, request' = NoRequest,
         NEW m \in Responses, Sound(m)',
         inbox' = Append(inbox, m) \/ \E e \in Events : inbox' = inbox \o <<e, m>>
  PROVE  Inductive'
  <1>0. TypeOK /\ Held /\ Entered /\ OneAtATime /\ Asked /\ Answered
    BY DEF Inductive
  <1>1. UNCHANGED <<delivery, reserved, suspended, idleTimer, call, answer, phase, queued, aborting, told, sent, waived, overlooked,
                    inputs, calls, aborts, paused, started, abortLine>>
    BY DEF worker, pi, history, counts
  <1>2. inbox \in Seq(Messages) /\ Len(inbox) \in Nat /\ m \in Messages /\ m.type = "response"
    BY <1>0, Types, MessageTypes DEF Messages
  <1>3. /\ inbox' \in Seq(Messages) /\ Len(inbox') \in Nat /\ Len(inbox') > Len(inbox)
        /\ \A i \in 1..Len(inbox) : inbox'[i] = inbox[i]
        /\ \A i \in 1..Len(inbox') : i \in 1..Len(inbox) \/ inbox'[i].type = "event" \/ (i = Len(inbox') /\ inbox'[i] = m)
    <2>1. CASE inbox' = Append(inbox, m)
      BY <1>2, <2>1, Appended
    <2>2. ASSUME NEW e \in Events, inbox' = inbox \o <<e, m>>
          PROVE  /\ inbox' \in Seq(Messages) /\ Len(inbox') \in Nat /\ Len(inbox') > Len(inbox)
                 /\ \A i \in 1..Len(inbox) : inbox'[i] = inbox[i]
                 /\ \A i \in 1..Len(inbox') : i \in 1..Len(inbox) \/ inbox'[i].type = "event" \/ (i = Len(inbox') /\ inbox'[i] = m)
      <3> DEFINE q == Append(inbox, e)
      <3>1. e \in Messages /\ e.type = "event"
        BY MessageTypes DEF Messages
      <3>2. /\ q \in Seq(Messages) /\ Len(q) = Len(inbox) + 1
            /\ \A i \in 1..Len(inbox) : q[i] = inbox[i]
            /\ q[Len(inbox) + 1] = e
        BY <1>2, <3>1, Appended
      <3>3. inbox' = Append(q, m)
        BY <1>2, <2>2, <3>1, AppendedTwo
      <3> HIDE DEF q
      <3>4. /\ inbox' \in Seq(Messages) /\ Len(inbox') = Len(q) + 1
            /\ \A i \in 1..Len(q) : inbox'[i] = q[i]
            /\ inbox'[Len(q) + 1] = m
        BY <1>2, <3>2, <3>3, Appended
      <3> QED BY <1>2, <3>1, <3>2, <3>4
    <2> QED BY <2>1, <2>2
  <1>4. NoResponse
    BY <1>0 DEF OneAtATime
  <1>5. TypeOK'
    <2>1. call.op # "none" /\ answer' = NoAnswer
      BY <1>0, <1>1, <1>4 DEF OneAtATime, NoResponse
    <2>2. inbox' \in Seq(Events \cup Responses)
      BY <1>3 DEF Messages
    <2>3. request' \in [action : {"none", "start", "wait", "stop", "stopping", "continue", "continuing"}, ids : SUBSET Ids]
      BY DEF NoRequest
    <2> QED BY <1>0, <1>1, <2>1, <2>2, <2>3 DEF TypeOK, EntriesMove
  <1>6. Held' /\ Entered'
    BY <1>0, <1>1, Types DEF Held, Entered, Unheard, EntriesMove, Buffers
  <1>7. OneAtATime'
    BY SMTT(30), <1>0, <1>1, <1>2, <1>3, <1>4 DEF OneAtATime, NoResponse, NoCall
  <1>8. Asked'
    BY <1>0, <1>1, Types DEF Asked, EntriesMove, NoRequest
  <1>9. Answered'
    <2>1. answer' = NoAnswer
      BY <1>1, <1>4 DEF NoResponse
    <2>2. \A i \in 1..Len(inbox') : inbox'[i].type = "response" => inbox'[i] = m
      BY <1>3, <1>4 DEF NoResponse
    <2> QED BY <2>1, <2>2 DEF Answered, NoAnswer, Sound, Unheard
  <1> QED BY <1>5, <1>6, <1>7, <1>8, <1>9 DEF Inductive

\* The answers about entries are sound: delegate waits only for what it has started.
LEMMA SnapshotSound ==
  ASSUME Inductive, call'.op = call.op, UNCHANGED <<delivery, told, waived, sent>>,
         NEW ids \in SUBSET Ids, \A d \in ids : status'[d] # "none",
         call.op # "background",
         call.op = "delegate" => ids # {} /\ ids \cap delivery.background = {},
         NEW m, DOMAIN m.result = ids
  PROVE  Sound(m)'
  BY DEF Sound

LEMMA CoordinatorStep ==
  ASSUME Inductive, Coordinator \/ abort \/ \E d \in Ids : settle(d)
  PROVE  Inductive'
  <1>0. TypeOK /\ Held /\ Entered /\ OneAtATime /\ Asked /\ Answered
    BY DEF Inductive
  <1>1. /\ status \in [Ids -> {"none", "running"} \cup Terminal] /\ run \in [Ids -> 0..MaxRuns] /\ stopping \in SUBSET Ids
        /\ request \in [action : {"none", "start", "wait", "stop", "stopping", "continue", "continuing"}, ids : SUBSET Ids]
        /\ {paused, started, abortLine} \subseteq BOOLEAN /\ aborts \in 0..MaxAborts
        /\ delivery.background \in SUBSET Ids
    BY <1>0, Types DEF Buffers
  <1>2. request.action # "none" => request # NoRequest
    BY DEF NoRequest
  <1>3. CASE start
    <2>1. PICK d \in Ids, st \in {"running", "failed"} :
            /\ status[d] = "none"
            /\ status' = [status EXCEPT ![d] = st] /\ run' = [run EXCEPT ![d] = 1]
            /\ request' = NoRequest
            /\ inbox' = IF st = "failed"
                        THEN inbox \o <<Event(d, 1, st), Ok([e \in {d} |-> [run |-> 1, status |-> st]])>>
                        ELSE Append(inbox, Ok([e \in {d} |-> [run |-> 1, status |-> st]]))
      BY <1>3 DEF start
    <2>8. 1 \in 1..MaxRuns /\ st \in {"running"} \cup Terminal
      BY BoundsAssumption DEF Terminal
    <2>9. Ok([e \in {d} |-> [run |-> 1, status |-> st]]) \in Responses
          /\ DOMAIN Ok([e \in {d} |-> [run |-> 1, status |-> st]]).result = {d}
          /\ (st = "failed" => Event(d, 1, st) \in Events)
      BY ZenonT(30), <2>8, RunResult, ResultTypes DEF Terminal
    <2>2. PICK m \in Responses : m = Ok([e \in {d} |-> [run |-> 1, status |-> st]])
                                /\ DOMAIN m.result = {d} /\ (st = "failed" => Event(d, 1, st) \in Events)
      BY <2>9
    <2>3. EntriesMove
      BY <1>0, <1>1, <1>3, <2>1, BoundsAssumption DEF EntriesMove, Entered, start, Terminal
    <2>4. request # NoRequest
      BY <1>2, <1>3 DEF start
    <2>5. Sound(m)'
      <3>1. d \notin delivery.background /\ Unheard(d)
        BY <1>0, <2>1 DEF Entered, Held
      <3>2. UNCHANGED <<delivery, told, waived, sent, call>> /\ status'[d] # "none"
        BY <1>1, <1>3, <2>1 DEF start, worker, history
      <3> QED BY <2>2, <3>1, <3>2 DEF Sound, Unheard
    <2>6. inbox' = Append(inbox, m) \/ \E e \in Events : inbox' = inbox \o <<e, m>>
      BY <2>1, <2>2
    <2>7. UNCHANGED <<worker, pi, history, counts, paused, started, abortLine>>
      BY <1>3 DEF start
    <2> QED BY <2>1, <2>2, <2>3, <2>4, <2>5, <2>6, <2>7, ReplyStep
  <1>4. ASSUME NEW ids \in SUBSET Ids, Respond(Ok(Snapshot(ids))), request # NoRequest,
               UNCHANGED <<worker, pi, main, counts, history>>, \A d \in ids : status[d] # "none",
               call.op # "background", call.op = "delegate" => ids # {} /\ ids \cap delivery.background = {}
        PROVE  Inductive'
    <2>1. \A d \in ids : run[d] \in 1..MaxRuns /\ status[d] \in {"running"} \cup Terminal
      BY <1>0, <1>1, <1>4, BoundsAssumption DEF Entered
    <2>2. PICK m \in Responses : m = Ok(Snapshot(ids)) /\ DOMAIN m.result = ids
      BY <2>1, ResultTypes
    <2>3. EntriesMove
      BY <1>0, <1>1, <1>4 DEF EntriesMove, Entered, main
    <2>4. request' = NoRequest /\ inbox' = Append(inbox, m)
      BY <1>4, <2>2 DEF Respond
    <2>5. Sound(m)'
      BY <1>4, <2>2, SnapshotSound DEF worker, main, history, Sound
    <2>6. UNCHANGED <<worker, pi, history, counts, paused, started, abortLine>>
      BY <1>4 DEF main
    <2> QED BY <1>4, <2>2, <2>3, <2>4, <2>5, <2>6, ReplyStep
  <1>5. CASE wait
    <2>1. Entries(request.ids) \in SUBSET Ids /\ (\A d \in Entries(request.ids) : status[d] # "none")
          /\ call.op # "background"
      BY <1>0, <1>5 DEF Entries, wait, Asked
    <2>2. ASSUME call.op = "delegate"
          PROVE  Entries(request.ids) # {} /\ Entries(request.ids) \cap delivery.background = {}
      <3>1. request.ids = call.ids /\ call.ids # {} /\ call.ids \cap delivery.background = {}
            /\ \A d \in call.ids : status[d] # "none"
        BY <1>0, <1>5, <2>2 DEF wait, Asked
      <3> QED BY <1>1, <3>1 DEF Entries
    <2> QED BY <1>2, <1>4, <1>5, <2>1, <2>2 DEF wait
  <1>6. CASE stopDone
    <2>1. Entries(request.ids) \in SUBSET Ids /\ (\A d \in Entries(request.ids) : status[d] # "none")
          /\ call.op \notin {"delegate", "background"}
      BY <1>0, <1>6 DEF Entries, stopDone, Asked
    <2> QED BY <1>2, <1>4, <1>6, <2>1 DEF stopDone
  <1>7. CASE continued
    <2>1. PICK d \in request.ids :
            \/ /\ Respond(Ok(Snapshot({d})))
               /\ UNCHANGED status
            \/ /\ status[d] = "running" /\ d \notin stopping
               /\ status' = [status EXCEPT ![d] = "failed"]
               /\ request' = NoRequest
               /\ inbox' = inbox \o <<Event(d, run[d], "failed"),
                                      Ok([e \in {d} |-> [run |-> run[d], status |-> "failed"]])>>
      BY <1>7 DEF continued
    <2>2. d \in Ids /\ status[d] # "none" /\ run[d] \in 1..MaxRuns /\ call.op \notin {"delegate", "background"}
          /\ request # NoRequest
      BY <1>0, <1>1, <1>2, <1>7, BoundsAssumption DEF continued, Asked, Entered
    <2>3. UNCHANGED <<worker, pi, history, counts, run, stopping, paused, started, abortLine>>
      BY <1>7 DEF continued
    <2>4. CASE Respond(Ok(Snapshot({d}))) /\ UNCHANGED status
      <3>1. {d} \in SUBSET Ids /\ (\A e \in {d} : status[e] # "none") /\ UNCHANGED main
        BY <2>2, <2>3, <2>4 DEF main
      <3> QED BY <1>4, <2>2, <2>3, <2>4, <3>1
    <2>5. CASE /\ status[d] = "running" /\ d \notin stopping
               /\ status' = [status EXCEPT ![d] = "failed"]
               /\ request' = NoRequest
               /\ inbox' = inbox \o <<Event(d, run[d], "failed"),
                                      Ok([e \in {d} |-> [run |-> run[d], status |-> "failed"]])>>
      <3>5. "failed" \in Terminal /\ "failed" \in {"running"} \cup Terminal
        BY DEF Terminal
      <3>6. PICK k \in 1..MaxRuns : k = run[d]
        BY <2>2
      <3>7. Ok([e \in {d} |-> [run |-> k, status |-> "failed"]]) \in Responses
            /\ DOMAIN Ok([e \in {d} |-> [run |-> k, status |-> "failed"]]).result = {d}
            /\ Event(d, k, "failed") \in Events
        <4>1. Event(d, k, "failed") \in Events
          BY <2>2, <3>5, ResultTypes
        <4>2. /\ Ok([e \in {d} |-> [run |-> k, status |-> "failed"]]) \in Responses
              /\ DOMAIN Ok([e \in {d} |-> [run |-> k, status |-> "failed"]]).result = {d}
          BY <2>2, <3>5, RunResult
        <4> QED BY <4>1, <4>2
      <3>1. PICK m \in Responses : m = Ok([e \in {d} |-> [run |-> k, status |-> "failed"]]) /\ DOMAIN m.result = {d}
        BY <3>7
      <3>2. EntriesMove
        BY <1>0, <1>1, <2>2, <2>3, <2>5 DEF EntriesMove, Entered, Terminal
      <3>3. Sound(m)'
        BY <1>1, <2>2, <2>3, <2>5, <3>1 DEF Sound, worker
      <3>4. \E e \in Events : inbox' = inbox \o <<e, m>>
        BY <2>5, <3>1, <3>6, <3>7
      <3> QED BY <2>2, <2>3, <2>5, <3>1, <3>2, <3>3, <3>4, ReplyStep
    <2> QED BY <2>1, <2>4, <2>5
  <1>8. CASE refuse
    <2>1. Error \in Responses /\ DOMAIN Error.result = {} /\ ~Error.ok
      BY ResultTypes
    <2>2. EntriesMove
      BY <1>0, <1>1, <1>8 DEF EntriesMove, Entered, refuse, main
    <2>3. Sound(Error)'
      BY <2>1 DEF Sound
    <2>4. request # NoRequest /\ request' = NoRequest /\ inbox' = Append(inbox, Error)
          /\ UNCHANGED <<worker, pi, history, counts, paused, started, abortLine>>
      BY <1>2, <1>8 DEF refuse, Respond, main
    <2> QED BY <2>1, <2>2, <2>3, <2>4, ReplyStep
  <1>9. CASE stop
    <2>1. EntriesMove
      BY <1>0, <1>1, <1>9 DEF EntriesMove, Entered, Entries, stop
    <2>2. request'.ids = request.ids /\ request'.action = "stopping" /\ request.action = "stop"
          /\ request' \in [action : {"none", "start", "wait", "stop", "stopping", "continue", "continuing"}, ids : SUBSET Ids]
      BY <1>1, <1>9 DEF stop
    <2> QED BY <1>1, <1>2, <1>9, <2>1, <2>2, PublishStep DEF stop, counts
  <1>10. CASE continue
    <2>1. EntriesMove
      BY <1>0, <1>1, <1>10, BoundsAssumption DEF EntriesMove, Entered, continue, Terminal
    <2>2. request'.ids = request.ids /\ request'.action = "continuing" /\ request.action = "continue"
          /\ request' \in [action : {"none", "start", "wait", "stop", "stopping", "continue", "continuing"}, ids : SUBSET Ids]
      BY <1>1, <1>10 DEF continue
    <2> QED BY <1>1, <1>2, <1>10, <2>1, <2>2, PublishStep DEF continue, counts
  <1>11. CASE \E d \in Ids : cancelled(d)
    <2>1. PICK d \in Ids : cancelled(d)
      BY <1>11
    <2>2. run[d] \in 1..MaxRuns
      BY <1>0, <1>1, <2>1, BoundsAssumption DEF Entered, cancelled
    <2>3. EntriesMove
      BY <1>0, <1>1, <2>1 DEF EntriesMove, Entered, cancelled, Terminal
    <2>4. Event(d, run[d], "cancelled") \in Events
      BY <2>2, ResultTypes DEF Terminal
    <2> QED BY <1>1, <2>1, <2>3, <2>4, PublishStep DEF cancelled, counts
  <1>12. CASE \E d \in Ids : settle(d)
    <2>1. PICK d \in Ids, st \in WithReport :
            /\ status[d] = "running" /\ d \notin stopping
            /\ status' = [status EXCEPT ![d] = st]
            /\ inbox' = Append(inbox, Event(d, run[d], st))
            /\ UNCHANGED <<worker, pi, request, run, stopping, paused, started, abortLine, counts, history>>
      BY <1>12 DEF settle
    <2>2. run[d] \in 1..MaxRuns /\ st \in Terminal
      BY <1>0, <1>1, <2>1, BoundsAssumption DEF Entered, WithReport, Terminal
    <2>3. EntriesMove
      BY <1>0, <1>1, <2>1, <2>2 DEF EntriesMove, Entered, Terminal
    <2>4. Event(d, run[d], st) \in Events
      BY <2>2, ResultTypes
    <2> QED BY <1>1, <2>1, <2>3, <2>4, PublishStep DEF counts
  <1>13. CASE abort
    <2>1. EntriesMove
      BY <1>0, <1>1, <1>13 DEF EntriesMove, Entered, abort
    <2>2. aborts' \in 0..MaxAborts /\ {paused', started', abortLine'} \subseteq BOOLEAN
      BY <1>1, <1>13, BoundsAssumption DEF abort
    <2> QED BY <1>1, <1>13, <2>1, <2>2, PublishStep DEF abort
  <1> QED BY <1>3, <1>5, <1>6, <1>7, <1>8, <1>9, <1>10, <1>11, <1>12, <1>13, QuietStep DEF Coordinator

-----------------------------------------------------------------------------
\* A tool begins: nothing else is under way.
LEMMA CallStep ==
  ASSUME Inductive,
         delegate("delegate") \/ delegate("background") \/ delegate_wait \/ delegate_stop \/ delegate_continue
  PROVE  Inductive'
  <1>0. TypeOK /\ Held /\ Entered /\ OneAtATime /\ Asked /\ Answered
    BY DEF Inductive
  <1>1. UNCHANGED <<suspended, idleTimer, answer, phase, queued, aborting, inbox, status, run, stopping, paused, started, abortLine,
                    inputs, aborts, told, sent, overlooked>>
    BY DEF delegate, delegate_wait, delegate_stop, delegate_continue, pi, main, history
  <1>2. call = NoCall /\ calls' \in 0..MaxCalls
    <2>1. call = NoCall /\ calls < MaxCalls /\ calls' = calls + 1
      BY DEF delegate, delegate_wait, delegate_stop, delegate_continue, Calls
    <2>2. calls \in 0..MaxCalls /\ MaxCalls \in Nat
      BY <1>0, Types, BoundsAssumption
    <2> QED BY <2>1, <2>2
  <1>3. NoResponse /\ NoResponse'
    BY <1>0, <1>1, <1>2 DEF OneAtATime, NoResponse, NoCall
  <1>4. delivery \in Buffers /\ delivery.background \in SUBSET Ids
    BY <1>0, Types DEF Buffers
  <1>5. /\ delivery' \in Buffers /\ delivery'.background \subseteq delivery.background
        /\ \A d \in Ids : delivery'.pending[d] # 0 => delivery.pending[d] # 0 /\ (d \in delivery.background => d \in delivery'.background)
        /\ waived' \in SUBSET Reports
        /\ \A d \in Ids, k \in 1..MaxRuns : <<d, k>> \in waived' =>
             <<d, k>> \in waived \/ (d \notin delivery'.background /\ k <= run[d])
    <2>1. CASE delivery' = delivery /\ waived' = waived
      BY <1>0, <1>4, <2>1, Types
    <2>2. CASE delegate_stop
      <3>1. PICK named \in SUBSET Ids : /\ delivery' = acknowledge(delivery, named)
                                        /\ waived' = waived \cup {r \in Reports : r[1] \in named /\ r[2] <= run[r[1]]}
        BY <1>4, <2>2 DEF delegate_stop
      <3>2. delivery' \in Buffers /\ delivery'.background = delivery.background \ named
            /\ \A d \in Ids : delivery'.pending[d] = IF d \in named THEN 0 ELSE delivery.pending[d]
        BY <1>4, <3>1, Acknowledged
      <3>3. waived' \in SUBSET Reports
        BY <1>0, <3>1, Types
      <3> QED BY <3>1, <3>2, <3>3
    <2> QED BY <2>1, <2>2 DEF delegate, delegate_wait, delegate_continue, history
  <1>6. \E op \in Tools, ids \in SUBSET Ids, left \in 0..MaxTasks, action \in {"start", "wait", "stop", "continue"}, asked \in SUBSET Ids :
          /\ call' = [op |-> op, ids |-> ids, left |-> left]
          /\ request' = [action |-> action, ids |-> asked]
          /\ op \in {"delegate", "background"} => ids = {} /\ action = "start"
          /\ action # "start" => \A d \in asked : status[d] # "none"
          /\ reserved' \in SUBSET Ids
    <2>1. ASSUME NEW op \in {"delegate", "background"}, delegate(op)
          PROVE  \E ids \in SUBSET Ids, left \in 0..MaxTasks :
                   call' = [op |-> op, ids |-> {}, left |-> left] /\ request' = [action |-> "start", ids |-> {}]
      <3>1. PICK n \in 1..Cardinality({d \in Ids : status[d] = "none"}) : Calls(op, {}, n - 1, "start", {})
        BY <2>1 DEF delegate
      <3>2. MaxTasks \in Nat /\ Cardinality({d \in Ids : status[d] = "none"}) \in Nat
            /\ Cardinality({d \in Ids : status[d] = "none"}) <= MaxTasks
        <4>1. {d \in Ids : status[d] = "none"} \subseteq Ids
          OBVIOUS
        <4> QED BY <4>1, IdsAssumption, FS_CardinalityType, FS_Subset DEF MaxTasks
      <3>3. n - 1 \in 0..MaxTasks
        BY <3>2
      <3> QED BY <3>1, <3>3 DEF Calls
    <2>2. 0 \in 0..MaxTasks
      BY IdsAssumption, FS_CardinalityType DEF MaxTasks
    <2>3. CASE delegate("delegate") \/ delegate("background")
      <3>1. reserved' \in SUBSET Ids
        BY <1>0, <2>3, Types DEF delegate
      <3> QED BY <2>1, <2>3, <3>1 DEF Tools
    <2>4. CASE delegate_wait
      <3>1. PICK ids \in SUBSET Ids, named \in SUBSET Ids :
              /\ \A d \in ids : status[d] # "none"
              /\ Calls("wait", named, 0, "wait", ids) /\ reserved' = named
        BY <1>4, <2>4 DEF delegate_wait
      <3> QED BY <2>2, <3>1 DEF Calls, Tools
    <2>5. CASE delegate_stop
      <3>1. reserved' \in SUBSET Ids
        BY <1>0, <2>5, Types DEF delegate_stop
      <3>2. PICK ids \in SUBSET Ids, named \in SUBSET Ids :
              (\A d \in ids : status[d] # "none") /\ Calls("stop", named, 0, "stop", ids)
        BY <1>4, <2>5 DEF delegate_stop
      <3> QED BY <2>2, <3>1, <3>2 DEF Calls, Tools
    <2>6. CASE delegate_continue
      <3>1. PICK d \in Ids : status[d] # "none" /\ Calls("continue", {d}, 0, "continue", {d}) /\ reserved' = {d}
        BY <2>6 DEF delegate_continue
      <3>2. {d} \in SUBSET Ids
        OBVIOUS
      <3> QED BY <2>2, <3>1, <3>2 DEF Calls, Tools
    <2> QED BY <2>3, <2>4, <2>5, <2>6
  <1>7. TypeOK'
    <2>1. call' \in [op : Tools \cup {"none"}, ids : SUBSET Ids, left : 0..MaxTasks] /\ call'.op # "none"
          /\ request' \in [action : {"none", "start", "wait", "stop", "stopping", "continue", "continuing"}, ids : SUBSET Ids]
          /\ reserved' \in SUBSET Ids
      BY <1>6 DEF Tools
    <2> QED BY <1>0, <1>1, <1>2, <1>5, <2>1, Types DEF TypeOK, Buffers
  <1>8. Held'
    BY <1>0, <1>1, <1>4, <1>5 DEF Held, Unheard
  <1>9. Entered'
    <2>1. ASSUME NEW d \in Ids, status[d] = "none", NEW k \in 1..MaxRuns PROVE <<d, k>> \notin waived'
      BY <1>0, <1>5, <2>1, BoundsAssumption DEF Entered, Unheard
    <2> QED BY <1>0, <1>1, <2>1 DEF Entered, Unheard
  <1>10. OneAtATime'
    BY <1>3, <1>6 DEF OneAtATime, NoResponse, Tools
  <1>11. Asked'
    <2>1. PICK op \in Tools, ids \in SUBSET Ids, left \in 0..MaxTasks, action \in {"start", "wait", "stop", "continue"}, asked \in SUBSET Ids :
          /\ call' = [op |-> op, ids |-> ids, left |-> left]
          /\ request' = [action |-> action, ids |-> asked]
          /\ op \in {"delegate", "background"} => ids = {} /\ action = "start"
          /\ action # "start" => \A d \in asked : status[d] # "none"
      BY SMTT(30), <1>6
    <2> QED BY <1>1, <2>1 DEF Asked
  <1>12. Answered'
    BY <1>3 DEF Answered, NoResponse, NoAnswer
  <1> QED BY <1>7, <1>8, <1>9, <1>10, <1>11, <1>12 DEF Inductive

-----------------------------------------------------------------------------
\* An event that is read changes the buffer only.
LEMMA EventStep ==
  ASSUME Inductive, onEvent
  PROVE  Inductive'
  <1>0. TypeOK /\ Held /\ Entered /\ OneAtATime /\ Asked /\ Answered
    BY DEF Inductive
  <1> DEFINE e == Head(inbox)
  <1>1. UNCHANGED <<reserved, suspended, idleTimer, call, answer, phase, queued, aborting, request, status, run, stopping,
                    paused, started, abortLine, inputs, calls, aborts, told, sent, waived>>
    BY DEF onEvent, pi, main, counts
  <1>2. inbox # <<>> /\ inbox' = Tail(inbox) /\ e.type = "event"
        /\ delivery' = queueReport(delivery, e.id, e.run, e.status)
    BY DEF onEvent
  <1>3. inbox \in Seq(Messages)
    BY <1>0, Types
  <1>4. e \in Messages /\ e = inbox[1] /\ Len(inbox) \in Nat \ {0} /\ inbox' \in Seq(Messages) /\ Len(inbox') = Len(inbox) - 1
        /\ \A i \in 1..(Len(inbox) - 1) : inbox'[i] = inbox[i + 1]
    BY <1>2, <1>3, Read
  <1>5. e \in Events
    BY <1>2, <1>4, MessageTypes DEF Messages
  <1>6. e.id \in Ids /\ e.run \in 1..MaxRuns
    BY <1>5 DEF Events
  <1> HIDE DEF e
  <1>7. delivery \in Buffers /\ suspended \in BOOLEAN
    BY <1>0, Types
  <1>8. delivery' \in Buffers /\ delivery'.background \subseteq delivery.background
        /\ \A d \in Ids : delivery'.pending[d] # 0 => d \in delivery'.background
    BY <1>0, <1>2, <1>6, <1>7, Queued DEF Held
  <1>9. \A i \in 1..Len(inbox') : \E j \in 1..Len(inbox) : inbox'[i] = inbox[j] /\ j = i + 1
    BY <1>4
  <1>10. TypeOK'
    <2>1. overlooked' \in SUBSET Ids
      BY <1>0, <1>6, Types DEF onEvent, e
    <2>2. inbox' \in Seq(Events \cup Responses)
      BY <1>4 DEF Messages
    <2> QED BY <1>0, <1>1, <1>8, <2>1, <2>2, Types, TypeFrame
  <1>11. Held' /\ Entered'
    BY <1>0, <1>1, <1>7, <1>8 DEF Held, Entered, Unheard, Buffers
  <1>12. OneAtATime'
    <2>1. NoResponse => NoResponse'
      BY <1>1, <1>9 DEF NoResponse
    <2>2. (\A i \in 1..Len(inbox) : inbox[i].type = "event") => \A i \in 1..Len(inbox') : inbox'[i].type = "event"
      BY <1>9
    <2>3. \A i, j \in 1..Len(inbox') : inbox'[i].type = "response" /\ inbox'[j].type = "response" => i = j
      <3>1. ASSUME NEW i \in 1..Len(inbox'), NEW j \in 1..Len(inbox'), inbox'[i].type = "response", inbox'[j].type = "response"
            PROVE  i = j
        <4>1. i + 1 \in 1..Len(inbox) /\ j + 1 \in 1..Len(inbox) /\ inbox'[i] = inbox[i + 1] /\ inbox'[j] = inbox[j + 1]
          BY <1>4
        <4>2. i + 1 = j + 1
          BY <1>0, <3>1, <4>1 DEF OneAtATime
        <4> QED BY <1>4, <4>2
      <3> QED BY <3>1
    <2> QED BY <1>0, <1>1, <2>1, <2>2, <2>3 DEF OneAtATime
  <1>13. Asked'
    BY <1>0, <1>1, <1>8 DEF Asked
  <1>14. Answered'
    BY <1>0, <1>1, <1>8, <1>9, SoundStays, Carried DEF Answered
  <1> QED BY <1>10, <1>11, <1>12, <1>13, <1>14 DEF Inductive

\* A response that is read is the one the tool waits for.
LEMMA ResponseStep ==
  ASSUME Inductive, onResponse
  PROVE  Inductive'
  <1>0. TypeOK /\ Held /\ Entered /\ OneAtATime /\ Asked /\ Answered
    BY DEF Inductive
  <1>1. UNCHANGED <<delivery, reserved, suspended, idleTimer, call, phase, queued, aborting, request, status, run, stopping,
                    paused, started, abortLine, inputs, calls, aborts, told, sent, waived, overlooked>>
    BY DEF onResponse, pi, main, counts, history
  <1>2. inbox # <<>> /\ inbox' = Tail(inbox) /\ Head(inbox).type = "response" /\ answer' = Head(inbox)
    BY DEF onResponse
  <1>3. inbox \in Seq(Messages)
    BY <1>0, Types
  <1>4. answer' \in Messages /\ answer' = inbox[1] /\ answer'.type = "response" /\ Len(inbox) \in Nat \ {0}
        /\ inbox' \in Seq(Messages) /\ Len(inbox') = Len(inbox) - 1
        /\ \A i \in 1..(Len(inbox) - 1) : inbox'[i] = inbox[i + 1]
    BY <1>2, <1>3, Read
  <1>5. answer' \in Responses
    BY <1>4, MessageTypes DEF Messages
  <1>6. inbox[1] \in Responses /\ inbox[1].type = "response" /\ 1 \in 1..Len(inbox)
    BY <1>4, <1>5
  <1>7. request = NoRequest /\ call # NoCall /\ answer = NoAnswer
    <2>1. ~ \A i \in 1..Len(inbox) : inbox[i].type = "event"
      BY <1>6
    <2> QED BY <1>0, <2>1 DEF OneAtATime, NoResponse
  <1>8. \A i \in 1..Len(inbox') : inbox'[i].type = "event"
    <2>1. ASSUME NEW i \in 1..Len(inbox') PROVE inbox'[i].type = "event"
      <3>1. i + 1 \in 1..Len(inbox) /\ i + 1 # 1 /\ inbox'[i] = inbox[i + 1] /\ inbox[i + 1] \in Messages
        BY <1>3, <1>4
      <3>2. inbox[i + 1].type # "response"
        BY <1>0, <1>6, <3>1 DEF OneAtATime
      <3> QED BY <3>1, <3>2, MessageTypes
    <2> QED BY <2>1
  <1>9. TypeOK'
    <2>1. inbox' \in Seq(Events \cup Responses) /\ call.op # "none"
      BY <1>0, <1>4, <1>7 DEF Messages, OneAtATime
    <2> QED BY <1>0, <1>1, <1>5, <2>1 DEF TypeOK
  <1>10. Held' /\ Entered'
    BY <1>0, <1>1 DEF Held, Entered, Unheard
  <1>11. OneAtATime'
    BY <1>0, <1>1, <1>7, <1>8 DEF OneAtATime, NoResponse
  <1>12. Asked'
    BY <1>0, <1>1 DEF Asked
  <1>13. Answered'
    <2>1. Sound(inbox[1])
      BY <1>0, <1>6 DEF Answered
    <2> QED BY <1>1, <1>4, <1>8, <2>1 DEF Answered, Sound, Unheard
  <1> QED BY <1>9, <1>10, <1>11, <1>12, <1>13 DEF Inductive

\* A tool returns: what it tells or withdraws is of entries that leave the buffer.
LEMMA ReturnStep ==
  ASSUME Inductive, Returns, answer # NoAnswer,
         UNCHANGED <<suspended, idleTimer, pi, inbox, main, counts, sent, overlooked>>,
         reserved' \in SUBSET Ids, delivery' \in Buffers, told' \in SUBSET Reports, waived' \in SUBSET Reports,
         delivery'.background \subseteq delivery.background,
         \A d \in Ids : delivery'.pending[d] # 0 => d \in delivery'.background,
         \A d \in Ids, k \in 1..MaxRuns : <<d, k>> \in told' \/ <<d, k>> \in waived' =>
           \/ <<d, k>> \in told \/ <<d, k>> \in waived
           \/ d \notin delivery'.background /\ status[d] # "none"
  PROVE  Inductive'
  <1>0. TypeOK /\ Held /\ Entered /\ OneAtATime
    BY DEF Inductive
  <1>1. UNCHANGED <<phase, queued, aborting, status, run, stopping, paused, started, abortLine, inputs, calls, aborts>>
    BY DEF pi, main, counts
  <1>2. call' = NoCall /\ answer' = NoAnswer /\ request' = NoRequest
    BY DEF Returns
  <1>3. \A i \in 1..Len(inbox') : inbox'[i].type = "event"
    BY <1>0 DEF OneAtATime
  <1>4. TypeOK'
    <2>1. NoCall \in [op : Tools \cup {"none"}, ids : SUBSET Ids, left : 0..MaxTasks]
      BY IdsAssumption, FS_CardinalityType DEF MaxTasks, NoCall
    <2>2. NoRequest \in [action : {"none", "start", "wait", "stop", "stopping", "continue", "continuing"}, ids : SUBSET Ids]
      BY DEF NoRequest
    <2> QED BY <1>0, <1>1, <1>2, <2>1, <2>2 DEF TypeOK, Buffers
  <1>5. Held'
    BY <1>0, <1>1, Types DEF Held, Unheard, Buffers
  <1>6. Entered'
    BY <1>0, <1>1 DEF Entered, Unheard
  <1>7. OneAtATime' /\ Asked' /\ Answered'
    BY <1>2, <1>3 DEF OneAtATime, NoResponse, Asked, Answered, NoCall, NoRequest, NoAnswer
  <1> QED BY <1>4, <1>5, <1>6, <1>7 DEF Inductive

\* What a response tells of is terminal.
LEMMA SeenEnded ==
  ASSUME NEW m \in Responses
  PROVE  Seen(m.result) \in SUBSET Reports
         /\ \A r \in Seen(m.result) : r[1] \in Ended(m.result) /\ r[1] \in DOMAIN m.result
  BY DEF Seen, Ended, WithReport, Terminal, Reports

\* delegate returns what it has waited for.
LEMMA DelegateReturnStep ==
  ASSUME Inductive, delegateReturns
  PROVE  Inductive'
  <1>0. TypeOK /\ Held /\ Answered
    BY DEF Inductive
  <1>1. answer \in Responses /\ answer # NoAnswer /\ Sound(answer) /\ call.op = "delegate" /\ delivery' = delivery
    BY <1>0, Carried DEF delegateReturns, Answered, NoAnswer
  <1>2. told' = told \cup Seen(answer.result) /\ waived' = waived
    BY DEF delegateReturns
  <1>3. told' \in SUBSET Reports /\ waived' \in SUBSET Reports
    BY <1>0, <1>1, <1>2, SeenEnded, Types
  <1>4. \A d \in Ids, k \in 1..MaxRuns : <<d, k>> \in told' =>
          <<d, k>> \in told \/ (d \notin delivery'.background /\ status[d] # "none")
    BY <1>1, <1>2, SeenEnded DEF Sound
  <1>5. Returns /\ UNCHANGED <<suspended, idleTimer, pi, inbox, main, counts, sent, overlooked, reserved>>
    BY DEF delegateReturns
  <1>6. delivery \in Buffers /\ reserved \in SUBSET Ids
    BY <1>0, Types
  <1> QED BY <1>0, <1>1, <1>2, <1>3, <1>4, <1>5, <1>6, ReturnStep DEF Held

\* delegate_wait and delegate_continue return reports and take them out of the buffer.
LEMMA WaitReturnStep ==
  ASSUME Inductive, waitReturns \/ continueReturns
  PROVE  Inductive'
  <1>0. TypeOK /\ Held /\ Answered
    BY DEF Inductive
  <1>1. answer \in Responses /\ answer # NoAnswer /\ Sound(answer)
    BY <1>0, Carried DEF waitReturns, continueReturns, Answered, NoAnswer
  <1>2. told' = told \cup Seen(answer.result) /\ waived' = waived
        /\ delivery' = scheduleDelivery(acknowledge(delivery, Ended(answer.result)))
    BY DEF waitReturns, continueReturns, release
  <1>3. told' \in SUBSET Reports /\ waived' \in SUBSET Reports /\ delivery \in Buffers
    BY <1>0, <1>1, <1>2, SeenEnded, Types
  <1>4. Ended(answer.result) \in SUBSET Ids
    BY <1>1, MessageTypes DEF Ended
  <1>5. acknowledge(delivery, Ended(answer.result)) \in Buffers
        /\ acknowledge(delivery, Ended(answer.result)).background = delivery.background \ Ended(answer.result)
        /\ \A d \in Ids : acknowledge(delivery, Ended(answer.result)).pending[d]
                          = IF d \in Ended(answer.result) THEN 0 ELSE delivery.pending[d]
    BY <1>3, <1>4, Acknowledged
  <1>6. delivery' \in Buffers /\ delivery'.background = delivery.background \ Ended(answer.result)
        /\ \A d \in Ids : delivery'.pending[d] = IF d \in Ended(answer.result) THEN 0 ELSE delivery.pending[d]
    BY <1>2, <1>5, Scheduled
  <1>7. \A d \in Ids, k \in 1..MaxRuns : <<d, k>> \in told' =>
          <<d, k>> \in told \/ (d \notin delivery'.background /\ status[d] # "none")
    BY <1>1, <1>2, <1>6, SeenEnded DEF Sound
  <1>8. Returns /\ UNCHANGED <<suspended, idleTimer, pi, inbox, main, counts, sent, overlooked>> /\ reserved' = {}
    BY DEF waitReturns, continueReturns
  <1>9. \A d \in Ids : delivery'.pending[d] # 0 => d \in delivery'.background
    BY <1>0, <1>6 DEF Held
  <1> QED BY <1>1, <1>2, <1>3, <1>6, <1>7, <1>8, <1>9, ReturnStep

\* delegate_stop returns: what it has stopped is withdrawn once more.
LEMMA StopReturnStep ==
  ASSUME Inductive, stopReturns
  PROVE  Inductive'
  <1>0. TypeOK /\ Held /\ Answered
    BY DEF Inductive
  <1>1. answer \in Responses /\ answer # NoAnswer /\ Sound(answer)
    BY <1>0, Carried DEF stopReturns, Answered, NoAnswer
  <1>2. told' = told /\ delivery' = acknowledge(delivery, DOMAIN answer.result)
        /\ waived' = waived \cup {r \in Reports : r[1] \in DOMAIN answer.result /\ r[2] <= answer.result[r[1]].run}
    BY DEF stopReturns
  <1>3. told' \in SUBSET Reports /\ waived' \in SUBSET Reports /\ delivery \in Buffers
    BY <1>0, <1>2, Types
  <1>4. DOMAIN answer.result \in SUBSET Ids
    BY <1>1, MessageTypes
  <1>5. delivery' \in Buffers /\ delivery'.background = delivery.background \ DOMAIN answer.result
        /\ \A d \in Ids : delivery'.pending[d] = IF d \in DOMAIN answer.result THEN 0 ELSE delivery.pending[d]
    BY <1>2, <1>3, <1>4, Acknowledged
  <1>6. \A d \in Ids, k \in 1..MaxRuns : <<d, k>> \in waived' =>
          <<d, k>> \in waived \/ (d \notin delivery'.background /\ status[d] # "none")
    BY <1>1, <1>2, <1>5 DEF Sound
  <1>7. Returns /\ UNCHANGED <<suspended, idleTimer, pi, inbox, main, counts, sent, overlooked, reserved>>
    BY DEF stopReturns
  <1>8. reserved \in SUBSET Ids /\ \A d \in Ids : delivery'.pending[d] # 0 => d \in delivery'.background
    BY <1>0, <1>5, Types DEF Held
  <1> QED BY <1>1, <1>2, <1>3, <1>5, <1>6, <1>7, <1>8, ReturnStep

\* A tool that fails tells nothing.
LEMMA FailStep ==
  ASSUME Inductive, toolFails
  PROVE  Inductive'
  <1>0. TypeOK /\ Held
    BY DEF Inductive
  <1>1. answer # NoAnswer /\ Returns /\ reserved' = {} /\ UNCHANGED <<suspended, idleTimer, pi, inbox, main, counts, history>>
    BY DEF toolFails, NoAnswer
  <1>2. delivery \in Buffers
    BY <1>0, Types
  <1>3. delivery' \in {delivery, scheduleDelivery(delivery)}
    BY DEF toolFails, release
  <1>4. delivery' \in Buffers /\ delivery'.background = delivery.background /\ delivery'.pending = delivery.pending
    BY <1>2, <1>3, Scheduled
  <1>5. UNCHANGED <<told, waived, sent, overlooked>> /\ told \in SUBSET Reports /\ waived \in SUBSET Reports
    BY <1>0, <1>1, Types DEF history
  <1>6. \A d \in Ids : delivery'.pending[d] # 0 => d \in delivery'.background
    BY <1>0, <1>4 DEF Held
  <1> QED BY <1>1, <1>4, <1>5, <1>6, ReturnStep

\* The answer to a start: in the background the delegation enters the buffer.
LEMMA StartedStep ==
  ASSUME Inductive, delegateStarted
  PROVE  Inductive'
  <1> DEFINE d == CHOOSE e \in DOMAIN answer.result : TRUE
             ids == call.ids \cup {d}
             D == [delivery EXCEPT !.background = @ \cup {d}]
  <1>0. TypeOK /\ Held /\ Entered /\ OneAtATime /\ Asked /\ Answered
    BY DEF Inductive
  <1>1. answer \in Responses /\ answer # NoAnswer /\ Sound(answer) /\ answer.ok /\ call.op \in {"delegate", "background"}
    BY <1>0, Carried DEF delegateStarted, Answered, NoAnswer
  <1>2. d \in DOMAIN answer.result /\ d \in Ids
    BY <1>1, MessageTypes DEF Sound
  <1>3. status[d] # "none" /\ d \notin delivery.background /\ (call.op = "background" => Unheard(d))
    BY <1>1, <1>2 DEF Sound
  <1>4. UNCHANGED <<reserved, suspended, idleTimer, phase, queued, aborting, inbox, status, run, stopping, paused, started, abortLine,
                    inputs, calls, aborts, told, sent, waived, overlooked>>
    BY DEF delegateStarted, pi, main, counts, history
  <1>5. delivery' = IF call.op = "background"
                    THEN queueReport(D, d, answer.result[d].run, answer.result[d].status) ELSE delivery
    BY DEF delegateStarted
  <1>6. \/ /\ call.left > 0 /\ call' = [call EXCEPT !.ids = ids, !.left = @ - 1]
           /\ request' = [action |-> "start", ids |-> {}] /\ answer' = NoAnswer
        \/ /\ call.op = "delegate" /\ call' = [call EXCEPT !.ids = ids]
           /\ request' = [action |-> "wait", ids |-> ids] /\ answer' = NoAnswer
        \/ /\ call.op = "background" /\ Returns
    BY DEF delegateStarted
  <1>7. D \in Buffers /\ D.background = delivery.background \cup {d} /\ D.pending = delivery.pending /\ delivery \in Buffers
        /\ suspended \in BOOLEAN
    BY <1>0, <1>2, Types DEF Buffers
  <1>8. answer.result[d].run \in 1..MaxRuns
    BY <1>1, <1>2 DEF Responses, Results
  <1> HIDE DEF d, D
  <1>9. ids \in SUBSET Ids /\ ids # {} /\ \A e \in ids : status[e] # "none"
    BY <1>0, <1>1, <1>2, <1>3, Types DEF Asked
  <1> HIDE DEF ids
  <1>10. /\ delivery' \in Buffers /\ delivery'.background \subseteq delivery.background \cup {d}
         /\ call.op = "delegate" => delivery' = delivery
         /\ \A e \in Ids : delivery'.pending[e] # 0 => e \in delivery'.background
    <2>1. \A e \in Ids : D.pending[e] # 0 => e \in D.background
      BY <1>0, <1>7 DEF Held
    <2>2. CASE call.op = "background"
      <3>1. PICK r, st : r = answer.result[d].run /\ st = answer.result[d].status
        OBVIOUS
      <3>2. delivery' = queueReport(D, d, r, st) /\ r \in 1..MaxRuns
        BY <1>5, <1>8, <2>2, <3>1
      <3>3. /\ delivery' \in Buffers /\ delivery'.background \subseteq D.background
            /\ \A e \in Ids : delivery'.pending[e] # 0 => e \in delivery'.background
        BY <1>2, <1>7, <2>1, <3>2, Queued
      <3> QED BY <1>7, <2>2, <3>3
    <2>3. CASE call.op = "delegate"
      BY <1>0, <1>5, <1>7, <2>3 DEF Held
    <2> QED BY <1>1, <2>2, <2>3
  <1>11. \A i \in 1..Len(inbox) : inbox[i].type = "event"
    BY <1>0, <1>1 DEF OneAtATime
  <1>12. call.op # "none"
    BY <1>1
  <1>13. answer' = NoAnswer /\ ((call'.op = call.op /\ call'.ids = ids) \/ (call' = NoCall /\ request' = NoRequest))
         /\ call' \in [op : Tools \cup {"none"}, ids : SUBSET Ids, left : 0..MaxTasks]
         /\ request' \in [action : {"none", "start", "wait", "stop", "stopping", "continue", "continuing"}, ids : SUBSET Ids]
    <2>1. NoCall \in [op : Tools \cup {"none"}, ids : SUBSET Ids, left : 0..MaxTasks] /\ MaxTasks \in Nat
      BY IdsAssumption, FS_CardinalityType DEF MaxTasks, NoCall
    <2>2. NoRequest \in [action : {"none", "start", "wait", "stop", "stopping", "continue", "continuing"}, ids : SUBSET Ids]
      BY DEF NoRequest
    <2>3. call \in [op : Tools \cup {"none"}, ids : SUBSET Ids, left : 0..MaxTasks]
      BY <1>0, Types
    <2>4. CASE /\ call.left > 0 /\ call' = [call EXCEPT !.ids = ids, !.left = @ - 1]
               /\ request' = [action |-> "start", ids |-> {}] /\ answer' = NoAnswer
      <3>1. call.left \in 0..MaxTasks /\ call.left - 1 \in 0..MaxTasks
        BY <2>1, <2>3, <2>4
      <3>2. call' = [op |-> call.op, ids |-> ids, left |-> call.left - 1]
        BY <2>3, <2>4
      <3> QED BY <1>9, <2>3, <2>4, <3>1, <3>2
    <2>5. CASE /\ call.op = "delegate" /\ call' = [call EXCEPT !.ids = ids]
               /\ request' = [action |-> "wait", ids |-> ids] /\ answer' = NoAnswer
      <3>1. call' = [op |-> call.op, ids |-> ids, left |-> call.left]
        BY <2>3, <2>5
      <3> QED BY <1>9, <2>3, <2>5, <3>1
    <2>6. CASE Returns
      BY <2>1, <2>2, <2>6 DEF Returns
    <2> QED BY <1>6, <2>4, <2>5, <2>6
  <1>14. TypeOK'
    BY <1>0, <1>4, <1>10, <1>12, <1>13, Types DEF TypeOK, Buffers, NoCall
  <1>15. Held'
    <2>1. CASE call.op = "background"
      BY <1>0, <1>3, <1>4, <1>10, <2>1 DEF Held, Unheard
    <2>2. CASE call.op = "delegate"
      BY <1>0, <1>4, <1>10, <2>2 DEF Held, Unheard
    <2> QED BY <1>1, <2>1, <2>2
  <1>16. Entered'
    BY <1>0, <1>4 DEF Entered, Unheard
  <1>17. OneAtATime'
    BY <1>4, <1>11, <1>12, <1>13 DEF OneAtATime, NoResponse, NoCall
  <1>18. Asked'
    <2>1. CASE call' = NoCall /\ request' = NoRequest
      BY <2>1 DEF Asked, NoCall, NoRequest
    <2>2. CASE call'.op = call.op /\ call'.ids = ids
      <3>1. ids \subseteq call.ids \cup {d}
        BY DEF ids
      <3>2. call.op = "delegate" => ids \cap delivery'.background = {}
        BY <1>0, <1>3, <1>10, <3>1 DEF Asked
      <3>3. request' = [action |-> "start", ids |-> {}] \/ (call.op = "delegate" /\ request' = [action |-> "wait", ids |-> ids])
        BY <1>6, <1>12, <2>2 DEF Returns, NoCall
      <3> QED BY <1>4, <1>9, <2>2, <3>2, <3>3 DEF Asked
    <2> QED BY <1>13, <2>1, <2>2
  <1>19. Answered'
    BY <1>4, <1>11, <1>13 DEF Answered, NoAnswer
  <1> QED BY <1>14, <1>15, <1>16, <1>17, <1>18, <1>19 DEF Inductive

-----------------------------------------------------------------------------
LEMMA NextInductive == Inductive /\ [Next]_vars => Inductive'
  <1> SUFFICES ASSUME Inductive, [Next]_vars PROVE Inductive'
    OBVIOUS
  <1>1. CASE UNCHANGED vars
    BY <1>1 DEF vars, worker, pi, main, counts, history, Inductive, TypeOK, Held, Entered, OneAtATime, Asked, Answered,
              NoResponse, Sound, Unheard
  <1>2. CASE Worker
    BY <1>2, DeliverStep, QuietStep, EventStep, ResponseStep, FailStep, StartedStep, DelegateReturnStep, WaitReturnStep,
       StopReturnStep DEF Worker
  <1>3. CASE Pi
    BY <1>3, QuietStep, TurnEnds DEF Pi
  <1>4. CASE Coordinator \/ Environment
    BY <1>4, CoordinatorStep, QuietStep, CallStep DEF Environment
  <1> QED BY <1>1, <1>2, <1>3, <1>4 DEF Next

\* Every variable keeps its type, and a tool has one request or one response under
\* way at a time (the bridge of src/runtime/delegation-bridge.ts).
THEOREM TypeCorrect == Spec => []TypeOK
  <1>1. Inductive => TypeOK
    BY DEF Inductive
  <1> QED BY <1>1, InitInductive, NextInductive, PTL DEF Spec

\* Only the timer of the delivery sends reports, and only such as the parent has
\* neither read nor withdrawn (deliver of src/runtime/tools/delegate.ts).
LEMMA Sends ==
  Inductive /\ [Next]_vars =>
    \A r \in Reports : sent'[r] > sent[r] => sent[r] = 0 /\ r \notin told /\ r \notin waived
  <1> SUFFICES ASSUME Inductive, [Next]_vars, NEW r \in Reports, sent'[r] > sent[r]
               PROVE  sent[r] = 0 /\ r \notin told /\ r \notin waived
    OBVIOUS
  <1>1. CASE deliver
    BY <1>1, DeliverStep
  <1>2. CASE UNCHANGED sent
    <2>1. sent[r] \in 0..2
      BY Types DEF Inductive
    <2> QED BY <1>2, <2>1
  <1>3. deliver \/ UNCHANGED sent
    BY DEF Next, Worker, Coordinator, Pi, Environment, vars, history, notifyWhenIdle, onEvent, onResponse, toolFails,
           delegateStarted, delegateReturns, waitReturns, stopReturns, continueReturns, start, wait, stop, stopDone,
           continue, continued, refuse, resumeParent, cancelled, agent_start, agent_end, becomesIdle, abortTurn, input,
           abort, settle, delegate, delegate_wait, delegate_stop, delegate_continue
  <1> QED BY <1>1, <1>2, <1>3

\* A report starts at most one turn, and none once a tool has returned it, for any
\* number of delegations, runs and calls (acknowledge, reserveReports).
THEOREM ReadAtMostOnce == Spec => ReadOnce
  <1>1. Inductive /\ [Next]_vars => [\A r \in Reports : sent'[r] > sent[r] => sent[r] = 0 /\ r \notin told]_vars
    BY Sends
  <1> QED BY <1>1, InitInductive, NextInductive, PTL DEF Spec, ReadOnce

\* What a stop has withdrawn never starts a turn by itself (cancelDelivery, delegate_stop).
THEOREM WithdrawnIsQuiet == Spec => WithdrawnStaysQuiet
  <1>1. Inductive /\ [Next]_vars => [\A r \in Reports : sent'[r] > sent[r] => r \notin waived]_vars
    BY Sends
  <1> QED BY <1>1, InitInductive, NextInductive, PTL DEF Spec, WithdrawnStaysQuiet
=============================================================================
