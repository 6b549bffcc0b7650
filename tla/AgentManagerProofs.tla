--------------------------- MODULE AgentManagerProofs ---------------------------
(***************************************************************************)
(* What TLAPS proves of AgentManager, for any sessions and any number of   *)
(* hosts, calls and troubles.                                              *)
(***************************************************************************)
EXTENDS AgentManager, SequenceTheorems, TLAPS

CallRecords ==
  [kind : {"none", "start", "resume", "prompt", "plain", "abort"},
   host : Hosts \cup {None}, session : Sessions \cup {None},
   sel : Nat, pc : Pending \cup {"no", "done", "failed"}]

Typed ==
  /\ proc \in [Hosts -> {"none", "booting", "up", "ending", "down"}]
  /\ ender \in [Hosts -> {"no", "stop", "all", "clean", "reload"}]
  /\ \A h \in Hosts : proc[h] = "ending" <=> ender[h] # "no"
  /\ sess \in [Hosts -> Sessions \cup {None}]
  /\ busy \in [Hosts -> BOOLEAN] /\ stale \in [Hosts -> BOOLEAN]
  /\ runtimes \subseteq Hosts /\ reloads \subseteq Hosts /\ abandoned \subseteq Hosts
  /\ queue \in [Hosts -> Seq(Calls \cup {RELOAD})]
  /\ starts \in [Sessions -> Seq(Calls)]
  /\ reload \in [Hosts -> {"no", "asking", "stopping", "booting"}]
  /\ call \in [Calls -> CallRecords]
  /\ selection \in Nat /\ chosen \in Sessions \cup {None}
  /\ closed \in BOOLEAN /\ survived \in BOOLEAN /\ troubles \in Nat

\* The index leads to hosts in the map, and a host has its session from its creation on.
Indexed ==
  /\ index \in [Sessions -> Hosts \cup {None}]
  /\ \A s \in Sessions : index[s] # None => index[s] \in runtimes /\ sess[index[s]] = s
  /\ active \in runtimes \cup {None}
  /\ \A h \in Hosts : proc[h] # "none" => sess[h] \in Sessions
  /\ \A h \in Hosts : proc[h] = "none" =>
       h \notin runtimes /\ h \notin reloads /\ queue[h] = <<>> /\ reload[h] = "no"

\* What a call is about.
About(c) ==
  /\ call[c].pc = "no" => call[c].kind = "none"
  /\ call[c].host # None => proc[call[c].host] # "none"
  /\ call[c].kind = "start" => call[c].session \in Sessions
  /\ call[c].pc = "booting" => call[c].kind = "start" /\ call[c].host # None
  /\ call[c].pc = "reading" => /\ call[c].kind \in {"start", "resume"} /\ call[c].host # None
                               /\ sess[call[c].host] = call[c].session
  /\ call[c].kind = "resume" => call[c].host # None /\ sess[call[c].host] = call[c].session
  /\ call[c].sel <= selection
  /\ call[c].kind \in {"start", "resume"} /\ call[c].sel = selection => call[c].session = chosen

Called == \A c \in Calls : About(c)

\* A queue has the commands of its host; the one that has it restarted is first.
Queued ==
  /\ \A h \in Hosts : \A i \in 1..Len(queue[h]) : queue[h][i] # RELOAD =>
       call[queue[h][i]].kind \in {"prompt", "plain"} /\ call[queue[h][i]].host = h
  /\ \A h \in Hosts : reload[h] # "no" =>
       queue[h] # <<>> /\ (Head(queue[h]) = RELOAD \/ call[Head(queue[h])].pc = "applying")

Boots(c, h) == call[c].pc = "booting" /\ call[c].host = h

\* A host that was not up yet.
Fresh(h) ==
  /\ proc[h] \in {"booting", "ending", "down"}
  /\ reload[h] \in {"no", "asking"}
  /\ queue[h] \in {<<>>, <<RELOAD>>}
  /\ proc[h] = "booting" => h \in runtimes /\ (queue[h] # <<>> => h \in reloads)
  /\ proc[h] # "booting" => queue[h] = <<>> \/ reload[h] = "asking"

\* A start that boots is the first of its session; its host is in the map as
\* long as it boots and is not restarted on behalf of a reload.
Booting ==
  \A c \in Calls, h \in Hosts : Boots(c, h) =>
    /\ call[c].kind = "start" /\ sess[h] = call[c].session
    /\ starts[call[c].session] # <<>> /\ Head(starts[call[c].session]) = c
    /\ Fresh(h)

\* A host in the map is the one its session leads to or is being booted by a start.
Single ==
  ~survived =>
    /\ \A h \in runtimes : index[sess[h]] = h \/ \E c \in Calls : Boots(c, h)
    /\ \A c \in Calls : call[c].pc = "booting" => index[call[c].session] = None

IInv == Typed /\ Indexed /\ Called /\ Queued /\ Booting /\ Single /\ NoOrphan

-----------------------------------------------------------------------------
(* What the parts of a step do.                                             *)

\* A call that was asked keeps what it is about.
SameCall(c) ==
  /\ call'[c].kind = call[c].kind /\ call'[c].host = call[c].host
  /\ call'[c].session = call[c].session /\ call'[c].sel = call[c].sel

\* So does a start that finds a worker, but for the host.
Finds(c) ==
  /\ call[c].kind = "start" /\ call[c].pc # "booting"
  /\ call'[c].kind = "start" /\ call'[c].pc = "reading"

SameCalls ==
  /\ call' \in [Calls -> CallRecords]
  /\ \A c \in Calls : call[c].kind # "none" => SameCall(c) \/ Finds(c)

Places == Pending \cup {"no", "done", "failed"}

LEMMA GotoFacts ==
  ASSUME IInv, NEW c \in Calls, NEW pc \in Places, Goto(c, pc)
  PROVE  /\ SameCalls /\ (\A d \in Calls : SameCall(d))
         /\ call'[c].pc = pc /\ \A d \in Calls \ {c} : call'[d] = call[d]
<1>1. call \in [Calls -> CallRecords] /\ call' = [call EXCEPT ![c].pc = pc]
  BY DEF IInv, Typed, Goto
<1>2. QED
  BY <1>1 DEF SameCalls, SameCall, CallRecords, Places

LEMMA Moved ==
  ASSUME NEW r \in CallRecords, NEW pc \in Places
  PROVE  /\ [r EXCEPT !.pc = pc] \in CallRecords /\ [r EXCEPT !.pc = pc].pc = pc
         /\ [r EXCEPT !.pc = pc].kind = r.kind /\ [r EXCEPT !.pc = pc].host = r.host
         /\ [r EXCEPT !.pc = pc].session = r.session /\ [r EXCEPT !.pc = pc].sel = r.sel
  BY DEF CallRecords, Places

LEMMA RejectedRecords ==
  ASSUME IInv, NEW H, NEW c \in Calls
  PROVE  LET r == Rejected(H)[c] IN
         /\ r \in CallRecords
         /\ r.kind = call[c].kind /\ r.host = call[c].host /\ r.session = call[c].session /\ r.sel = call[c].sel
         /\ r = call[c] \/ (call[c].pc \in {"reading", "requested", "asked", "answered"} /\ r.pc = "rejected")
<1>1. PICK r : r = Rejected(H)[c]
  OBVIOUS
<1>2. \/ r = call[c]
      \/ call[c].pc \in {"reading", "requested", "asked", "answered"} /\ r = [call[c] EXCEPT !.pc = "rejected"]
  BY <1>1 DEF Rejected, AskingHost
<1>3. call[c] \in CallRecords /\ "rejected" \in Places
  BY DEF IInv, Typed, Places, Pending
<1>4. /\ r \in CallRecords
      /\ r.kind = call[c].kind /\ r.host = call[c].host /\ r.session = call[c].session /\ r.sel = call[c].sel
      /\ r = call[c] \/ (call[c].pc \in {"reading", "requested", "asked", "answered"} /\ r.pc = "rejected")
  <2>1. CASE r = call[c]
    BY <1>3, <2>1
  <2>2. CASE call[c].pc \in {"reading", "requested", "asked", "answered"} /\ r = [call[c] EXCEPT !.pc = "rejected"]
    BY <1>3, <2>2, Moved
  <2>3. QED
    BY <1>2, <2>1, <2>2
<1>5. QED
  BY <1>1, <1>4

LEMMA RejectedFacts ==
  ASSUME IInv, NEW H, call' = Rejected(H)
  PROVE  /\ SameCalls /\ \A c \in Calls : SameCall(c)
         /\ \A c \in Calls : \/ call'[c] = call[c]
                             \/ /\ call[c].pc \in {"reading", "requested", "asked", "answered"}
                                /\ call'[c].pc = "rejected"
<1>1. ASSUME NEW c \in Calls
      PROVE  /\ call'[c] \in CallRecords /\ SameCall(c)
             /\ call'[c] = call[c] \/ (call[c].pc \in {"reading", "requested", "asked", "answered"} /\ call'[c].pc = "rejected")
  BY RejectedRecords DEF SameCall
<1>2. QED
  BY <1>1 DEF SameCalls, Rejected

LEMMA TailFacts ==
  ASSUME NEW S, NEW q \in Seq(S), q # <<>>
  PROVE  /\ Head(q) \in S /\ Head(q) = q[1] /\ 1 \in 1..Len(q)
         /\ Tail(q) \in Seq(S)
         /\ \A i \in 1..Len(Tail(q)) : i + 1 \in 1..Len(q) /\ Tail(q)[i] = q[i + 1]
<1>1. Len(q) \in Nat /\ Len(q) # 0
  BY EmptySeq, LenProperties
<1>2. /\ Head(q) \in S /\ Head(q) = q[1] /\ Tail(q) \in Seq(S) /\ Len(Tail(q)) = Len(q) - 1
      /\ \A i \in 1..Len(Tail(q)) : Tail(q)[i] = q[i + 1]
  BY HeadTailProperties
<1>3. QED
  BY <1>1, <1>2

LEMMA LeaveFacts ==
  ASSUME IInv, NEW c \in Calls, Leave(c)
  PROVE  /\ queue' \in [Hosts -> Seq(Calls \cup {RELOAD})] /\ starts' \in [Sessions -> Seq(Calls)]
         /\ \A h \in Hosts : \/ queue'[h] = queue[h]
                             \/ queue[h] # <<>> /\ Head(queue[h]) = c /\ queue'[h] = Tail(queue[h])
         /\ \A s \in Sessions : starts[s] # <<>> /\ Head(starts[s]) # c => starts'[s] = starts[s]
<1>1. ASSUME NEW h \in Hosts
      PROVE  /\ queue'[h] \in Seq(Calls \cup {RELOAD})
             /\ \/ queue'[h] = queue[h]
                \/ queue[h] # <<>> /\ Head(queue[h]) = c /\ queue'[h] = Tail(queue[h])
  <2>1. queue[h] \in Seq(Calls \cup {RELOAD})
    BY DEF IInv, Typed
  <2>2. queue'[h] = IF queue[h] # <<>> /\ Head(queue[h]) = c THEN Tail(queue[h]) ELSE queue[h]
    BY DEF Leave, isFirst
  <2>3. QED
    BY <2>1, <2>2, TailFacts
<1>2. ASSUME NEW s \in Sessions
      PROVE  /\ starts'[s] \in Seq(Calls)
             /\ starts[s] # <<>> /\ Head(starts[s]) # c => starts'[s] = starts[s]
  <2>1. starts[s] \in Seq(Calls)
    BY DEF IInv, Typed
  <2>2. starts'[s] = IF starts[s] # <<>> /\ Head(starts[s]) = c THEN Tail(starts[s]) ELSE starts[s]
    BY DEF Leave, isFirst
  <2>3. QED
    BY <2>1, <2>2, TailFacts
<1>3. QED
  BY <1>1, <1>2 DEF Leave

-----------------------------------------------------------------------------
(* When the parts of the invariant stay.                                    *)

LEMMA AboutStays ==
  ASSUME IInv, NEW c \in Calls, SameCall(c), call'[c].pc \in {"no", "booting", "reading"} => call'[c].pc = call[c].pc,
         \A h \in Hosts : proc[h] # "none" => proc'[h] # "none" /\ sess'[h] = sess[h],
         selection' \in Nat, selection' > selection \/ UNCHANGED <<selection, chosen>>
  PROVE  About(c)'
<1>1. call[c].host \in Hosts \cup {None} /\ call[c].sel \in Nat /\ selection \in Nat
  BY DEF IInv, Typed, CallRecords
<1>2. About(c)
  BY DEF IInv, Called
<1>3. QED
  BY <1>1, <1>2 DEF About, SameCall

LEMMA QueuedStays ==
  ASSUME IInv, SameCalls,
         \A h \in Hosts : queue'[h] = queue[h] \/ (queue[h] # <<>> /\ queue'[h] = Tail(queue[h])),
         \A h \in Hosts : reload'[h] # "no" =>
           /\ queue'[h] = queue[h] /\ queue[h] # <<>>
           /\ Head(queue[h]) = RELOAD \/ call'[Head(queue[h])].pc = "applying"
  PROVE  Queued'
<1>1. ASSUME NEW h \in Hosts, NEW i \in 1..Len(queue'[h]), queue'[h][i] # RELOAD
      PROVE  call'[queue'[h][i]].kind \in {"prompt", "plain"} /\ call'[queue'[h][i]].host = h
  <2>1. queue[h] \in Seq(Calls \cup {RELOAD})
    BY DEF IInv, Typed
  <2>2. PICK j \in 1..Len(queue[h]) : queue'[h][i] = queue[h][j]
    <3>1. CASE queue'[h] = queue[h]
      BY <3>1
    <3>2. CASE queue[h] # <<>> /\ queue'[h] = Tail(queue[h])
      BY <2>1, <3>2, TailFacts
    <3>3. QED
      BY <3>1, <3>2
  <2>3. queue[h][j] \in Calls
    BY <1>1, <2>1, <2>2, ElementOfSeq
  <2>4. call[queue[h][j]].kind \in {"prompt", "plain"} /\ call[queue[h][j]].host = h
    BY <1>1, <2>2 DEF IInv, Queued
  <2>5. QED
    BY <2>2, <2>3, <2>4 DEF SameCalls, SameCall, Finds
<1>2. QED
  BY <1>1 DEF Queued

\* The head of a queue that is being reloaded.
LEMMA ReloadedHead ==
  ASSUME IInv, NEW h \in Hosts, reload[h] # "no"
  PROVE  /\ queue[h] # <<>> /\ Head(queue[h]) \in Calls \cup {RELOAD}
         /\ Head(queue[h]) # RELOAD => /\ call[Head(queue[h])].pc = "applying"
                                       /\ call[Head(queue[h])].kind \in {"prompt", "plain"}
                                       /\ call[Head(queue[h])].host = h
<1>1. queue[h] \in Seq(Calls \cup {RELOAD}) /\ queue[h] # <<>>
  BY DEF IInv, Typed, Queued
<1>2. Head(queue[h]) \in Calls \cup {RELOAD} /\ Head(queue[h]) = queue[h][1] /\ 1 \in 1..Len(queue[h])
  BY <1>1, TailFacts
<1>3. QED
  BY <1>1, <1>2 DEF IInv, Queued

LEMMA BootingStays ==
  ASSUME IInv, SameCalls, \A c \in Calls : call'[c].pc = "booting" => call[c].pc = "booting",
         \A h \in Hosts : proc[h] # "none" => sess'[h] = sess[h],
         \A c \in Calls : call'[c].pc = "booting" =>
           LET s == call[c].session IN starts[s] # <<>> /\ Head(starts[s]) = c => starts'[s] # <<>> /\ Head(starts'[s]) = c,
         \A c \in Calls, h \in Hosts : Boots(c, h) /\ call'[c].pc = "booting" => Fresh(h)'
  PROVE  Booting'
<1>1. ASSUME NEW c \in Calls, NEW h \in Hosts, Boots(c, h)'
      PROVE  /\ call'[c].kind = "start" /\ sess'[h] = call'[c].session
             /\ starts'[call'[c].session] # <<>> /\ Head(starts'[call'[c].session]) = c
             /\ Fresh(h)'
  <2>1. call'[c].pc = "booting" /\ call[c].pc = "booting" /\ call'[c].host = h
    BY <1>1 DEF Boots
  <2>2. SameCall(c)
    BY <2>1 DEF IInv, Called, About, SameCalls, Finds
  <2>3. Boots(c, h)
    BY <2>1, <2>2 DEF Boots, SameCall
  <2>4. proc[h] # "none"
    BY <2>3 DEF IInv, Booting, Fresh
  <2>5. QED
    BY <2>1, <2>2, <2>3, <2>4 DEF IInv, Booting, SameCall
<1>2. QED
  BY <1>1 DEF Booting

\* Two starts do not boot for one session.
LEMMA OneBoots ==
  ASSUME IInv, NEW c \in Calls, NEW d \in Calls, call[c].pc = "booting", call[d].pc = "booting",
         NEW g \in Hosts, NEW h \in Hosts, call[c].host = g, call[d].host = h, sess[g] = sess[h]
  PROVE  c = d
  BY DEF IInv, Booting, Boots

\* A reload under way goes on.
LEMMA ReloadsStay ==
  ASSUME IInv, UNCHANGED reload, \A h \in Hosts : reload[h] # "no" => queue'[h] = queue[h],
         \A c \in Calls : call[c].pc = "applying" => call'[c].pc = "applying"
  PROVE  \A h \in Hosts : reload'[h] # "no" =>
           /\ queue'[h] = queue[h] /\ queue[h] # <<>>
           /\ Head(queue[h]) = RELOAD \/ call'[Head(queue[h])].pc = "applying"
  BY ReloadedHead

\* A host that is left alone stays as fresh as it was.
LEMMA FreshStays ==
  ASSUME NEW h \in Hosts, Fresh(h), proc'[h] = proc[h], reload'[h] = reload[h], queue'[h] = queue[h],
         h \in runtimes => h \in runtimes', h \in reloads => h \in reloads'
  PROVE  Fresh(h)'
  BY DEF Fresh

LEMMA SingleStays ==
  ASSUME IInv, SameCalls, survived' = survived, \A c \in Calls : call'[c].pc = "booting" => call[c].pc = "booting",
         \A h \in runtimes' : /\ h \in runtimes /\ sess'[h] = sess[h]
                              /\ index[sess[h]] = h => index'[sess[h]] = h,
         \A s \in Sessions : index'[s] \in {index[s], None},
         \A c \in Calls : \A h \in runtimes' : Boots(c, h) => call'[c].pc = "booting"
  PROVE  Single'
<1>1. ASSUME NEW c \in Calls, call'[c].pc = "booting"
      PROVE  call[c].pc = "booting" /\ SameCall(c) /\ call[c].session \in Sessions
  BY <1>1 DEF SameCalls, Finds, IInv, Called, About
<1>2. ASSUME NEW h \in runtimes', NEW c \in Calls, Boots(c, h) PROVE Boots(c, h)'
  BY <1>1, <1>2 DEF Boots, SameCall
<1>3. ASSUME ~survived', NEW h \in runtimes' PROVE index'[sess'[h]] = h \/ \E c \in Calls : Boots(c, h)'
  BY <1>2, <1>3 DEF IInv, Single
<1>4. ASSUME ~survived', NEW c \in Calls, call'[c].pc = "booting" PROVE index'[call'[c].session] = None
  BY <1>1, <1>4 DEF IInv, Single, SameCall
<1>5. QED
  BY <1>3, <1>4 DEF Single

LEMMA RemoveFacts ==
  ASSUME IInv, NEW h, removeHost(h)
  PROVE  /\ runtimes' = runtimes \ {h} /\ index' \in [Sessions -> Hosts \cup {None}]
         /\ active' \in runtimes' \cup {None}
         /\ \A s \in Sessions : /\ index'[s] \in {index[s], None} /\ (index[s] # h => index'[s] = index[s])
                                /\ index'[s] # None => index'[s] \in runtimes' /\ sess[index'[s]] = s
  BY DEF IInv, Indexed, removeHost

\* The hosts that stay in the map stay in the index.
LEMMA RemoveKeeps ==
  ASSUME IInv, SameCalls, NEW h, removeHost(h), UNCHANGED sess, survived' = survived,
         \A d \in Calls : call'[d].pc = "booting" => call[d].pc = "booting",
         \A d \in Calls : \A g \in runtimes \ {h} : Boots(d, g) => call'[d].pc = "booting"
  PROVE  Single'
<1>1. /\ runtimes' = runtimes \ {h}
      /\ \A s \in Sessions : /\ index'[s] \in {index[s], None} /\ (index[s] # h => index'[s] = index[s])
                             /\ index'[s] # None => index'[s] \in runtimes' /\ sess[index'[s]] = s
  BY RemoveFacts
<1>2. ASSUME NEW g \in runtimes' PROVE g \in runtimes /\ sess'[g] = sess[g] /\ (index[sess[g]] = g => index'[sess[g]] = g)
  <2>1. g \in runtimes /\ g \in Hosts /\ g # h
    BY <1>1 DEF IInv, Typed
  <2>2. sess[g] \in Sessions
    BY <2>1 DEF IInv, Indexed
  <2>3. QED
    BY <1>1, <2>1, <2>2
<1>3. QED
  BY <1>1, <1>2, SingleStays

LEMMA HostStopFacts ==
  ASSUME IInv, NEW H \in SUBSET Hosts, NEW who \in {"stop", "all", "clean", "reload"}, HostStop(H, who)
  PROVE  /\ proc' \in [Hosts -> {"none", "booting", "up", "ending", "down"}]
         /\ ender' \in [Hosts -> {"no", "stop", "all", "clean", "reload"}]
         /\ busy' \in [Hosts -> BOOLEAN]
         /\ \A h \in Hosts : proc'[h] = "ending" <=> ender'[h] # "no"
         /\ \A h \in Hosts : \/ proc'[h] = proc[h] /\ ~(h \in H /\ isRunning(h))
                             \/ h \in H /\ isRunning(h) /\ proc'[h] = "ending"
  BY DEF IInv, Typed, HostStop, isRunning

\* A call that leaves the queues and had nobody restarted.
LEMMA LeaveKeeps ==
  ASSUME IInv, SameCalls, NEW c \in Calls, Leave(c), call[c].pc # "applying", UNCHANGED reload,
         \A d \in Calls : call[d].pc = "applying" => call'[d].pc = "applying"
  PROVE  /\ Queued' /\ queue' \in [Hosts -> Seq(Calls \cup {RELOAD})] /\ starts' \in [Sessions -> Seq(Calls)]
         /\ \A h \in Hosts : queue[h] \in {<<>>, <<RELOAD>>} => queue'[h] = queue[h]
         /\ \A h \in Hosts : queue[h] = <<>> => queue'[h] = <<>>
         /\ \A s \in Sessions : starts[s] # <<>> /\ Head(starts[s]) # c => starts'[s] = starts[s]
<1>1. RELOAD # c
  BY DEF RELOAD, Calls
<1>2. \A h \in Hosts : reload[h] # "no" => queue[h] # <<>> /\ Head(queue[h]) # c
  BY <1>1, ReloadedHead
<1>3. \A h \in Hosts : reload[h] # "no" => queue'[h] = queue[h]
  BY <1>2, LeaveFacts
<1>4. Queued'
  BY <1>3, LeaveFacts, ReloadsStay, QueuedStays
<1>5. Head(<<RELOAD>>) = RELOAD
  OBVIOUS
<1>6. QED
  BY <1>1, <1>4, <1>5, LeaveFacts

\* Steps that move no host, session or call.
LEMMA Unmoved ==
  ASSUME IInv, UNCHANGED <<proc, ender, sess, runtimes, index, jobVars, call, survived, abandoned, closed>>,
         busy' \in [Hosts -> BOOLEAN], stale' \in [Hosts -> BOOLEAN], troubles' \in Nat,
         active' \in runtimes \cup {None}, chosen' \in Sessions \cup {None},
         selection' \in Nat, selection' > selection \/ UNCHANGED <<selection, chosen>>
  PROVE  IInv'
<1>1. Typed'
  BY DEF IInv, Typed, jobVars
<1>2. Indexed' /\ NoOrphan'
  BY DEF IInv, Indexed, NoOrphan, isRunning, jobVars
<1>3. Called'
  BY AboutStays DEF Called, SameCall
<1>4. Queued' /\ Single'
  BY DEF IInv, Queued, Single, Boots, jobVars
<1>5. Booting'
  BY DEF IInv, Booting, Boots, Fresh, jobVars
<1>6. QED
  BY <1>1, <1>2, <1>3, <1>4, <1>5 DEF IInv

\* A call that goes on, and nothing else.
LEMMA Moves ==
  ASSUME IInv, NEW c \in Calls, NEW pc \in Places \ {"no", "booting"}, Goto(c, pc),
         call[c].pc \notin {"booting", "applying"}, pc = "reading" => call[c].kind = "resume",
         UNCHANGED <<hostVars, mapVars, jobVars, closed, bookVars>>
  PROVE  IInv'
<1>1. SameCalls /\ (\A d \in Calls : SameCall(d)) /\ call'[c].pc = pc /\ \A d \in Calls \ {c} : call'[d] = call[d]
  BY GotoFacts
<1>2. Typed'
  BY <1>1 DEF IInv, Typed, SameCalls, hostVars, mapVars, jobVars, bookVars
<1>3. Indexed' /\ NoOrphan'
  BY DEF IInv, Indexed, NoOrphan, isRunning, hostVars, mapVars, jobVars, bookVars
<1>4. Called'
  <2>1. ASSUME NEW d \in Calls \ {c} PROVE About(d)'
    BY <1>1, AboutStays DEF hostVars, mapVars, bookVars, IInv, Typed
  <2>2. About(c)'
    <3>1. About(c) /\ SameCall(c)
      BY <1>1 DEF IInv, Called
    <3>2. QED
      BY <1>1, <3>1 DEF About, SameCall, hostVars, mapVars, bookVars
  <2>3. QED
    BY <2>1, <2>2 DEF Called
<1>5. Queued'
  BY <1>1, ReloadsStay, QueuedStays DEF jobVars
<1>6. \A d \in Calls : (call'[d].pc = "booting") = (call[d].pc = "booting")
  BY <1>1
<1>7. Booting'
  <2>1. \A d \in Calls, h \in Hosts : Boots(d, h) => Fresh(h)'
    BY FreshStays DEF IInv, Booting, hostVars, mapVars, jobVars
  <2>2. QED
    BY <1>1, <1>6, <2>1, BootingStays DEF hostVars, jobVars
<1>8. Single'
  <2>1. \A d \in Calls : \A h \in runtimes' : Boots(d, h) => call'[d].pc = "booting"
    BY <1>6 DEF Boots
  <2>2. QED
    BY <1>1, <1>6, <2>1, SingleStays DEF hostVars, mapVars, bookVars
<1>9. QED
  BY <1>2, <1>3, <1>4, <1>5, <1>7, <1>8 DEF IInv

\* A call that ends and leaves the queues.
LEMMA Ends ==
  ASSUME IInv, NEW c \in Calls, NEW pc \in {"done", "failed"}, Goto(c, pc), Leave(c),
         call[c].pc \notin {"booting", "applying"},
         UNCHANGED <<proc, ender, sess, stale, runtimes, index, selection, reloads, reload, closed, bookVars>>,
         busy' \in [Hosts -> BOOLEAN], active' \in runtimes \cup {None}
  PROVE  IInv'
<1>0. pc \in Places
  BY DEF Places
<1>1. SameCalls /\ (\A d \in Calls : SameCall(d)) /\ call'[c].pc = pc /\ \A d \in Calls \ {c} : call'[d] = call[d]
  BY <1>0, GotoFacts
<1>2. /\ Queued' /\ queue' \in [Hosts -> Seq(Calls \cup {RELOAD})] /\ starts' \in [Sessions -> Seq(Calls)]
      /\ \A h \in Hosts : queue[h] \in {<<>>, <<RELOAD>>} => queue'[h] = queue[h]
      /\ \A h \in Hosts : queue[h] = <<>> => queue'[h] = <<>>
      /\ \A s \in Sessions : starts[s] # <<>> /\ Head(starts[s]) # c => starts'[s] = starts[s]
  BY <1>1, LeaveKeeps
<1>3. Typed'
  BY <1>1, <1>2 DEF IInv, Typed, SameCalls, bookVars
<1>4. Indexed' /\ NoOrphan'
  BY <1>2 DEF IInv, Indexed, NoOrphan, isRunning, bookVars
<1>5. Called'
  BY <1>1, AboutStays DEF Called, bookVars, IInv, Typed
<1>6. \A d \in Calls : (call'[d].pc = "booting") = (call[d].pc = "booting")
  BY <1>1
<1>7. Booting'
  <2>1. \A d \in Calls, h \in Hosts : Boots(d, h) => Fresh(h)'
    <3>1. \A d \in Calls, h \in Hosts : Boots(d, h) => Fresh(h) /\ queue'[h] = queue[h]
      BY <1>2 DEF IInv, Booting, Fresh
    <3>2. QED
      BY <3>1, FreshStays
  <2>2. ASSUME NEW d \in Calls, call'[d].pc = "booting"
        PROVE  call[d].session \in Sessions /\ d # c
    BY <1>1, <1>6, <2>2 DEF IInv, Called, About
  <2>3. \A d \in Calls : call'[d].pc = "booting" =>
          LET s == call[d].session IN starts[s] # <<>> /\ Head(starts[s]) = d => starts'[s] # <<>> /\ Head(starts'[s]) = d
    BY <1>2, <2>2
  <2>4. QED
    BY <1>1, <1>6, <2>1, <2>3, BootingStays
<1>8. Single'
  <2>1. \A d \in Calls : \A h \in runtimes' : Boots(d, h) => call'[d].pc = "booting"
    BY <1>6 DEF Boots
  <2>2. QED
    BY <1>1, <1>6, <2>1, SingleStays DEF bookVars
<1>9. QED
  BY <1>2, <1>3, <1>4, <1>5, <1>7, <1>8 DEF IInv

-----------------------------------------------------------------------------
(* Starts and resumes.                                                      *)

LEMMA Initially == Init => IInv
<1> SUFFICES ASSUME Init PROVE IInv
  OBVIOUS
<1>1. Idle \in CallRecords
  BY DEF Idle, CallRecords
<1>2. Typed
  BY <1>1, EmptySeq DEF Init, Typed
<1>3. Indexed
  BY DEF Init, Indexed
<1>4. Called /\ Booting /\ Single
  BY DEF Init, Called, About, Booting, Boots, Single, Idle
<1>5. Queued
  BY EmptySeq DEF Init, Queued
<1>6. NoOrphan
  BY DEF Init, NoOrphan, isRunning
<1>7. QED
  BY <1>2, <1>3, <1>4, <1>5, <1>6 DEF IInv

\* A new call.
LEMMA Asked ==
  ASSUME IInv, NEW c \in Calls, Asks(c), NEW r \in CallRecords, call' = [call EXCEPT ![c] = r]
  PROVE  /\ SameCalls /\ call'[c] = r /\ \A d \in Calls \ {c} : call'[d] = call[d]
         /\ call[c].pc = "no" /\ call[c].kind = "none"
         /\ \A h \in Hosts : \A i \in 1..Len(queue[h]) : queue[h][i] # c
<1>1. call[c].pc = "no" /\ call[c].kind = "none" /\ RELOAD # c
  BY DEF Asks, IInv, Called, About, RELOAD, Calls
<1>2. call' \in [Calls -> CallRecords] /\ call'[c] = r /\ \A d \in Calls \ {c} : call'[d] = call[d]
  BY DEF IInv, Typed
<1>3. QED
  BY <1>1, <1>2 DEF IInv, Queued, SameCalls, SameCall

LEMMA StartKeeps == ASSUME IInv, NEW c \in Calls, NEW s \in Sessions, Start(c, s) PROVE IInv'
<1> DEFINE r == [kind |-> "start", host |-> None, session |-> s, sel |-> selection + 1, pc |-> "wait"]
<1>1. /\ Asks(c) /\ selection' = selection + 1 /\ chosen' = s /\ call' = [call EXCEPT ![c] = r]
      /\ UNCHANGED <<hostVars, runtimes, index, active, jobVars, closed, survived, abandoned, troubles>>
  BY DEF Start
<1>2. r \in CallRecords /\ selection' \in Nat /\ selection \in Nat
  BY <1>1 DEF CallRecords, Pending, IInv, Typed
<1>3. SameCalls /\ call'[c] = r /\ (\A d \in Calls \ {c} : call'[d] = call[d]) /\ call[c].pc = "no"
  BY <1>1, <1>2, Asked
<1>4. Typed'
  BY <1>1, <1>2, <1>3 DEF IInv, Typed, SameCalls, hostVars, jobVars
<1>5. Indexed' /\ NoOrphan'
  BY <1>1 DEF IInv, Indexed, NoOrphan, isRunning, hostVars, jobVars
<1>6. Called'
  <2>1. About(c)'
    BY <1>1, <1>2, <1>3 DEF About
  <2>2. ASSUME NEW d \in Calls \ {c} PROVE About(d)'
    BY <1>1, <1>2, <1>3, AboutStays DEF SameCall, hostVars
  <2>3. QED
    BY <2>1, <2>2 DEF Called
<1>7. Queued'
  BY <1>1, <1>3, ReloadsStay, QueuedStays DEF jobVars
<1>8. Booting'
  <2>1. \A d \in Calls, h \in Hosts : Boots(d, h) => Fresh(h)'
    BY <1>1 DEF IInv, Booting, Fresh, hostVars, jobVars
  <2>2. QED
    BY <1>1, <1>3, <2>1, BootingStays DEF hostVars, jobVars
<1>9. Single'
  BY <1>1, <1>3 DEF IInv, Single, Boots, hostVars
<1>10. QED
  BY <1>4, <1>5, <1>6, <1>7, <1>8, <1>9 DEF IInv

LEMMA ResumeKeeps == ASSUME IInv, NEW c \in Calls, NEW h \in Hosts, Resume(c, h) PROVE IInv'
<1> DEFINE r == [kind |-> "resume", host |-> h, session |-> sess[h], sel |-> selection + 1, pc |-> "wait"]
<1>1. /\ Asks(c) /\ selection' = selection + 1 /\ chosen' = sess[h] /\ call' = [call EXCEPT ![c] = r] /\ h \in runtimes
      /\ UNCHANGED <<hostVars, runtimes, index, active, jobVars, closed, survived, abandoned, troubles>>
  BY DEF Resume
<1>2. r \in CallRecords /\ selection' \in Nat /\ selection \in Nat /\ proc[h] # "none" /\ h # None /\ sess[h] \in Sessions
  BY <1>1 DEF CallRecords, Pending, IInv, Typed, Indexed, Hosts, None
<1>3. SameCalls /\ call'[c] = r /\ (\A d \in Calls \ {c} : call'[d] = call[d]) /\ call[c].pc = "no"
  BY <1>1, <1>2, Asked
<1>4. Typed'
  BY <1>1, <1>2, <1>3 DEF IInv, Typed, SameCalls, hostVars, jobVars
<1>5. Indexed' /\ NoOrphan'
  BY <1>1 DEF IInv, Indexed, NoOrphan, isRunning, hostVars, jobVars
<1>6. Called'
  <2>1. About(c)'
    BY <1>1, <1>2, <1>3 DEF About, hostVars
  <2>2. ASSUME NEW d \in Calls \ {c} PROVE About(d)'
    BY <1>1, <1>2, <1>3, AboutStays DEF SameCall, hostVars
  <2>3. QED
    BY <2>1, <2>2 DEF Called
<1>7. Queued'
  BY <1>1, <1>3, ReloadsStay, QueuedStays DEF jobVars
<1>8. Booting'
  <2>1. \A d \in Calls, g \in Hosts : Boots(d, g) => Fresh(g)'
    BY <1>1 DEF IInv, Booting, Fresh, hostVars, jobVars
  <2>2. QED
    BY <1>1, <1>3, <2>1, BootingStays DEF hostVars, jobVars
<1>9. Single'
  BY <1>1, <1>3 DEF IInv, Single, Boots, hostVars
<1>10. QED
  BY <1>4, <1>5, <1>6, <1>7, <1>8, <1>9 DEF IInv

\* A start that finds a worker has it read.
LEMMA FindsKeeps ==
  ASSUME IInv, NEW c \in Calls, call[c].kind = "start", call[c].pc \in {"wait", "queued"},
         NEW h, h = index[call[c].session], h # None,
         call' = [call EXCEPT ![c].pc = "reading", ![c].host = h],
         UNCHANGED <<hostVars, mapVars, jobVars, closed, bookVars>>
  PROVE  IInv'
<1>1. /\ call[c].session \in Sessions /\ h \in runtimes /\ h \in Hosts /\ sess[h] = call[c].session /\ proc[h] # "none"
  BY DEF IInv, Typed, Indexed, Called, About
<1>2. call' = [call EXCEPT ![c] = [call[c] EXCEPT !.pc = "reading", !.host = h]] /\ call[c] \in CallRecords
  BY DEF IInv, Typed
<1>3. /\ call' \in [Calls -> CallRecords] /\ \A d \in Calls \ {c} : call'[d] = call[d]
      /\ call'[c].kind = "start" /\ call'[c].pc = "reading" /\ call'[c].host = h
      /\ call'[c].session = call[c].session /\ call'[c].sel = call[c].sel
  <2>1. PICK r : r = [call[c] EXCEPT !.pc = "reading", !.host = h]
    OBVIOUS
  <2>2. /\ r \in CallRecords /\ r.kind = call[c].kind /\ r.pc = "reading" /\ r.host = h
        /\ r.session = call[c].session /\ r.sel = call[c].sel
    BY <1>1, <1>2, <2>1 DEF CallRecords, Pending
  <2>3. call' = [call EXCEPT ![c] = r] /\ call \in [Calls -> CallRecords]
    BY <1>2, <2>1 DEF IInv, Typed
  <2>4. call' \in [Calls -> CallRecords] /\ call'[c] = r /\ \A d \in Calls \ {c} : call'[d] = call[d]
    BY <2>2, <2>3
  <2>5. QED
    BY <2>2, <2>4
<1>4. SameCalls
  BY <1>3 DEF SameCalls, SameCall, Finds
<1>5. Typed'
  BY <1>3 DEF IInv, Typed, hostVars, mapVars, jobVars, bookVars
<1>6. Indexed' /\ NoOrphan'
  BY DEF IInv, Indexed, NoOrphan, isRunning, hostVars, mapVars, jobVars, bookVars
<1>7. Called'
  <2>1. ASSUME NEW d \in Calls \ {c} PROVE About(d)'
    BY <1>3, AboutStays DEF SameCall, hostVars, mapVars, bookVars, IInv, Typed
  <2>2. About(c)'
    <3>1. About(c)
      BY DEF IInv, Called
    <3>2. QED
      BY <1>1, <1>3, <3>1 DEF About, hostVars, mapVars, bookVars
  <2>3. QED
    BY <2>1, <2>2 DEF Called
<1>8. Queued'
  BY <1>3, <1>4, ReloadsStay, QueuedStays DEF jobVars
<1>9. \A d \in Calls : (call'[d].pc = "booting") = (call[d].pc = "booting")
  BY <1>3
<1>10. Booting'
  <2>1. \A d \in Calls, g \in Hosts : Boots(d, g) => Fresh(g)'
    BY FreshStays DEF IInv, Booting, hostVars, mapVars, jobVars
  <2>2. QED
    BY <1>4, <1>9, <2>1, BootingStays DEF hostVars, jobVars
<1>11. Single'
  <2>1. \A d \in Calls : \A g \in runtimes' : Boots(d, g) => call'[d].pc = "booting"
    BY <1>9 DEF Boots
  <2>2. QED
    BY <1>4, <1>9, <2>1, SingleStays DEF hostVars, mapVars, bookVars
<1>12. QED
  BY <1>5, <1>6, <1>7, <1>8, <1>10, <1>11 DEF IInv

LEMMA StartFindsKeeps == ASSUME IInv, NEW c \in Calls, StartFinds(c) PROVE IInv'
<1> DEFINE s == call[c].session
<1>1. PICK h : h = index[s]
  OBVIOUS
<1>2. /\ call[c].pc = "wait" /\ call[c].kind = "start" /\ s \in Sessions
      /\ UNCHANGED <<hostVars, selection, queue, reloads, reload, closed, bookVars>>
  BY DEF StartFinds, IInv, Called, About
<1>3. CASE h # None /\ isRunning(h)
  BY <1>1, <1>2, <1>3, FindsKeeps DEF StartFinds, findBySession, mapVars, jobVars
<1>4. CASE ~(h # None /\ isRunning(h))
  <2>1. Goto(c, "queued") /\ starts' = [starts EXCEPT ![s] = Append(@, c)] /\ removeHost(h) /\ "queued" \in Places
    BY <1>1, <1>4 DEF StartFinds, findBySession, Places, Pending
  <2>2. SameCalls /\ (\A d \in Calls : SameCall(d)) /\ call'[c].pc = "queued" /\ \A d \in Calls \ {c} : call'[d] = call[d]
    BY <2>1, GotoFacts
  <2>3. starts[s] \in Seq(Calls) /\ starts' \in [Sessions -> Seq(Calls)]
    BY <1>2, <2>1, AppendProperties DEF IInv, Typed
  <2>4. \A t \in Sessions : starts[t] # <<>> => starts'[t] # <<>> /\ Head(starts'[t]) = Head(starts[t])
    <3>1. starts[s] # <<>> => Append(starts[s], c) # <<>> /\ Head(Append(starts[s], c)) = Head(starts[s])
      <4>1. SUFFICES ASSUME starts[s] # <<>> PROVE Append(starts[s], c) # <<>> /\ Head(Append(starts[s], c)) = Head(starts[s])
        OBVIOUS
      <4>2. Len(starts[s]) \in Nat /\ Len(starts[s]) # 0
        BY <2>3, <4>1, EmptySeq, LenProperties
      <4>3. Head(starts[s]) = starts[s][1] /\ Append(starts[s], c) \in Seq(Calls) /\ Append(starts[s], c) # <<>>
            /\ Append(starts[s], c)[1] = starts[s][1]
        BY <2>3, <4>1, <4>2, HeadTailProperties, AppendProperties
      <4>4. QED
        BY <4>3, HeadTailProperties
    <3>2. QED
      BY <1>2, <2>1, <3>1 DEF IInv, Typed
  <2>5. /\ runtimes' = runtimes \ {h} /\ index' \in [Sessions -> Hosts \cup {None}]
        /\ active' \in runtimes' \cup {None}
        /\ \A t \in Sessions : /\ index'[t] \in {index[t], None} /\ (index[t] # h => index'[t] = index[t])
                               /\ index'[t] # None => index'[t] \in runtimes' /\ sess[index'[t]] = t
    BY <2>1, RemoveFacts
  <2>6. h \in Hosts => ~isRunning(h)
    BY <1>4 DEF Hosts, None
  <2>7. Typed'
    BY <1>2, <2>2, <2>3, <2>5 DEF IInv, Typed, SameCalls, hostVars, bookVars
  <2>8. Indexed'
    BY <1>2, <2>5 DEF IInv, Indexed, hostVars, bookVars
  <2>9. NoOrphan'
    BY <1>2, <2>5, <2>6 DEF IInv, NoOrphan, isRunning, hostVars, bookVars
  <2>10. Called'
    BY <1>2, <2>2, AboutStays DEF Called, hostVars, bookVars, IInv, Typed
  <2>11. Queued'
    BY <1>2, <2>2, ReloadsStay, QueuedStays
  <2>12. \A d \in Calls : (call'[d].pc = "booting") = (call[d].pc = "booting")
    BY <1>2, <2>2
  <2>13. Booting'
    <3>1. ASSUME NEW d \in Calls, NEW g \in Hosts, Boots(d, g) PROVE Fresh(g)'
      BY <1>2, <2>5, <2>6, <3>1 DEF IInv, Booting, Fresh, isRunning, hostVars
    <3>2. ASSUME NEW d \in Calls, call'[d].pc = "booting" PROVE call[d].session \in Sessions
      BY <2>12, <3>2 DEF IInv, Called, About
    <3>3. \A d \in Calls : call'[d].pc = "booting" =>
            LET t == call[d].session IN starts[t] # <<>> /\ Head(starts[t]) = d => starts'[t] # <<>> /\ Head(starts'[t]) = d
      BY <2>4, <3>2
    <3>4. QED
      BY <1>2, <2>2, <2>12, <3>1, <3>3, BootingStays DEF hostVars
  <2>14. Single'
    <3>1. \A d \in Calls : \A g \in runtimes' : Boots(d, g) => call'[d].pc = "booting"
      BY <2>12 DEF Boots
    <3>2. QED
      BY <1>2, <2>1, <2>2, <2>5, <2>12, <3>1, RemoveKeeps DEF hostVars, bookVars
  <2>15. QED
    BY <2>7, <2>8, <2>9, <2>10, <2>11, <2>13, <2>14 DEF IInv
<1>5. QED
  BY <1>3, <1>4

LEMMA ResumeFindsKeeps == ASSUME IInv, NEW c \in Calls, ResumeFinds(c) PROVE IInv'
<1>1. PICK pc \in {"reading", "failed"} : Goto(c, pc)
  BY DEF ResumeFinds
<1>2. pc \in Places \ {"no", "booting"}
  BY DEF Places, Pending
<1>3. call[c].pc = "wait" /\ call[c].kind = "resume" /\ UNCHANGED <<hostVars, mapVars, jobVars, closed, bookVars>>
  BY DEF ResumeFinds
<1>4. QED
  BY <1>1, <1>2, <1>3, Moves

LEMMA StartBeginsKeeps == ASSUME IInv, NEW c \in Calls, StartBegins(c) PROVE IInv'
<1> DEFINE s == call[c].session
<1>1. PICK h : h = index[s]
  OBVIOUS
<1>2. /\ call[c].pc = "queued" /\ call[c].kind = "start" /\ s \in Sessions /\ starts[s] # <<>> /\ Head(starts[s]) = c
      /\ UNCHANGED <<ender, busy, stale, selection, jobVars, closed, bookVars>>
  BY DEF StartBegins, isFirst, IInv, Called, About
<1>3. CASE h # None /\ isRunning(h)
  BY <1>1, <1>2, <1>3, FindsKeeps DEF StartBegins, findBySession, mapVars, hostVars
<1>4. CASE ~(h # None /\ isRunning(h))
  <2>1. PICK new \in Hosts :
          /\ isNext(new)
          /\ call' = [call EXCEPT ![c].pc = "booting", ![c].host = new]
          /\ proc' = [proc EXCEPT ![new] = "booting"] /\ sess' = [sess EXCEPT ![new] = s]
          /\ runtimes' = (runtimes \ {h}) \cup {new} /\ index' = [index EXCEPT ![s] = None]
          /\ active' = IF active = h THEN None ELSE active
    BY <1>1, <1>4 DEF StartBegins, findBySession
  <2>2. /\ proc[new] = "none" /\ new \notin runtimes /\ queue[new] = <<>> /\ reload[new] = "no" /\ new # None
        /\ proc'[new] = "booting" /\ sess'[new] = s
        /\ \A g \in Hosts \ {new} : proc'[g] = proc[g] /\ sess'[g] = sess[g]
    BY <2>1 DEF isNext, IInv, Typed, Indexed, Hosts, None
  <2>3. /\ call' \in [Calls -> CallRecords] /\ \A d \in Calls \ {c} : call'[d] = call[d]
        /\ call'[c].kind = "start" /\ call'[c].pc = "booting" /\ call'[c].host = new
        /\ call'[c].session = s /\ call'[c].sel = call[c].sel
    <3>1. PICK r : r = [call[c] EXCEPT !.pc = "booting", !.host = new]
      OBVIOUS
    <3>2. call' = [call EXCEPT ![c] = r] /\ call \in [Calls -> CallRecords] /\ call[c] \in CallRecords
      BY <2>1, <3>1 DEF IInv, Typed
    <3>3. /\ r \in CallRecords /\ r.kind = call[c].kind /\ r.pc = "booting" /\ r.host = new
          /\ r.session = call[c].session /\ r.sel = call[c].sel
      BY <3>1, <3>2 DEF CallRecords, Pending
    <3>4. call' \in [Calls -> CallRecords] /\ call'[c] = r /\ \A d \in Calls \ {c} : call'[d] = call[d]
      BY <3>2, <3>3
    <3>5. QED
      BY <1>2, <3>3, <3>4
  <2>4. Typed'
    BY <1>2, <2>1, <2>2, <2>3 DEF IInv, Typed, jobVars, bookVars
  <2>5. Indexed'
    <3>1. \A t \in Sessions : index'[t] = (IF t = s THEN None ELSE index[t])
      BY <1>2, <2>1 DEF IInv, Indexed
    <3>2. ASSUME NEW t \in Sessions, index'[t] # None PROVE index'[t] \in runtimes' /\ sess'[index'[t]] = t
      <4>1. t # s /\ index'[t] = index[t] /\ index[t] \in runtimes /\ sess[index[t]] = t /\ index[t] \in Hosts \ {new}
        BY <2>2, <3>1, <3>2 DEF IInv, Typed, Indexed
      <4>2. h # None => sess[h] = s
        BY <1>1, <1>2 DEF IInv, Indexed
      <4>3. index[t] # h
        BY <4>1, <4>2, <3>2
      <4>4. QED
        BY <2>1, <2>2, <4>1, <4>3
    <3>3. index' \in [Sessions -> Hosts \cup {None}] /\ active' \in runtimes' \cup {None}
      BY <2>1 DEF IInv, Indexed
    <3>4. \A g \in Hosts : proc'[g] # "none" => sess'[g] \in Sessions
      BY <1>2, <2>2 DEF IInv, Indexed
    <3>5. \A g \in Hosts : proc'[g] = "none" =>
            g \notin runtimes' /\ g \notin reloads' /\ queue'[g] = <<>> /\ reload'[g] = "no"
      BY <1>2, <2>1, <2>2 DEF IInv, Indexed, jobVars
    <3>6. QED
      BY <3>2, <3>3, <3>4, <3>5 DEF Indexed
  <2>6. h \in Hosts => ~isRunning(h)
    BY <1>4 DEF Hosts, None
  <2>7. NoOrphan'
    BY <1>2, <2>1, <2>2, <2>6 DEF IInv, NoOrphan, isRunning, bookVars
  <2>8. Called'
    <3>1. \A g \in Hosts : proc[g] # "none" => proc'[g] # "none" /\ sess'[g] = sess[g]
      BY <2>2
    <3>2. ASSUME NEW d \in Calls \ {c} PROVE About(d)'
      BY <1>2, <2>3, <3>1, AboutStays DEF SameCall, bookVars, IInv, Typed
    <3>3. About(c)'
      <4>1. About(c)
        BY DEF IInv, Called
      <4>2. QED
        BY <1>2, <2>2, <2>3, <4>1 DEF About, bookVars
    <3>4. QED
      BY <3>2, <3>3 DEF Called
  <2>9. Queued'
    <3>1. ASSUME NEW g \in Hosts, NEW i \in 1..Len(queue[g]), queue[g][i] # RELOAD
          PROVE  call'[queue[g][i]].kind \in {"prompt", "plain"} /\ call'[queue[g][i]].host = g
      <4>1. queue[g] \in Seq(Calls \cup {RELOAD})
        BY DEF IInv, Typed
      <4>2. queue[g][i] \in Calls
        BY <3>1, <4>1, ElementOfSeq
      <4>3. call[queue[g][i]].kind \in {"prompt", "plain"} /\ call[queue[g][i]].host = g
        BY <3>1 DEF IInv, Queued
      <4>4. QED
        BY <1>2, <2>3, <4>2, <4>3
    <3>2. ASSUME NEW g \in Hosts, reload[g] # "no"
          PROVE  queue[g] # <<>> /\ (Head(queue[g]) = RELOAD \/ call'[Head(queue[g])].pc = "applying")
      BY <1>2, <2>3, <3>2, ReloadedHead
    <3>3. QED
      BY <1>2, <3>1, <3>2 DEF Queued, jobVars
  <2>10. Booting'
    <3>1. ASSUME NEW d \in Calls, NEW g \in Hosts, Boots(d, g)'
          PROVE  /\ call'[d].kind = "start" /\ sess'[g] = call'[d].session
                 /\ starts'[call'[d].session] # <<>> /\ Head(starts'[call'[d].session]) = d
                 /\ Fresh(g)'
      <4>1. CASE d = c
        BY <1>2, <2>1, <2>2, <2>3, <3>1, <4>1 DEF Boots, Fresh, jobVars
      <4>2. CASE d # c
        <5>1. Boots(d, g) /\ call'[d] = call[d]
          BY <2>3, <3>1, <4>2 DEF Boots
        <5>2. g # new /\ Fresh(g) /\ proc[g] # "none"
          BY <2>2, <5>1 DEF IInv, Booting, Fresh
        <5>3. proc[g] = "booting" => g \in runtimes'
          BY <2>1, <2>6, <5>2 DEF Fresh, isRunning
        <5>4. Fresh(g)'
          BY <1>2, <2>2, <5>2, <5>3 DEF Fresh, jobVars
        <5>5. QED
          BY <1>2, <2>2, <5>1, <5>2, <5>4 DEF IInv, Booting, jobVars
      <4>3. QED
        BY <4>1, <4>2
    <3>2. QED
      BY <3>1 DEF Booting
  <2>11. Single'
    <3>1. Boots(c, new)'
      BY <2>3 DEF Boots
    <3>2. ASSUME ~survived', NEW g \in runtimes' PROVE index'[sess'[g]] = g \/ \E d \in Calls : Boots(d, g)'
      <4>1. CASE g = new
        BY <3>1, <4>1
      <4>2. CASE g # new
        <5>1. g \in runtimes /\ g # h /\ g \in Hosts /\ sess'[g] = sess[g] /\ ~survived /\ sess[g] \in Sessions
          BY <1>2, <2>1, <2>2, <3>2, <4>2 DEF IInv, Typed, Indexed, bookVars
        <5>2. CASE index[sess[g]] = g
          BY <1>1, <1>2, <2>1, <5>1, <5>2 DEF IInv, Indexed
        <5>3. CASE \E d \in Calls : Boots(d, g)
          BY <1>2, <2>3, <5>3 DEF Boots
        <5>4. QED
          BY <5>1, <5>2, <5>3 DEF IInv, Single
      <4>3. QED
        BY <4>1, <4>2
    <3>3. ASSUME ~survived', NEW d \in Calls, call'[d].pc = "booting" PROVE index'[call'[d].session] = None
      <4>1. CASE d = c
        BY <1>2, <2>1, <2>3, <4>1 DEF IInv, Indexed
      <4>2. CASE d # c
        <5>1. call[d].pc = "booting" /\ call'[d] = call[d] /\ ~survived /\ call[d].session \in Sessions
          BY <1>2, <2>3, <3>3, <4>2 DEF IInv, Called, About, bookVars
        <5>2. index[call[d].session] = None
          BY <5>1 DEF IInv, Single
        <5>3. QED
          BY <2>1, <5>1, <5>2 DEF IInv, Indexed
      <4>3. QED
        BY <4>1, <4>2
    <3>4. QED
      BY <3>2, <3>3 DEF Single
  <2>12. QED
    BY <2>4, <2>5, <2>7, <2>8, <2>9, <2>10, <2>11 DEF IInv
<1>5. QED
  BY <1>3, <1>4

\* Between callbacks a worker that a start boots has nobody restart it.
LEMMA QuietBoots ==
  ASSUME IInv, Quiet, NEW c \in Calls, NEW h \in Hosts, Boots(c, h)
  PROVE  /\ proc[h] = "booting" /\ h \in runtimes /\ Fresh(h)
         /\ queue[h] = <<>> \/ reload[h] = "asking"
<1>1. proc[h] = "booting" /\ Fresh(h)
  BY DEF Quiet, CallWaits, Boots, IInv, Booting
<1>2. reload[h] = "no" => ~(queue[h] # <<>> /\ Head(queue[h]) = RELOAD)
  BY DEF Quiet, HostWaits, isFirst
<1>3. Head(<<RELOAD>>) = RELOAD /\ <<RELOAD>> # <<>>
  OBVIOUS
<1>4. QED
  BY <1>1, <1>2, <1>3 DEF Fresh

LEMMA BootedKeeps == ASSUME IInv, NEW c \in Calls, Booted(c) PROVE IInv'
<1>1. PICK h : h = call[c].host
  OBVIOUS
<1>2. /\ call[c].pc = "booting" /\ proc[h] = "booting" /\ h \in runtimes /\ h \in Hosts
      /\ proc' = [proc EXCEPT ![h] = "up"] /\ index' = [index EXCEPT ![sess[h]] = h]
      /\ (active' = h \/ active' = active) /\ Goto(c, "done") /\ Leave(c) /\ "done" \in Places
      /\ UNCHANGED <<ender, sess, busy, stale, runtimes, selection, reloads, reload, closed, bookVars>>
  BY <1>1 DEF Booted, reindex, Select, Places, IInv, Typed
<1>3. Boots(c, h) /\ sess[h] = call[c].session /\ sess[h] \in Sessions
  BY <1>1, <1>2 DEF Boots, IInv, Booting, Indexed
<1>4. SameCalls /\ (\A d \in Calls : SameCall(d)) /\ call'[c].pc = "done" /\ \A d \in Calls \ {c} : call'[d] = call[d]
  BY <1>2, GotoFacts
<1>5. /\ Queued' /\ queue' \in [Hosts -> Seq(Calls \cup {RELOAD})] /\ starts' \in [Sessions -> Seq(Calls)]
      /\ \A g \in Hosts : queue[g] \in {<<>>, <<RELOAD>>} => queue'[g] = queue[g]
      /\ \A g \in Hosts : queue[g] = <<>> => queue'[g] = <<>>
      /\ \A s \in Sessions : starts[s] # <<>> /\ Head(starts[s]) # c => starts'[s] = starts[s]
  BY <1>2, <1>4, LeaveKeeps
<1>6. Typed'
  BY <1>2, <1>4, <1>5 DEF IInv, Typed, SameCalls, bookVars
<1>7. Indexed' /\ NoOrphan'
  BY <1>2, <1>3, <1>5 DEF IInv, Typed, Indexed, NoOrphan, isRunning, bookVars
<1>8. Called'
  <2>1. \A g \in Hosts : proc[g] # "none" => proc'[g] # "none" /\ sess'[g] = sess[g]
    BY <1>2 DEF IInv, Typed
  <2>2. ASSUME NEW d \in Calls PROVE About(d)'
    BY <1>2, <1>4, <2>1, AboutStays DEF bookVars, IInv, Typed
  <2>3. QED
    BY <2>2 DEF Called
\* No other start boots for this session.
<1>9. ASSUME NEW d \in Calls, NEW g \in Hosts, Boots(d, g), d # c
      PROVE  g # h /\ sess[g] # sess[h] /\ call[d].session = sess[g]
  BY <1>2, <1>3, <1>9, OneBoots DEF Boots, IInv, Booting
<1>10. Booting'
  <2>1. \A d \in Calls : call'[d].pc = "booting" => call[d].pc = "booting" /\ d # c /\ call[d].session \in Sessions
    BY <1>4 DEF IInv, Called, About
  <2>2. ASSUME NEW d \in Calls, NEW g \in Hosts, Boots(d, g), call'[d].pc = "booting" PROVE Fresh(g)'
    <3>1. g # h /\ Fresh(g) /\ queue'[g] = queue[g]
      BY <1>5, <1>9, <2>1, <2>2 DEF IInv, Booting, Fresh
    <3>2. proc'[g] = proc[g]
      BY <1>2, <3>1
    <3>3. QED
      BY <1>2, <3>1, <3>2, FreshStays
  <2>3. \A d \in Calls : call'[d].pc = "booting" =>
          LET s == call[d].session IN starts[s] # <<>> /\ Head(starts[s]) = d => starts'[s] # <<>> /\ Head(starts'[s]) = d
    BY <1>5, <2>1
  <2>4. QED
    BY <1>2, <1>4, <2>1, <2>2, <2>3, BootingStays
<1>11. Single'
  <2>1. ASSUME NEW d \in Calls, NEW g \in Hosts, Boots(d, g), d # c PROVE Boots(d, g)'
    BY <1>4, <2>1 DEF Boots
  <2>2. ASSUME ~survived', NEW g \in runtimes' PROVE index'[sess'[g]] = g \/ \E d \in Calls : Boots(d, g)'
    <3>1. g \in runtimes /\ g \in Hosts /\ sess[g] \in Sessions /\ sess'[g] = sess[g] /\ ~survived
      BY <1>2, <2>2 DEF IInv, Typed, Indexed, bookVars
    <3>2. index[sess[h]] = None
      BY <1>2, <1>3, <3>1 DEF IInv, Single
    <3>3. CASE index[sess[g]] = g
      BY <1>2, <3>1, <3>2, <3>3 DEF IInv, Indexed, Hosts, None
    <3>4. CASE \E d \in Calls : Boots(d, g)
      <4>1. CASE g = h
        BY <1>2, <1>3, <3>1, <4>1 DEF IInv, Indexed
      <4>2. CASE g # h
        <5>1. PICK d \in Calls : Boots(d, g)
          BY <3>4
        <5>2. d # c
          BY <1>3, <4>2, <5>1 DEF Boots
        <5>3. QED
          BY <2>1, <3>1, <5>1, <5>2
      <4>3. QED
        BY <4>1, <4>2
    <3>5. QED
      BY <3>1, <3>3, <3>4 DEF IInv, Single
  <2>3. ASSUME ~survived', NEW d \in Calls, call'[d].pc = "booting" PROVE index'[call'[d].session] = None
    <3>1. d # c /\ call[d].pc = "booting" /\ call'[d] = call[d] /\ ~survived
      BY <1>2, <1>4, <2>3 DEF bookVars
    <3>2. index[call[d].session] = None /\ call[d].session \in Sessions /\ call[d].host \in Hosts
      BY <3>1 DEF IInv, Single, Called, About, Typed, CallRecords
    <3>3. call[d].session # sess[h]
      BY <1>9, <3>1, <3>2 DEF Boots
    <3>4. QED
      BY <1>2, <1>3, <3>1, <3>2, <3>3 DEF IInv, Indexed
  <2>4. QED
    BY <2>2, <2>3 DEF Single
<1>12. QED
  BY <1>5, <1>6, <1>7, <1>8, <1>10, <1>11 DEF IInv

LEMMA BootEndsKeeps == ASSUME IInv, NEW c \in Calls, NEW places, BootEnds(c, places) PROVE IInv'
<1>1. PICK h : h = call[c].host
  OBVIOUS
<1>2. /\ call[c].pc = "booting" /\ h \in Hosts /\ Boots(c, h)
      /\ call' = [Rejected({h}) EXCEPT ![c].pc = "cleanup"] /\ removeHost(h) /\ HostStop({h}, "clean")
      /\ UNCHANGED <<sess, stale, selection, jobVars, closed, bookVars>>
  BY <1>1 DEF BootEnds, Boots, IInv, Typed, Called, About, CallRecords
<1>3. /\ SameCalls /\ (\A d \in Calls : SameCall(d)) /\ call'[c].pc = "cleanup"
      /\ \A d \in Calls \ {c} : \/ call'[d] = call[d]
                                 \/ /\ call[d].pc \in {"reading", "requested", "asked", "answered"}
                                    /\ call'[d].pc = "rejected"
  <2>1. PICK R : R = Rejected({h})
    OBVIOUS
  <2>2. ASSUME NEW d \in Calls
        PROVE  /\ R[d] \in CallRecords /\ R[d].kind = call[d].kind /\ R[d].host = call[d].host
               /\ R[d].session = call[d].session /\ R[d].sel = call[d].sel
               /\ R[d] = call[d] \/ (call[d].pc \in {"reading", "requested", "asked", "answered"} /\ R[d].pc = "rejected")
    BY <2>1, RejectedRecords
  <2>3. R \in [Calls -> CallRecords]
    BY <2>1, <2>2 DEF Rejected
  <2>4. PICK r : r = [R[c] EXCEPT !.pc = "cleanup"]
    OBVIOUS
  <2>5. /\ r \in CallRecords /\ r.pc = "cleanup" /\ r.kind = R[c].kind /\ r.host = R[c].host
        /\ r.session = R[c].session /\ r.sel = R[c].sel
    <3>1. PICK q : q = R[c]
      OBVIOUS
    <3>2. q \in CallRecords /\ "cleanup" \in Places /\ r = [q EXCEPT !.pc = "cleanup"]
      BY <2>2, <2>4, <3>1 DEF Places, Pending
    <3>3. r \in CallRecords /\ r.pc = "cleanup" /\ r.kind = q.kind /\ r.host = q.host /\ r.session = q.session /\ r.sel = q.sel
      BY <3>2, Moved
    <3>4. QED
      BY <3>1, <3>3
  <2>6. call' = [R EXCEPT ![c] = r]
    BY <1>2, <2>1, <2>4
  <2>7. call' \in [Calls -> CallRecords] /\ call'[c] = r /\ \A d \in Calls \ {c} : call'[d] = R[d]
    BY <2>3, <2>5, <2>6
  <2>8. \A d \in Calls : SameCall(d)
    BY <2>2, <2>5, <2>7 DEF SameCall
  <2>9. QED
    BY <2>2, <2>5, <2>7, <2>8 DEF SameCalls
<1>4. /\ proc' \in [Hosts -> {"none", "booting", "up", "ending", "down"}]
      /\ ender' \in [Hosts -> {"no", "stop", "all", "clean", "reload"}]
      /\ busy' \in [Hosts -> BOOLEAN]
      /\ \A g \in Hosts : proc'[g] = "ending" <=> ender'[g] # "no"
      /\ \A g \in Hosts : \/ proc'[g] = proc[g] /\ ~(g \in {h} /\ isRunning(g))
                          \/ g \in {h} /\ isRunning(g) /\ proc'[g] = "ending"
  BY <1>2, HostStopFacts
<1>5. /\ runtimes' = runtimes \ {h} /\ index' \in [Sessions -> Hosts \cup {None}]
      /\ active' \in runtimes' \cup {None}
      /\ \A t \in Sessions : /\ index'[t] \in {index[t], None} /\ (index[t] # h => index'[t] = index[t])
                             /\ index'[t] # None => index'[t] \in runtimes' /\ sess[index'[t]] = t
  BY <1>2, RemoveFacts
<1>6. Typed'
  BY <1>2, <1>3, <1>4, <1>5 DEF IInv, Typed, SameCalls, jobVars, bookVars
<1>7. \A g \in Hosts : (proc'[g] = "none") = (proc[g] = "none")
  BY <1>4 DEF isRunning
<1>8. Indexed'
  BY <1>2, <1>5, <1>7 DEF IInv, Indexed, jobVars, bookVars
<1>9. NoOrphan'
  BY <1>2, <1>4, <1>5 DEF IInv, NoOrphan, isRunning, bookVars
<1>10. Called'
  BY <1>2, <1>3, <1>7, AboutStays DEF Called, bookVars, IInv, Typed
<1>11. Queued'
  BY <1>2, <1>3, ReloadsStay, QueuedStays DEF jobVars
<1>12. \A d \in Calls : call'[d].pc = "booting" => call[d].pc = "booting" /\ d # c
  BY <1>3
<1>13. Booting'
  <2>1. ASSUME NEW d \in Calls, NEW g \in Hosts, Boots(d, g), call'[d].pc = "booting" PROVE Fresh(g)'
    <3>1. Fresh(g) /\ d # c
      BY <1>12, <2>1 DEF IInv, Booting
    <3>2. g # h
      BY <1>2, <2>1, <3>1, OneBoots DEF Boots
    <3>3. proc'[g] = proc[g] /\ (g \in runtimes => g \in runtimes')
      BY <1>4, <1>5, <3>2
    <3>4. QED
      BY <1>2, <3>1, <3>3, FreshStays DEF jobVars
  <2>2. QED
    BY <1>2, <1>3, <1>12, <2>1, BootingStays DEF jobVars
<1>14. Single'
  <2>1. ASSUME NEW d \in Calls, NEW g \in runtimes \ {h}, Boots(d, g) PROVE call'[d].pc = "booting"
    BY <1>2, <1>3, <2>1 DEF Boots
  <2>2. QED
    BY <1>2, <1>3, <1>12, <2>1, RemoveKeeps DEF bookVars
<1>15. QED
  BY <1>6, <1>8, <1>9, <1>10, <1>11, <1>13, <1>14 DEF IInv

LEMMA CleanedUpKeeps == ASSUME IInv, NEW c \in Calls, CleanedUp(c) PROVE IInv'
<1>1. /\ call[c].pc \notin {"booting", "applying"} /\ Goto(c, "failed") /\ Leave(c)
      /\ UNCHANGED <<hostVars, mapVars, reloads, reload, closed, bookVars>>
  BY DEF CleanedUp
<1>2. busy' \in [Hosts -> BOOLEAN] /\ active' \in runtimes \cup {None}
  BY <1>1 DEF IInv, Typed, Indexed, hostVars, mapVars
<1>3. QED
  BY <1>1, <1>2, Ends DEF hostVars, mapVars

LEMMA RejectionKeeps == ASSUME IInv, NEW c \in Calls, Rejection(c) PROVE IInv'
<1>1. /\ call[c].pc \notin {"booting", "applying"} /\ Goto(c, "failed") /\ Leave(c)
      /\ UNCHANGED <<hostVars, mapVars, reloads, reload, closed, bookVars>>
  BY DEF Rejection
<1>2. busy' \in [Hosts -> BOOLEAN] /\ active' \in runtimes \cup {None}
  BY <1>1 DEF IInv, Typed, Indexed, hostVars, mapVars
<1>3. QED
  BY <1>1, <1>2, Ends DEF hostVars, mapVars

LEMMA ReadKeeps == ASSUME IInv, NEW c \in Calls, Read(c) PROVE IInv'
<1>1. PICK pc \in {"done", "failed"} : Goto(c, pc)
  BY DEF Read
<1>2. /\ call[c].pc \notin {"booting", "applying"} /\ Leave(c) /\ active' \in runtimes \cup {None}
      /\ UNCHANGED <<hostVars, runtimes, index, selection, reloads, reload, closed, bookVars>>
  BY DEF Read, Select, IInv, Indexed
<1>3. busy' \in [Hosts -> BOOLEAN]
  BY <1>2 DEF IInv, Typed, hostVars
<1>4. QED
  BY <1>1, <1>2, <1>3, Ends DEF hostVars

LEMMA DeactivateKeeps == ASSUME IInv, deactivate PROVE IInv'
<1>1. /\ selection' = selection + 1 /\ active' = None /\ chosen' = None
      /\ UNCHANGED <<hostVars, runtimes, index, jobVars, closed, call, survived, abandoned, troubles>>
  BY DEF deactivate
<1>2. /\ selection \in Nat /\ busy' \in [Hosts -> BOOLEAN] /\ stale' \in [Hosts -> BOOLEAN] /\ troubles' \in Nat
  BY <1>1 DEF IInv, Typed, hostVars
<1>3. QED
  BY <1>1, <1>2, Unmoved DEF hostVars

LEMMA TurnEndsKeeps == ASSUME IInv, NEW h \in Hosts, TurnEnds(h) PROVE IInv'
<1>1. /\ busy' = [busy EXCEPT ![h] = FALSE]
      /\ UNCHANGED <<proc, ender, sess, stale, mapVars, jobVars, closed, call, bookVars>>
  BY DEF TurnEnds
<1>2. /\ selection' \in Nat /\ busy' \in [Hosts -> BOOLEAN] /\ stale' \in [Hosts -> BOOLEAN] /\ troubles' \in Nat
      /\ active' \in runtimes \cup {None} /\ chosen' \in Sessions \cup {None}
  BY <1>1 DEF IInv, Typed, Indexed, mapVars, bookVars
<1>3. QED
  BY <1>1, <1>2, Unmoved DEF mapVars, bookVars

LEMMA DistrustKeeps == ASSUME IInv, Distrust PROVE IInv'
<1>1. /\ troubles' = troubles + 1 /\ stale' = [h \in Hosts |-> stale[h] \/ h \in runtimes]
      /\ UNCHANGED <<proc, ender, sess, busy, mapVars, jobVars, closed, call, chosen, survived, abandoned>>
  BY DEF Distrust, Trouble
<1>2. /\ selection' \in Nat /\ busy' \in [Hosts -> BOOLEAN] /\ stale' \in [Hosts -> BOOLEAN] /\ troubles' \in Nat
      /\ active' \in runtimes \cup {None} /\ chosen' \in Sessions \cup {None}
  <2>1. stale \in [Hosts -> BOOLEAN] /\ stale' \in [Hosts -> BOOLEAN]
    BY <1>1 DEF IInv, Typed
  <2>2. QED
    BY <1>1, <2>1 DEF IInv, Typed, Indexed, mapVars
<1>3. QED
  BY <1>1, <1>2, Unmoved DEF mapVars

LEMMA AsksUserKeeps == ASSUME IInv, NEW c \in Calls, AsksUser(c) PROVE IInv'
<1>1. /\ Goto(c, "asked") /\ "asked" \in Places \ {"no", "booting"} /\ call[c].pc \notin {"booting", "applying"}
      /\ UNCHANGED <<hostVars, mapVars, jobVars, closed, bookVars>>
  BY DEF AsksUser, Places, Pending
<1>2. QED
  BY <1>1, Moves

LEMMA RespondToUiKeeps == ASSUME IInv, NEW c \in Calls, respondToUi(c) PROVE IInv'
<1>1. /\ Goto(c, "answered") /\ "answered" \in Places \ {"no", "booting"} /\ call[c].pc \notin {"booting", "applying"}
      /\ UNCHANGED <<hostVars, mapVars, jobVars, closed, bookVars>>
  BY DEF respondToUi, Places, Pending
<1>2. QED
  BY <1>1, Moves

LEMMA RespondsKeeps == ASSUME IInv, NEW c \in Calls, Responds(c) PROVE IInv'
<1>1. /\ call[c].pc \notin {"booting", "applying"} /\ Goto(c, "done") /\ Leave(c)
      /\ \E b \in BOOLEAN, h \in Hosts \cup {None} : busy' \in {busy, [busy EXCEPT ![h] = b]}
      /\ UNCHANGED <<proc, ender, sess, stale, mapVars, reloads, reload, closed, bookVars>>
  BY DEF Responds, IInv, Typed, CallRecords
<1>2. busy' \in [Hosts -> BOOLEAN]
  <2>1. PICK b \in BOOLEAN, h \in Hosts \cup {None} : busy' = busy \/ busy' = [busy EXCEPT ![h] = b]
    BY <1>1
  <2>2. busy \in [Hosts -> BOOLEAN]
    BY DEF IInv, Typed
  <2>3. QED
    BY <2>1, <2>2
<1>3. active' \in runtimes \cup {None}
  BY <1>1 DEF IInv, Indexed, mapVars
<1>4. QED
  BY <1>1, <1>2, <1>3, Ends DEF mapVars

LEMMA CommandBeginsKeeps == ASSUME IInv, NEW c \in Calls, CommandBegins(c) PROVE IInv'
<1>1. PICK h : h = call[c].host
  OBVIOUS
<1>2. /\ call[c].pc = "queued" /\ call[c].kind \in {"prompt", "plain"} /\ queue[h] # <<>> /\ Head(queue[h]) = c
      /\ UNCHANGED <<hostVars, mapVars, closed, bookVars>>
  BY <1>1 DEF CommandBegins, isFirst
<1>3. CASE h \notin runtimes
  <2>1. Goto(c, "failed") /\ Leave(c) /\ UNCHANGED <<reloads, reload>>
    BY <1>1, <1>3 DEF CommandBegins
  <2>2. busy' \in [Hosts -> BOOLEAN] /\ active' \in runtimes \cup {None}
    BY <1>2 DEF IInv, Typed, Indexed, hostVars, mapVars
  <2>3. QED
    BY <1>2, <2>1, <2>2, Ends DEF hostVars, mapVars
<1>4. CASE h \in runtimes /\ call[c].kind = "prompt" /\ stale[h] /\ CanReload(h)
  <2>1. /\ Goto(c, "applying") /\ reloads' = reloads \cup {h} /\ UNCHANGED <<queue, starts>> /\ h \in Hosts
        /\ \E to \in {"asking", "stopping"} : reload' = [reload EXCEPT ![h] = to]
        /\ "applying" \in Places
    BY <1>1, <1>4 DEF CommandBegins, Places, Pending, IInv, Typed
  <2>2. SameCalls /\ (\A d \in Calls : SameCall(d)) /\ call'[c].pc = "applying" /\ \A d \in Calls \ {c} : call'[d] = call[d]
    BY <2>1, GotoFacts
  <2>3. Typed'
    BY <1>2, <2>1, <2>2 DEF IInv, Typed, SameCalls, hostVars, mapVars, bookVars
  <2>4. Indexed' /\ NoOrphan'
    BY <1>2, <1>4, <2>1 DEF IInv, Typed, Indexed, NoOrphan, isRunning, hostVars, mapVars, bookVars
  <2>5. Called'
    BY <1>2, <2>2, AboutStays DEF Called, hostVars, mapVars, bookVars, IInv, Typed
  <2>6. Queued'
    <3>1. ASSUME NEW g \in Hosts, reload'[g] # "no"
          PROVE  /\ queue'[g] = queue[g] /\ queue[g] # <<>>
                 /\ Head(queue[g]) = RELOAD \/ call'[Head(queue[g])].pc = "applying"
      <4>1. CASE g = h
        BY <1>2, <2>1, <2>2, <4>1
      <4>2. CASE g # h
        <5>1. reload[g] # "no"
          BY <2>1, <3>1, <4>2 DEF IInv, Typed
        <5>2. QED
          BY <1>2, <2>1, <2>2, <5>1, ReloadedHead
      <4>3. QED
        BY <4>1, <4>2
    <3>2. QED
      BY <2>1, <2>2, <3>1, QueuedStays
  <2>7. \A d \in Calls : (call'[d].pc = "booting") = (call[d].pc = "booting")
    BY <1>2, <2>2
  <2>8. Booting'
    <3>1. ASSUME NEW d \in Calls, NEW g \in Hosts, Boots(d, g) PROVE Fresh(g)'
      <4>1. Fresh(g)
        BY <3>1 DEF IInv, Booting
      <4>2. g # h
        <5>1. Head(<<RELOAD>>) = RELOAD /\ RELOAD # c
          BY DEF RELOAD, Calls
        <5>2. QED
          BY <1>2, <4>1, <5>1 DEF Fresh
      <4>3. reload'[g] = reload[g]
        BY <2>1, <4>2 DEF IInv, Typed
      <4>4. QED
        BY <1>2, <2>1, <4>1, <4>3, FreshStays DEF hostVars, mapVars
    <3>2. QED
      BY <1>2, <2>1, <2>2, <2>7, <3>1, BootingStays DEF hostVars
  <2>9. Single'
    <3>1. \A d \in Calls : \A g \in runtimes' : Boots(d, g) => call'[d].pc = "booting"
      BY <2>7 DEF Boots
    <3>2. QED
      BY <1>2, <2>2, <2>7, <3>1, SingleStays DEF hostVars, mapVars, bookVars
  <2>10. QED
    BY <2>3, <2>4, <2>5, <2>6, <2>8, <2>9 DEF IInv
<1>5. CASE h \in runtimes /\ ~(call[c].kind = "prompt" /\ stale[h] /\ CanReload(h))
  <2>1. PICK pc \in {"requested", "rejected"} : Goto(c, pc) /\ UNCHANGED jobVars
    BY <1>1, <1>5 DEF CommandBegins
  <2>2. pc \in Places \ {"no", "booting"} /\ pc # "reading"
    BY DEF Places, Pending
  <2>3. QED
    BY <1>2, <2>1, <2>2, Moves
<1>6. QED
  BY <1>3, <1>4, <1>5

\* What a queue that grows keeps.
LEMMA Grows ==
  ASSUME IInv, SameCalls, NEW h \in Hosts, NEW x \in Calls \cup {RELOAD}, queue' = [queue EXCEPT ![h] = Append(@, x)],
         x # RELOAD => call'[x].kind \in {"prompt", "plain"} /\ call'[x].host = h,
         UNCHANGED reload, \A d \in Calls : call[d].pc = "applying" => call'[d].pc = "applying"
  PROVE  /\ Queued' /\ queue' \in [Hosts -> Seq(Calls \cup {RELOAD})]
         /\ queue'[h] = Append(queue[h], x) /\ \A g \in Hosts \ {h} : queue'[g] = queue[g]
<1>1. /\ queue \in [Hosts -> Seq(Calls \cup {RELOAD})] /\ queue'[h] = Append(queue[h], x)
      /\ \A g \in Hosts \ {h} : queue'[g] = queue[g]
  BY DEF IInv, Typed
<1>2. /\ Append(queue[h], x) \in Seq(Calls \cup {RELOAD}) /\ Append(queue[h], x) # <<>>
      /\ Len(Append(queue[h], x)) = Len(queue[h]) + 1 /\ Len(queue[h]) \in Nat
      /\ \A i \in 1..Len(queue[h]) : Append(queue[h], x)[i] = queue[h][i]
      /\ Append(queue[h], x)[Len(queue[h]) + 1] = x
  BY <1>1, AppendProperties, LenProperties
<1>3. queue' \in [Hosts -> Seq(Calls \cup {RELOAD})]
  BY <1>1, <1>2
<1>4. ASSUME NEW g \in Hosts, NEW i \in 1..Len(queue'[g]), queue'[g][i] # RELOAD
      PROVE  call'[queue'[g][i]].kind \in {"prompt", "plain"} /\ call'[queue'[g][i]].host = g
  <2>1. CASE i \in 1..Len(queue[g]) /\ queue'[g][i] = queue[g][i]
    <3>1. queue[g][i] \in Calls
      BY <1>1, <1>4, <2>1, ElementOfSeq
    <3>2. call[queue[g][i]].kind \in {"prompt", "plain"} /\ call[queue[g][i]].host = g
      BY <1>4, <2>1 DEF IInv, Queued
    <3>3. QED
      BY <2>1, <3>1, <3>2 DEF SameCalls, SameCall, Finds
  <2>2. CASE g = h /\ i = Len(queue[h]) + 1
    BY <1>1, <1>2, <1>4, <2>2
  <2>3. QED
    BY <1>1, <1>2, <1>4, <2>1, <2>2
<1>5. ASSUME NEW g \in Hosts, reload'[g] # "no"
      PROVE  queue'[g] # <<>> /\ (Head(queue'[g]) = RELOAD \/ call'[Head(queue'[g])].pc = "applying")
  <2>1. queue[g] # <<>> /\ (Head(queue[g]) = RELOAD \/ call'[Head(queue[g])].pc = "applying")
    BY <1>5, ReloadedHead
  <2>2. queue'[g] # <<>> /\ Head(queue'[g]) = Head(queue[g])
    <3>1. CASE g = h
      <4>1. Len(queue[h]) # 0
        BY <1>1, <2>1, <3>1, EmptySeq
      <4>2. Head(Append(queue[h], x)) = Append(queue[h], x)[1] /\ Head(queue[h]) = queue[h][1]
        BY <1>1, <1>2, <2>1, <3>1, HeadTailProperties
      <4>3. QED
        BY <1>1, <1>2, <3>1, <4>1, <4>2
    <3>2. CASE g # h
      BY <1>1, <2>1, <3>2
    <3>3. QED
      BY <3>1, <3>2
  <2>3. QED
    BY <2>1, <2>2
<1>6. QED
  BY <1>1, <1>3, <1>4, <1>5 DEF Queued

LEMMA CommandKeeps ==
  ASSUME IInv, Quiet, NEW c \in Calls, NEW h \in Hosts, NEW kind \in {"prompt", "plain", "abort"}, Command(c, h, kind)
  PROVE  IInv'
<1>1. /\ Asks(c) /\ h \in runtimes /\ (proc[h] = "booting" => reload[h] = "booting") /\ proc[h] # "none" /\ h # None
      /\ UNCHANGED <<hostVars, selection, starts, reloads, reload, closed, bookVars>>
  BY DEF Command, IInv, Indexed, Hosts, None
<1>2. PICK pc \in {"queued", "requested", "failed"} :
        call' = [call EXCEPT ![c] = [Idle EXCEPT !.kind = kind, !.host = h, !.session = sess[h], !.pc = pc]]
  BY DEF Command
<1> DEFINE r == [Idle EXCEPT !.kind = kind, !.host = h, !.session = sess[h], !.pc = pc]
<1>3. /\ r \in CallRecords /\ r.kind = kind /\ r.host = h /\ r.session = sess[h] /\ r.pc = pc /\ r.sel = 0
  <2>1. sess[h] \in Sessions
    BY <1>1 DEF IInv, Indexed
  <2>2. QED
    BY <2>1 DEF Idle, CallRecords, Pending
<1>4. SameCalls /\ call'[c] = r /\ (\A d \in Calls \ {c} : call'[d] = call[d]) /\ call[c].pc = "no"
  BY <1>1, <1>2, <1>3, Asked
<1>5. Called'
  <2>1. About(c)'
    BY <1>1, <1>3, <1>4 DEF About, hostVars, IInv, Typed
  <2>2. ASSUME NEW d \in Calls \ {c} PROVE About(d)'
    BY <1>1, <1>4, AboutStays DEF SameCall, hostVars, bookVars, IInv, Typed
  <2>3. QED
    BY <2>1, <2>2 DEF Called
<1>6. \A d \in Calls : (call'[d].pc = "booting") = (call[d].pc = "booting")
  BY <1>3, <1>4
<1>7. ASSUME NEW d \in Calls, NEW g \in Hosts, Boots(d, g) PROVE g # h /\ proc[g] = "booting" /\ Fresh(g)
  <2>1. proc[g] = "booting" /\ Fresh(g)
    BY <1>7, QuietBoots
  <2>2. QED
    BY <1>1, <2>1 DEF Fresh
<1>8. \A d \in Calls : call[d].pc = "applying" => call'[d].pc = "applying"
  BY <1>4
<1>9. CASE ~isRunning(h) /\ removeHost(h) /\ UNCHANGED queue
  <2>1. /\ runtimes' = runtimes \ {h} /\ index' \in [Sessions -> Hosts \cup {None}]
        /\ active' \in runtimes' \cup {None}
        /\ \A t \in Sessions : /\ index'[t] \in {index[t], None} /\ (index[t] # h => index'[t] = index[t])
                               /\ index'[t] # None => index'[t] \in runtimes' /\ sess[index'[t]] = t
    BY <1>9, RemoveFacts
  <2>2. Typed'
    BY <1>1, <1>4, <1>9, <2>1 DEF IInv, Typed, SameCalls, hostVars, bookVars
  <2>3. Indexed' /\ NoOrphan'
    BY <1>1, <1>9, <2>1 DEF IInv, Indexed, NoOrphan, isRunning, hostVars, bookVars
  <2>4. Queued'
    BY <1>1, <1>4, <1>8, <1>9, ReloadsStay, QueuedStays
  <2>5. Booting'
    <3>1. \A d \in Calls, g \in Hosts : Boots(d, g) => Fresh(g)'
      BY <1>1, <1>7, <1>9, <2>1, FreshStays DEF hostVars
    <3>2. QED
      BY <1>1, <1>4, <1>6, <3>1, BootingStays DEF hostVars
  <2>6. Single'
    <3>1. \A d \in Calls : \A g \in runtimes \ {h} : Boots(d, g) => call'[d].pc = "booting"
      BY <1>6 DEF Boots
    <3>2. QED
      BY <1>1, <1>4, <1>6, <1>9, <3>1, RemoveKeeps DEF hostVars, bookVars
  <2>7. QED
    BY <1>5, <2>2, <2>3, <2>4, <2>5, <2>6 DEF IInv
<1>10. CASE UNCHANGED <<runtimes, index, active>> /\ (UNCHANGED queue \/ (kind # "abort" /\ queue' = [queue EXCEPT ![h] = Append(@, c)]))
  <2>1. /\ Queued' /\ queue' \in [Hosts -> Seq(Calls \cup {RELOAD})] /\ \A g \in Hosts \ {h} : queue'[g] = queue[g]
    <3>1. CASE UNCHANGED queue
      BY <1>1, <1>4, <1>8, <3>1, ReloadsStay, QueuedStays DEF IInv, Typed
    <3>2. CASE kind # "abort" /\ queue' = [queue EXCEPT ![h] = Append(@, c)]
      BY <1>1, <1>3, <1>4, <1>8, <3>2, Grows
    <3>3. QED
      BY <1>10, <3>1, <3>2
  <2>2. Typed'
    BY <1>1, <1>4, <1>10, <2>1 DEF IInv, Typed, SameCalls, hostVars, bookVars
  <2>3. Indexed' /\ NoOrphan'
    BY <1>1, <1>10, <2>1 DEF IInv, Indexed, NoOrphan, isRunning, hostVars, bookVars
  <2>4. Booting'
    <3>1. \A d \in Calls, g \in Hosts : Boots(d, g) => Fresh(g)'
      BY <1>1, <1>7, <1>10, <2>1, FreshStays DEF hostVars
    <3>2. QED
      BY <1>1, <1>4, <1>6, <3>1, BootingStays DEF hostVars
  <2>5. Single'
    <3>1. \A d \in Calls : \A g \in runtimes' : Boots(d, g) => call'[d].pc = "booting"
      BY <1>6 DEF Boots
    <3>2. QED
      BY <1>1, <1>4, <1>6, <1>10, <3>1, SingleStays DEF hostVars, bookVars, IInv, Indexed
  <2>6. QED
    BY <1>5, <2>1, <2>2, <2>3, <2>4, <2>5 DEF IInv
<1>11. QED
  BY <1>9, <1>10 DEF Command

LEMMA AskReloadKeeps == ASSUME IInv, Quiet, NEW h \in Hosts, AskReload(h) PROVE IInv'
<1>1. /\ h \in runtimes \ reloads /\ queue' = [queue EXCEPT ![h] = Append(@, RELOAD)] /\ reloads' = reloads \cup {h}
      /\ UNCHANGED <<hostVars, mapVars, starts, reload, closed, call, bookVars>>
  BY DEF AskReload
<1>2. SameCalls
  BY <1>1 DEF SameCalls, SameCall, IInv, Typed
<1>3. /\ Queued' /\ queue' \in [Hosts -> Seq(Calls \cup {RELOAD})]
      /\ queue'[h] = Append(queue[h], RELOAD) /\ \A g \in Hosts \ {h} : queue'[g] = queue[g]
  BY <1>1, <1>2, Grows
<1>4. Typed'
  BY <1>1, <1>3 DEF IInv, Typed, hostVars, mapVars, bookVars
<1>5. Indexed' /\ NoOrphan'
  BY <1>1, <1>3 DEF IInv, Indexed, NoOrphan, isRunning, hostVars, mapVars, bookVars
<1>6. Called'
  BY <1>1 DEF IInv, Called, About, hostVars, mapVars, bookVars
<1>7. Booting'
  <2>1. ASSUME NEW d \in Calls, NEW g \in Hosts, Boots(d, g) PROVE Fresh(g)'
    <3>1. proc[g] = "booting" /\ g \in runtimes /\ Fresh(g)
      BY <2>1, QuietBoots
    <3>2. CASE g = h
      <4>1. queue[h] = <<>>
        BY <1>1, <3>1, <3>2 DEF Fresh
      <4>2. queue'[h] = <<RELOAD>>
        BY <1>3, <4>1
      <4>3. QED
        BY <1>1, <3>1, <3>2, <4>2 DEF Fresh, hostVars, mapVars
    <3>3. CASE g # h
      BY <1>1, <1>3, <3>1, <3>3, FreshStays DEF hostVars, mapVars
    <3>4. QED
      BY <3>2, <3>3
  <2>2. QED
    BY <1>1, <1>2, <2>1, BootingStays DEF hostVars
<1>8. Single'
  BY <1>1 DEF IInv, Single, Boots, hostVars, mapVars, bookVars
<1>9. QED
  BY <1>3, <1>4, <1>5, <1>6, <1>7, <1>8 DEF IInv

\* The end of a reload: its job leaves the queue or goes on.
LEMMA JobEnds ==
  ASSUME IInv, NEW h \in Hosts, queue[h] # <<>>, Head(queue[h]) # RELOAD => reload[h] # "no",
         reload' = [reload EXCEPT ![h] = "no"], UNCHANGED starts, reloads' \in {reloads, reloads \ {h}},
         IF Head(queue[h]) = RELOAD
         THEN queue' = [queue EXCEPT ![h] = Tail(@)] /\ UNCHANGED call
         ELSE /\ \E pc \in {"requested", "rejected", "failed"} : Goto(Head(queue[h]), pc)
              /\ queue' = queue \/ queue' = [queue EXCEPT ![h] = Tail(@)]
  PROVE  /\ SameCalls /\ (\A d \in Calls : SameCall(d)) /\ Queued'
         /\ queue' \in [Hosts -> Seq(Calls \cup {RELOAD})] /\ reload' \in [Hosts -> {"no", "asking", "stopping", "booting"}]
         /\ \A g \in Hosts \ {h} : queue'[g] = queue[g] /\ reload'[g] = reload[g] /\ (g \in reloads => g \in reloads')
         /\ \A d \in Calls : call'[d].pc \in {"no", "booting", "reading"} => call'[d].pc = call[d].pc
         /\ \A d \in Calls : call[d].pc = "booting" => call'[d].pc = "booting"
         /\ reload'[h] = "no" /\ (queue[h] \in {<<>>, <<RELOAD>>} => queue'[h] = <<>>)
<1> DEFINE j == Head(queue[h])
<1>1. queue[h] \in Seq(Calls \cup {RELOAD}) /\ j \in Calls \cup {RELOAD} /\ Tail(queue[h]) \in Seq(Calls \cup {RELOAD})
  BY TailFacts DEF IInv, Typed
<1>2. j # RELOAD => j \in Calls /\ call[j].pc = "applying" /\ call[j].host = h
  BY <1>1, ReloadedHead
<1>3. /\ SameCalls /\ \A d \in Calls : SameCall(d)
      /\ \A d \in Calls : \/ call'[d] = call[d]
                          \/ j # RELOAD /\ d = j /\ call'[d].pc \in {"requested", "rejected", "failed"}
  <2>1. CASE j = RELOAD
    BY <2>1 DEF SameCalls, SameCall, IInv, Typed
  <2>2. CASE j # RELOAD
    <3>1. PICK pc \in {"requested", "rejected", "failed"} : Goto(j, pc)
      BY <2>2
    <3>2. pc \in Places
      BY DEF Places, Pending
    <3>3. SameCalls /\ (\A d \in Calls : SameCall(d)) /\ call'[j].pc = pc /\ \A d \in Calls \ {j} : call'[d] = call[d]
      BY <1>2, <2>2, <3>1, <3>2, GotoFacts
    <3>4. QED
      BY <2>2, <3>3
  <2>3. QED
    BY <2>1, <2>2
<1>4. queue' = queue \/ queue' = [queue EXCEPT ![h] = Tail(@)]
  OBVIOUS
<1>5. /\ queue' \in [Hosts -> Seq(Calls \cup {RELOAD})] /\ reload' \in [Hosts -> {"no", "asking", "stopping", "booting"}]
      /\ reload'[h] = "no" /\ \A g \in Hosts \ {h} : queue'[g] = queue[g] /\ reload'[g] = reload[g]
      /\ queue'[h] = queue[h] \/ queue'[h] = Tail(queue[h])
  <2>1. queue \in [Hosts -> Seq(Calls \cup {RELOAD})] /\ reload \in [Hosts -> {"no", "asking", "stopping", "booting"}]
    BY DEF IInv, Typed
  <2>2. /\ reload' \in [Hosts -> {"no", "asking", "stopping", "booting"}]
        /\ reload'[h] = "no" /\ \A g \in Hosts \ {h} : reload'[g] = reload[g]
    BY <2>1
  <2>3. CASE queue' = queue
    BY <2>1, <2>2, <2>3
  <2>4. CASE queue' = [queue EXCEPT ![h] = Tail(@)]
    BY <1>1, <2>1, <2>2, <2>4
  <2>5. QED
    BY <1>4, <2>3, <2>4
<1>6. ASSUME NEW g \in Hosts, reload'[g] # "no"
      PROVE  /\ queue'[g] = queue[g] /\ queue[g] # <<>>
             /\ Head(queue[g]) = RELOAD \/ call'[Head(queue[g])].pc = "applying"
  <2>1. g # h /\ queue'[g] = queue[g] /\ reload[g] # "no"
    BY <1>5, <1>6
  <2>2. QED
    BY <1>2, <1>3, <2>1, ReloadedHead
<1>7. Queued'
  BY <1>3, <1>5, <1>6, QueuedStays
<1>8. queue[h] \in {<<>>, <<RELOAD>>} => queue'[h] = <<>>
  <2>1. Head(<<RELOAD>>) = RELOAD /\ Tail(<<RELOAD>>) = <<>>
    OBVIOUS
  <2>2. QED
    BY <1>1, <2>1 DEF IInv, Typed
<1>9. QED
  BY <1>2, <1>3, <1>5, <1>7, <1>8

LEMMA EndApplyKeeps ==
  ASSUME IInv, NEW h \in Hosts, NEW ok \in BOOLEAN, EndApply(h, ok), reload[h] # "no" \/ isFirst(RELOAD, queue[h]),
         UNCHANGED <<hostVars, mapVars, closed, bookVars>>
  PROVE  IInv'
<1>1. queue[h] # <<>> /\ (Head(queue[h]) # RELOAD => reload[h] # "no")
  BY ReloadedHead DEF isFirst
<1>2. /\ reload' = [reload EXCEPT ![h] = "no"] /\ UNCHANGED starts /\ reloads' \in {reloads, reloads \ {h}}
      /\ IF Head(queue[h]) = RELOAD
         THEN queue' = [queue EXCEPT ![h] = Tail(@)] /\ UNCHANGED call
         ELSE /\ \E pc \in {"requested", "rejected", "failed"} : Goto(Head(queue[h]), pc)
              /\ queue' = queue \/ queue' = [queue EXCEPT ![h] = Tail(@)]
  BY DEF EndApply
<1>3. /\ SameCalls /\ (\A d \in Calls : SameCall(d)) /\ Queued'
      /\ queue' \in [Hosts -> Seq(Calls \cup {RELOAD})] /\ reload' \in [Hosts -> {"no", "asking", "stopping", "booting"}]
      /\ \A g \in Hosts \ {h} : queue'[g] = queue[g] /\ reload'[g] = reload[g] /\ (g \in reloads => g \in reloads')
      /\ \A d \in Calls : call'[d].pc \in {"no", "booting", "reading"} => call'[d].pc = call[d].pc
      /\ \A d \in Calls : call[d].pc = "booting" => call'[d].pc = "booting"
      /\ reload'[h] = "no" /\ (queue[h] \in {<<>>, <<RELOAD>>} => queue'[h] = <<>>)
  BY <1>1, <1>2, JobEnds
<1>4. Typed'
  BY <1>2, <1>3 DEF IInv, Typed, SameCalls, hostVars, mapVars, bookVars
<1>5. Indexed' /\ NoOrphan'
  BY <1>1, <1>2, <1>3 DEF IInv, Indexed, NoOrphan, isRunning, hostVars, mapVars, bookVars
<1>6. Called'
  BY <1>3, AboutStays DEF Called, hostVars, mapVars, bookVars, IInv, Typed
<1>7. Booting'
  <2>1. ASSUME NEW d \in Calls, NEW g \in Hosts, Boots(d, g) PROVE Fresh(g)'
    <3>1. Fresh(g)
      BY <2>1 DEF IInv, Booting
    <3>2. CASE g = h
      BY <1>3, <3>1, <3>2 DEF Fresh, hostVars, mapVars
    <3>3. CASE g # h
      BY <1>3, <3>1, <3>3, FreshStays DEF hostVars, mapVars
    <3>4. QED
      BY <3>2, <3>3
  <2>2. QED
    BY <1>2, <1>3, <2>1, BootingStays DEF hostVars
<1>8. Single'
  <2>1. \A d \in Calls : \A g \in runtimes' : Boots(d, g) => call'[d].pc = "booting"
    BY <1>3 DEF Boots
  <2>2. QED
    BY <1>3, <2>1, SingleStays DEF hostVars, mapVars, bookVars, IInv, Indexed
<1>9. QED
  BY <1>3, <1>4, <1>5, <1>6, <1>7, <1>8 DEF IInv

LEMMA ReloadBeginsKeeps == ASSUME IInv, NEW h \in Hosts, ReloadBegins(h) PROVE IInv'
<1>1. isFirst(RELOAD, queue[h]) /\ reload[h] = "no" /\ UNCHANGED <<hostVars, mapVars, closed, bookVars>>
  BY DEF ReloadBegins
<1>2. CASE h \in runtimes /\ CanReload(h) /\ stale[h]
  <2>1. /\ reload' = [reload EXCEPT ![h] = IF isRunning(h) THEN "asking" ELSE "stopping"]
        /\ UNCHANGED <<queue, starts, reloads, call>>
    BY <1>2 DEF ReloadBegins
  <2>2. SameCalls
    BY <2>1 DEF SameCalls, SameCall, IInv, Typed
  <2>3. Typed'
    BY <1>1, <2>1 DEF IInv, Typed, hostVars, mapVars, bookVars
  <2>4. Indexed' /\ NoOrphan'
    BY <1>1, <1>2, <2>1 DEF IInv, Typed, Indexed, NoOrphan, isRunning, hostVars, mapVars, bookVars
  <2>5. Called' /\ Single'
    BY <1>1, <2>1 DEF IInv, Called, About, Single, Boots, hostVars, mapVars, bookVars
  <2>6. Queued'
    BY <1>1, <2>1 DEF IInv, Typed, Queued, isFirst
  <2>7. Booting'
    <3>1. ASSUME NEW d \in Calls, NEW g \in Hosts, Boots(d, g) PROVE Fresh(g)'
      <4>1. Fresh(g)
        BY <3>1 DEF IInv, Booting
      <4>2. CASE g = h
        <5>1. proc[h] = "booting" /\ reload'[h] = "asking"
          BY <1>1, <2>1, <4>1, <4>2 DEF Fresh, isFirst, isRunning, IInv, Typed
        <5>2. QED
          BY <1>1, <2>1, <4>1, <4>2, <5>1 DEF Fresh, hostVars, mapVars
      <4>3. CASE g # h
        <5>1. reload'[g] = reload[g]
          BY <2>1, <4>3 DEF IInv, Typed
        <5>2. QED
          BY <1>1, <2>1, <4>1, <5>1, FreshStays DEF hostVars, mapVars
      <4>4. QED
        BY <4>2, <4>3
    <3>2. QED
      BY <1>1, <2>1, <2>2, <3>1, BootingStays DEF hostVars
  <2>8. QED
    BY <2>3, <2>4, <2>5, <2>6, <2>7 DEF IInv
<1>3. CASE ~(h \in runtimes /\ CanReload(h) /\ stale[h])
  <2>1. \E ok \in BOOLEAN : EndApply(h, ok)
    <3>1. CASE h \in runtimes
      <4>1. EndApply(h, TRUE)
        BY <1>3, <3>1 DEF ReloadBegins, EndApply
      <4>2. QED
        BY <4>1
    <3>2. CASE h \notin runtimes
      <4>1. EndApply(h, FALSE)
        BY <1>3, <3>2 DEF ReloadBegins, EndApply
      <4>2. QED
        BY <4>1
    <3>3. QED
      BY <3>1, <3>2
  <2>2. QED
    BY <1>1, <2>1, EndApplyKeeps
<1>4. QED
  BY <1>2, <1>3

LEMMA ReloadRejectedKeeps == ASSUME IInv, NEW h \in Hosts, ReloadRejected(h) PROVE IInv'
<1>1. reload[h] # "no" /\ EndApply(h, FALSE) /\ UNCHANGED <<hostVars, mapVars, closed, bookVars>>
  BY DEF ReloadRejected
<1>2. QED
  BY <1>1, EndApplyKeeps

\* A host that is being restarted is not one that a start boots.
LEMMA NotBooted ==
  ASSUME IInv, NEW h \in Hosts, reload[h] \in {"stopping", "booting"} \/ proc[h] \in {"none", "up"}
  PROVE  \A d \in Calls : ~Boots(d, h)
  BY DEF IInv, Booting, Fresh

LEMMA StateAnsweredKeeps == ASSUME IInv, NEW h \in Hosts, StateAnswered(h) PROVE IInv'
<1>1. reload[h] = "asking" /\ proc[h] = "up" /\ UNCHANGED <<sess, stale, mapVars, closed, bookVars>>
  BY DEF StateAnswered
<1>2. CASE h \in runtimes /\ CanReload(h)
  <2>1. /\ reload' = [reload EXCEPT ![h] = "stopping"] /\ HostStop({h}, "reload") /\ call' = Rejected({h})
        /\ UNCHANGED <<queue, starts, reloads>>
    BY <1>2 DEF StateAnswered
  <2>2. /\ SameCalls /\ \A c \in Calls : SameCall(c)
        /\ \A c \in Calls : \/ call'[c] = call[c]
                            \/ /\ call[c].pc \in {"reading", "requested", "asked", "answered"}
                               /\ call'[c].pc = "rejected"
    BY <2>1, RejectedFacts
  <2>3. /\ proc' \in [Hosts -> {"none", "booting", "up", "ending", "down"}]
        /\ ender' \in [Hosts -> {"no", "stop", "all", "clean", "reload"}]
        /\ busy' \in [Hosts -> BOOLEAN]
        /\ \A g \in Hosts : proc'[g] = "ending" <=> ender'[g] # "no"
        /\ \A g \in Hosts : \/ proc'[g] = proc[g] /\ ~(g \in {h} /\ isRunning(g))
                            \/ g \in {h} /\ isRunning(g) /\ proc'[g] = "ending"
    BY <2>1, HostStopFacts
  <2>4. Typed'
    BY <1>1, <2>1, <2>2, <2>3 DEF IInv, Typed, SameCalls, mapVars, bookVars
  <2>5. \A g \in Hosts : (proc'[g] = "none") = (proc[g] = "none")
    BY <2>3 DEF isRunning
  <2>6. Indexed'
    BY <1>1, <1>2, <2>1, <2>5 DEF IInv, Typed, Indexed, mapVars, bookVars
  <2>7. NoOrphan'
    BY <1>1, <2>3 DEF IInv, NoOrphan, isRunning, mapVars, bookVars
  <2>8. Called'
    BY <1>1, <2>2, <2>5, AboutStays DEF Called, mapVars, bookVars, IInv, Typed
  <2>9. Queued'
    <3>1. ASSUME NEW g \in Hosts, reload'[g] # "no"
          PROVE  /\ queue'[g] = queue[g] /\ queue[g] # <<>>
                 /\ Head(queue[g]) = RELOAD \/ call'[Head(queue[g])].pc = "applying"
      <4>1. reload[g] # "no"
        BY <1>1, <2>1, <3>1 DEF IInv, Typed
      <4>2. QED
        BY <2>1, <2>2, <4>1, ReloadedHead
    <3>2. QED
      BY <2>1, <2>2, <3>1, QueuedStays
  <2>10. \A d \in Calls : (call'[d].pc = "booting") = (call[d].pc = "booting")
    BY <2>2
  <2>11. Booting'
    <3>1. ASSUME NEW d \in Calls, NEW g \in Hosts, Boots(d, g) PROVE Fresh(g)'
      <4>1. Fresh(g) /\ g # h
        BY <1>1, <3>1, NotBooted DEF IInv, Booting
      <4>2. proc'[g] = proc[g] /\ reload'[g] = reload[g]
        BY <2>1, <2>3, <4>1 DEF IInv, Typed
      <4>3. QED
        BY <1>1, <2>1, <4>1, <4>2, FreshStays DEF mapVars
    <3>2. QED
      BY <1>1, <2>1, <2>2, <2>10, <3>1, BootingStays
  <2>12. Single'
    <3>1. \A d \in Calls : \A g \in runtimes' : Boots(d, g) => call'[d].pc = "booting"
      BY <2>10 DEF Boots
    <3>2. QED
      BY <1>1, <2>2, <2>10, <3>1, SingleStays DEF mapVars, bookVars, IInv, Indexed
  <2>13. QED
    BY <2>4, <2>6, <2>7, <2>8, <2>9, <2>11, <2>12 DEF IInv
<1>3. CASE ~(h \in runtimes /\ CanReload(h))
  <2>1. \E ok \in BOOLEAN : EndApply(h, ok) /\ UNCHANGED <<proc, ender, busy>>
    <3>1. CASE h \in runtimes
      <4>1. EndApply(h, TRUE) /\ UNCHANGED <<proc, ender, busy>>
        BY <1>3, <3>1 DEF StateAnswered, EndApply
      <4>2. QED
        BY <4>1
    <3>2. CASE h \notin runtimes
      <4>1. EndApply(h, FALSE) /\ UNCHANGED <<proc, ender, busy>>
        BY <1>3, <3>2 DEF StateAnswered, EndApply
      <4>2. QED
        BY <4>1
    <3>3. QED
      BY <3>1, <3>2
  <2>2. QED
    BY <1>1, <2>1, EndApplyKeeps DEF hostVars
<1>4. QED
  BY <1>2, <1>3

LEMMA RespawnsKeeps == ASSUME IInv, NEW h \in Hosts, Respawns(h) PROVE IInv'
<1>1. reload[h] = "stopping" /\ UNCHANGED <<ender, sess, busy, stale, mapVars, closed, bookVars>>
  BY DEF Respawns
<1>2. CASE proc[h] = "down" /\ h \in runtimes
  <2>1. /\ proc' = [proc EXCEPT ![h] = "booting"] /\ reload' = [reload EXCEPT ![h] = "booting"]
        /\ UNCHANGED <<queue, starts, reloads, call>>
    BY <1>2 DEF Respawns
  <2>2. SameCalls
    BY <2>1 DEF SameCalls, SameCall, IInv, Typed
  <2>3. Typed'
    BY <1>1, <1>2, <2>1 DEF IInv, Typed, mapVars, bookVars
  <2>4. \A g \in Hosts : (proc'[g] = "none") = (proc[g] = "none")
    BY <1>2, <2>1 DEF IInv, Typed
  <2>5. Indexed'
    BY <1>1, <1>2, <2>1, <2>4 DEF IInv, Typed, Indexed, mapVars
  <2>6. NoOrphan'
    BY <1>1, <1>2, <2>1 DEF IInv, Typed, NoOrphan, isRunning, mapVars, bookVars
  <2>7. Called' /\ Single'
    BY SMTT(30), <1>1, <2>1, <2>4 DEF IInv, Typed, CallRecords, Called, About, Single, Boots, mapVars, bookVars
  <2>8. Queued'
    BY <1>1, <2>1 DEF IInv, Typed, Queued
  <2>9. Booting'
    <3>1. ASSUME NEW d \in Calls, NEW g \in Hosts, Boots(d, g) PROVE Fresh(g)'
      <4>1. Fresh(g) /\ g # h
        BY <1>1, <3>1, NotBooted DEF IInv, Booting
      <4>2. proc'[g] = proc[g] /\ reload'[g] = reload[g]
        BY <2>1, <4>1 DEF IInv, Typed
      <4>3. QED
        BY <1>1, <2>1, <4>1, <4>2, FreshStays DEF mapVars
    <3>2. QED
      BY <1>1, <2>1, <2>2, <3>1, BootingStays
  <2>10. QED
    BY <2>3, <2>5, <2>6, <2>7, <2>8, <2>9 DEF IInv
<1>3. CASE ~(proc[h] = "down" /\ h \in runtimes)
  <2>1. EndApply(h, FALSE) /\ UNCHANGED proc
    BY <1>3 DEF Respawns
  <2>2. QED
    BY <1>1, <2>1, EndApplyKeeps DEF hostVars
<1>4. QED
  BY <1>2, <1>3

LEMMA RespawnedKeeps == ASSUME IInv, NEW h \in Hosts, Respawned(h) PROVE IInv'
<1>1. /\ reload[h] = "booting" /\ proc[h] = "booting" /\ h \in runtimes
      /\ proc' = [proc EXCEPT ![h] = "up"] /\ stale' = [stale EXCEPT ![h] = FALSE]
      /\ reload' = [reload EXCEPT ![h] = "no"] /\ index' = [index EXCEPT ![sess[h]] = h]
      /\ reloads' \in {reloads, reloads \ {h}}
      /\ UNCHANGED <<ender, sess, busy, runtimes, active, selection, starts, closed, bookVars>>
  BY DEF Respawned, reindex
<1>2. IF Head(queue[h]) = RELOAD
      THEN queue' = [queue EXCEPT ![h] = Tail(@)] /\ UNCHANGED call
      ELSE /\ \E pc \in {"requested", "rejected", "failed"} : Goto(Head(queue[h]), pc)
           /\ queue' = queue \/ queue' = [queue EXCEPT ![h] = Tail(@)]
  BY DEF Respawned
<1>3. queue[h] # <<>>
  BY <1>1, ReloadedHead
<1>4. /\ SameCalls /\ (\A d \in Calls : SameCall(d)) /\ Queued'
      /\ queue' \in [Hosts -> Seq(Calls \cup {RELOAD})] /\ reload' \in [Hosts -> {"no", "asking", "stopping", "booting"}]
      /\ \A g \in Hosts \ {h} : queue'[g] = queue[g] /\ reload'[g] = reload[g] /\ (g \in reloads => g \in reloads')
      /\ \A d \in Calls : call'[d].pc \in {"no", "booting", "reading"} => call'[d].pc = call[d].pc
      /\ \A d \in Calls : call[d].pc = "booting" => call'[d].pc = "booting"
      /\ reload'[h] = "no" /\ (queue[h] \in {<<>>, <<RELOAD>>} => queue'[h] = <<>>)
  BY <1>1, <1>2, <1>3, JobEnds
<1>5. \A d \in Calls : ~Boots(d, h)
  BY <1>1, NotBooted
<1>6. sess[h] \in Sessions /\ (~survived => index[sess[h]] = h)
  BY <1>1, <1>5 DEF IInv, Indexed, Single
<1>7. Typed'
  BY <1>1, <1>4 DEF IInv, Typed, SameCalls, bookVars
<1>8. \A g \in Hosts : (proc'[g] = "none") = (proc[g] = "none")
  BY <1>1 DEF IInv, Typed
<1>9. Indexed' /\ NoOrphan'
  BY <1>1, <1>4, <1>6, <1>8 DEF IInv, Typed, Indexed, NoOrphan, isRunning, bookVars
<1>10. Called'
  BY <1>1, <1>4, <1>8, AboutStays DEF Called, bookVars, IInv, Typed
<1>11. Booting'
  <2>1. ASSUME NEW d \in Calls, NEW g \in Hosts, Boots(d, g) PROVE Fresh(g)'
    <3>1. Fresh(g) /\ g # h
      BY <1>5, <2>1 DEF IInv, Booting
    <3>2. proc'[g] = proc[g]
      BY <1>1, <3>1 DEF IInv, Typed
    <3>3. QED
      BY <1>1, <1>4, <3>1, <3>2, FreshStays
  <2>2. QED
    BY <1>1, <1>4, <2>1, BootingStays
<1>12. Single'
  <2>1. ASSUME ~survived PROVE index' = index
    BY <1>1, <1>6, <2>1 DEF IInv, Indexed
  <2>2. \A d \in Calls : \A g \in runtimes' : Boots(d, g) => call'[d].pc = "booting"
    BY <1>4 DEF Boots
  <2>3. CASE survived
    BY <1>1, <2>3 DEF Single, bookVars
  <2>4. CASE ~survived
    BY <1>1, <1>4, <2>1, <2>2, <2>4, SingleStays DEF bookVars, IInv, Indexed
  <2>5. QED
    BY <2>3, <2>4
<1>13. QED
  BY <1>4, <1>7, <1>9, <1>10, <1>11, <1>12 DEF IInv

\* Hosts whose worker is stopped or exits.
Downed(H) ==
  /\ call' = Rejected(H)
  /\ proc' \in [Hosts -> {"none", "booting", "up", "ending", "down"}]
  /\ ender' \in [Hosts -> {"no", "stop", "all", "clean", "reload"}] /\ busy' \in [Hosts -> BOOLEAN]
  /\ \A h \in Hosts : proc'[h] = "ending" <=> ender'[h] # "no"
  /\ \A h \in Hosts : \/ proc'[h] = proc[h] /\ ~(h \in H /\ isRunning(h))
                      \/ h \in H /\ isRunning(h) /\ proc'[h] \in {"ending", "down"}

\* Those that stay in the map are found as before.
Remapped(H) ==
  /\ runtimes' \subseteq runtimes /\ runtimes \ H \subseteq runtimes'
  /\ index' \in [Sessions -> Hosts \cup {None}] /\ active' \in runtimes' \cup {None}
  /\ \A s \in Sessions : index'[s] \in {index[s], None} /\ (index[s] \in runtimes' => index'[s] = index[s])
  /\ \A s \in Sessions : index'[s] # None => index'[s] \in runtimes'
  /\ reloads' = reloads \/ (reloads' = {} /\ runtimes \subseteq H)

LEMMA DownsKeep ==
  ASSUME IInv, Quiet, NEW H \in SUBSET Hosts, Downed(H), Remapped(H),
         UNCHANGED <<sess, stale, queue, starts, reload, survived, abandoned>>,
         closed' \in BOOLEAN, chosen' \in Sessions \cup {None}, troubles' \in Nat,
         selection' \in Nat, selection' > selection \/ UNCHANGED <<selection, chosen>>
  PROVE  IInv'
<1>1. /\ SameCalls /\ \A c \in Calls : SameCall(c)
      /\ \A c \in Calls : \/ call'[c] = call[c]
                          \/ /\ call[c].pc \in {"reading", "requested", "asked", "answered"}
                             /\ call'[c].pc = "rejected"
  BY RejectedFacts DEF Downed
<1>2. \A g \in Hosts : (proc'[g] = "none") = (proc[g] = "none")
  BY DEF isRunning, Downed
<1>3. Typed'
  BY <1>1 DEF IInv, Typed, SameCalls, Downed, Remapped
<1>4. Indexed'
  BY <1>2 DEF IInv, Indexed, Remapped
<1>5. NoOrphan'
  BY DEF IInv, NoOrphan, isRunning, Downed, Remapped
<1>6. Called'
  BY <1>1, <1>2, AboutStays DEF Called
<1>7. Queued'
  BY <1>1, ReloadsStay, QueuedStays
<1>8. \A d \in Calls : (call'[d].pc = "booting") = (call[d].pc = "booting")
  BY <1>1
<1>9. Booting'
  <2>1. ASSUME NEW d \in Calls, NEW g \in Hosts, Boots(d, g) PROVE Fresh(g)'
    <3>1. proc[g] = "booting" /\ g \in runtimes /\ Fresh(g) /\ (queue[g] = <<>> \/ reload[g] = "asking")
      BY <2>1, QuietBoots
    <3>2. CASE g \in H
      BY <3>1, <3>2 DEF Fresh, isRunning, Downed
    <3>3. CASE g \notin H
      BY <3>1, <3>3, FreshStays DEF Downed, Remapped
    <3>4. QED
      BY <3>2, <3>3
  <2>2. QED
    BY <1>1, <1>8, <2>1, BootingStays
<1>10. Single'
  <2>1. \A d \in Calls : \A g \in runtimes' : Boots(d, g) => call'[d].pc = "booting"
    BY <1>8 DEF Boots
  <2>2. \A g \in runtimes' : sess[g] \in Sessions
    BY DEF IInv, Typed, Indexed, Remapped
  <2>3. QED
    BY <1>1, <1>8, <2>1, <2>2, SingleStays DEF Remapped
<1>11. QED
  BY <1>3, <1>4, <1>5, <1>6, <1>7, <1>9, <1>10 DEF IInv

LEMMA StopsKeep ==
  ASSUME IInv, Quiet, NEW h \in Hosts, stop(h), UNCHANGED <<sess, stale, selection, jobVars, closed, bookVars>>
  PROVE  IInv'
<1>1. removeHost(h) /\ HostStop({h}, "stop") /\ call' = Rejected({h})
  BY DEF stop
<1>2. /\ proc' \in [Hosts -> {"none", "booting", "up", "ending", "down"}]
      /\ ender' \in [Hosts -> {"no", "stop", "all", "clean", "reload"}]
      /\ busy' \in [Hosts -> BOOLEAN]
      /\ \A g \in Hosts : proc'[g] = "ending" <=> ender'[g] # "no"
      /\ \A g \in Hosts : \/ proc'[g] = proc[g] /\ ~(g \in {h} /\ isRunning(g))
                          \/ g \in {h} /\ isRunning(g) /\ proc'[g] = "ending"
  BY <1>1, HostStopFacts
<1>3. /\ runtimes' = runtimes \ {h} /\ index' \in [Sessions -> Hosts \cup {None}]
      /\ active' \in runtimes' \cup {None}
      /\ \A t \in Sessions : /\ index'[t] \in {index[t], None} /\ (index[t] # h => index'[t] = index[t])
                             /\ index'[t] # None => index'[t] \in runtimes' /\ sess[index'[t]] = t
  BY <1>1, RemoveFacts
<1>4. /\ closed' \in BOOLEAN /\ chosen' \in Sessions \cup {None} /\ troubles' \in Nat /\ selection' \in Nat
      /\ UNCHANGED <<queue, starts, reload, reloads, survived, abandoned, selection, chosen>>
  BY DEF IInv, Typed, jobVars, bookVars
<1>5. \A t \in Sessions : /\ index'[t] \in {index[t], None} /\ (index[t] \in runtimes' => index'[t] = index[t])
                         /\ index'[t] # None => index'[t] \in runtimes'
  BY <1>3
<1>6. Downed({h}) /\ Remapped({h})
  BY <1>1, <1>2, <1>3, <1>4, <1>5 DEF Downed, Remapped
<1>7. QED
  BY <1>4, <1>6, DownsKeep

LEMMA StopAllKeeps == ASSUME IInv, Quiet, stopAll PROVE IInv'
<1>1. /\ closed' = TRUE /\ selection' = selection + 1 /\ chosen' = None
      /\ runtimes' = {} /\ index' = [s \in Sessions |-> None] /\ active' = None /\ reloads' = {}
      /\ HostStop(runtimes, "all") /\ call' = Rejected(runtimes)
      /\ UNCHANGED <<sess, stale, queue, starts, reload, survived, abandoned, troubles>>
  BY DEF stopAll
<1>2. runtimes \in SUBSET Hosts /\ selection \in Nat /\ troubles' \in Nat
  BY <1>1 DEF IInv, Typed
<1>3. /\ proc' \in [Hosts -> {"none", "booting", "up", "ending", "down"}]
      /\ ender' \in [Hosts -> {"no", "stop", "all", "clean", "reload"}]
      /\ busy' \in [Hosts -> BOOLEAN]
      /\ \A g \in Hosts : proc'[g] = "ending" <=> ender'[g] # "no"
      /\ \A g \in Hosts : \/ proc'[g] = proc[g] /\ ~(g \in runtimes /\ isRunning(g))
                          \/ g \in runtimes /\ isRunning(g) /\ proc'[g] = "ending"
  BY <1>1, <1>2, HostStopFacts
<1>4. Downed(runtimes)
  BY <1>1, <1>3 DEF Downed
<1>5. Remapped(runtimes)
  BY <1>1 DEF Remapped, IInv, Indexed
<1>6. QED
  BY <1>1, <1>2, <1>4, <1>5, DownsKeep

LEMMA ExitsKeeps == ASSUME IInv, Quiet, NEW h \in Hosts, Exits(h) PROVE IInv'
<1>1. /\ isRunning(h) /\ troubles' = troubles + 1
      /\ proc' = [proc EXCEPT ![h] = "down"] /\ busy' = [busy EXCEPT ![h] = FALSE] /\ call' = Rejected({h})
      /\ UNCHANGED <<ender, sess, stale, mapVars, jobVars, closed, chosen, survived, abandoned>>
  BY DEF Exits, Trouble
<1>2. /\ proc' \in [Hosts -> {"none", "booting", "up", "ending", "down"}]
      /\ ender' \in [Hosts -> {"no", "stop", "all", "clean", "reload"}] /\ busy' \in [Hosts -> BOOLEAN]
      /\ \A g \in Hosts : proc'[g] = "ending" <=> ender'[g] # "no"
      /\ \A g \in Hosts : \/ proc'[g] = proc[g] /\ ~(g \in {h} /\ isRunning(g))
                          \/ g \in {h} /\ isRunning(g) /\ proc'[g] \in {"ending", "down"}
  BY <1>1 DEF IInv, Typed, isRunning
<1>3. /\ index' \in [Sessions -> Hosts \cup {None}] /\ active' \in runtimes' \cup {None}
      /\ \A s \in Sessions : index'[s] = index[s] /\ (index'[s] # None => index'[s] \in runtimes')
      /\ runtimes' = runtimes /\ reloads' = reloads
      /\ closed' \in BOOLEAN /\ chosen' \in Sessions \cup {None} /\ troubles' \in Nat /\ selection' \in Nat
      /\ UNCHANGED <<sess, stale, queue, starts, reload, survived, abandoned, selection, chosen>>
  BY <1>1 DEF IInv, Typed, Indexed, mapVars, jobVars
<1>4. Downed({h}) /\ Remapped({h})
  BY <1>1, <1>2, <1>3 DEF Downed, Remapped
<1>5. QED
  BY <1>3, <1>4, DownsKeep

\* A worker that is being terminated ends, or is there again.
LEMMA EndingKeeps ==
  ASSUME IInv, Quiet, NEW h \in Hosts, proc[h] = "ending", NEW to \in {"up", "down"}, proc' = [proc EXCEPT ![h] = to],
         ender' = [ender EXCEPT ![h] = "no"],
         UNCHANGED <<sess, busy, stale, active, selection, jobVars, closed, call, chosen>>,
         runtimes \subseteq runtimes', runtimes' \subseteq runtimes \cup {h},
         index' = index \/ (index' = [index EXCEPT ![sess[h]] = h] /\ h \in runtimes'),
         abandoned \subseteq abandoned', abandoned' \subseteq Hosts, survived' \in BOOLEAN, troubles' \in Nat,
         survived' \/ UNCHANGED <<runtimes, index, survived>>, to = "up" => h \in runtimes' \cup abandoned'
  PROVE  IInv'
<1>1. SameCalls /\ \A d \in Calls : SameCall(d)
  BY DEF SameCalls, SameCall, IInv, Typed
<1>2. /\ \A g \in Hosts : (proc'[g] = "none") = (proc[g] = "none")
      /\ proc'[h] = to /\ \A g \in Hosts \ {h} : proc'[g] = proc[g]
  BY DEF IInv, Typed
<1>3. Typed'
  BY DEF IInv, Typed, jobVars
<1>4. Indexed'
  <2>1. sess[h] \in Sessions /\ index \in [Sessions -> Hosts \cup {None}]
    BY DEF IInv, Indexed
  <2>2. /\ index' \in [Sessions -> Hosts \cup {None}]
        /\ \A s \in Sessions : index'[s] # None => index'[s] \in runtimes' /\ sess[index'[s]] = s
    <3>1. CASE index' = index
      BY <3>1 DEF IInv, Indexed
    <3>2. CASE index' = [index EXCEPT ![sess[h]] = h] /\ h \in runtimes'
      BY <2>1, <3>2 DEF IInv, Indexed
    <3>3. QED
      BY <3>1, <3>2
  <2>3. \A g \in Hosts : proc'[g] = "none" => g \notin runtimes'
    BY <1>2 DEF IInv, Indexed
  <2>4. QED
    BY <1>2, <2>2, <2>3 DEF IInv, Indexed, jobVars
<1>5. NoOrphan'
  BY <1>2 DEF IInv, NoOrphan, isRunning
<1>6. Called'
  BY <1>1, <1>2, AboutStays DEF Called, IInv, Typed
<1>7. Queued'
  BY DEF IInv, Queued, jobVars
<1>8. Booting'
  <2>1. ASSUME NEW d \in Calls, NEW g \in Hosts, Boots(d, g) PROVE Fresh(g)'
    <3>1. proc[g] = "booting" /\ Fresh(g)
      BY <2>1, QuietBoots
    <3>2. QED
      BY <1>2, <3>1, FreshStays DEF jobVars
  <2>2. QED
    BY <1>1, <2>1, BootingStays DEF jobVars
<1>9. Single'
  BY DEF IInv, Single, Boots
<1>10. QED
  BY <1>3, <1>4, <1>5, <1>6, <1>7, <1>8, <1>9 DEF IInv

LEMMA TerminatedKeeps == ASSUME IInv, Quiet, NEW h \in Hosts, Terminated(h) PROVE IInv'
<1>1. /\ proc[h] = "ending" /\ proc' = [proc EXCEPT ![h] = "down"] /\ ender' = [ender EXCEPT ![h] = "no"]
      /\ UNCHANGED <<sess, busy, stale, mapVars, jobVars, closed, call, bookVars>>
  BY DEF Terminated
<1>2. UNCHANGED <<runtimes, index, active, selection, chosen, survived, abandoned, troubles>>
  BY <1>1 DEF mapVars, bookVars
<1>3. abandoned' \subseteq Hosts /\ survived' \in BOOLEAN /\ troubles' \in Nat
  BY <1>2 DEF IInv, Typed
<1>4. QED
  BY <1>1, <1>2, <1>3, EndingKeeps

LEMMA SurvivesKeeps == ASSUME IInv, Quiet, NEW h \in Hosts, Survives(h) PROVE IInv'
<1>1. /\ proc[h] = "ending" /\ survived' = TRUE /\ troubles' = troubles + 1
      /\ proc' = [proc EXCEPT ![h] = "up"] /\ ender' = [ender EXCEPT ![h] = "no"]
      /\ UNCHANGED <<sess, busy, stale, active, selection, jobVars, closed, call, chosen>>
  BY DEF Survives, Trouble
<1>2. /\ IF ender[h] = "stop" THEN runtimes' = runtimes \cup {h} /\ index' = [index EXCEPT ![sess[h]] = h]
         ELSE UNCHANGED <<runtimes, index>>
      /\ abandoned' = IF ender[h] \in {"all", "clean"} \/ (ender[h] = "reload" /\ h \notin runtimes)
                      THEN abandoned \cup {h} ELSE abandoned
  BY DEF Survives, reindex
<1>3. ender[h] \in {"stop", "all", "clean", "reload"} /\ abandoned \subseteq Hosts /\ troubles' \in Nat
  BY <1>1 DEF IInv, Typed
<1>4. /\ runtimes \subseteq runtimes' /\ runtimes' \subseteq runtimes \cup {h} /\ h \in runtimes' \cup abandoned'
      /\ index' = index \/ (index' = [index EXCEPT ![sess[h]] = h] /\ h \in runtimes')
      /\ abandoned \subseteq abandoned' /\ abandoned' \subseteq Hosts /\ survived' \in BOOLEAN
  BY <1>1, <1>2, <1>3
<1>5. QED
  BY <1>1, <1>3, <1>4, EndingKeeps

-----------------------------------------------------------------------------
(* The invariant, and what follows from it.                                 *)

LEMMA CallKeeps == ASSUME IInv, NEW c \in Calls, CallStep(c) PROVE IInv'
<1>1. CASE CallFollows(c)
  BY <1>1, StartFindsKeeps, ResumeFindsKeeps, StartBeginsKeeps, BootEndsKeeps, CleanedUpKeeps, CommandBeginsKeeps, RejectionKeeps
     DEF CallFollows, BootRejected
<1>2. CASE CallProceeds(c)
  BY <1>2, BootedKeeps, ReadKeeps, RespondToUiKeeps, RespondsKeeps DEF CallProceeds
<1>3. QED
  BY <1>1, <1>2 DEF CallStep

LEMMA HostKeeps == ASSUME IInv, NEW h \in Hosts, HostStep(h) PROVE IInv'
<1>1. CASE HostFollows(h)
  BY <1>1, ReloadBeginsKeeps, RespawnsKeeps, ReloadRejectedKeeps DEF HostFollows
<1>2. CASE Quiet /\ HostProceeds(h)
  BY <1>2, StateAnsweredKeeps, RespawnedKeeps, TerminatedKeeps, TurnEndsKeeps DEF HostProceeds
<1>3. QED
  BY <1>1, <1>2 DEF HostStep

LEMMA CallbackKeeps == ASSUME IInv, Quiet, Callback PROVE IInv'
<1>1. CASE \E c \in Calls : AsksUser(c) \/ BootFails(c)
  BY <1>1, AsksUserKeeps, BootEndsKeeps DEF BootFails
<1>2. CASE \E c \in Calls : \E s \in Sessions : Start(c, s)
  BY <1>2, StartKeeps
<1>3. CASE \E c \in Calls : \E h \in Hosts : Resume(c, h) \/ \E k \in {"prompt", "plain", "abort"} : Command(c, h, k)
  BY <1>3, ResumeKeeps, CommandKeeps
<1>4. CASE \E h \in Hosts : AskReload(h) \/ Survives(h) \/ Exits(h)
  BY <1>4, AskReloadKeeps, SurvivesKeeps, ExitsKeeps
<1>5. CASE \E h \in Hosts : Stop(h) \/ Reap(h)
  BY <1>5, StopsKeep DEF Stop, Reap
<1>6. CASE deactivate \/ Distrust \/ stopAll
  BY <1>6, DeactivateKeeps, DistrustKeeps, StopAllKeeps
<1>7. QED
  BY <1>1, <1>2, <1>3, <1>4, <1>5, <1>6 DEF Callback

LEMMA Step == IInv /\ [Next]_vars => IInv'
<1> SUFFICES ASSUME IInv, [Next]_vars PROVE IInv'
  OBVIOUS
<1>1. CASE Proceed
  BY <1>1, CallKeeps, HostKeeps DEF Proceed
<1>2. CASE Quiet /\ Callback
  BY <1>2, CallbackKeeps
<1>3. CASE UNCHANGED vars
  <2>1. UNCHANGED <<hostVars, mapVars, jobVars, closed, call, bookVars>>
    BY <1>3 DEF vars
  <2>2. Typed' /\ Indexed' /\ NoOrphan'
    BY <2>1 DEF IInv, Typed, Indexed, NoOrphan, isRunning, hostVars, mapVars, jobVars, bookVars
  <2>3. Called' /\ Queued' /\ Single'
    BY <2>1 DEF IInv, Called, About, Queued, Single, Boots, hostVars, mapVars, jobVars, bookVars
  <2>4. Booting'
    BY <2>1 DEF IInv, Booting, Boots, Fresh, hostVars, mapVars, jobVars, bookVars
  <2>5. QED
    BY <2>2, <2>3, <2>4 DEF IInv
<1>4. QED
  BY <1>1, <1>2, <1>3 DEF Next

\* The invariant holds in every run, however starts, restarts, stops, exits and
\* workers that outlive their termination overlap.
THEOREM ManagerInvariant == Spec => []IInv
<1>1. Init => IInv
  BY Initially
<1>2. IInv /\ [Next]_vars => IInv'
  BY Step
<1>3. QED
  BY <1>1, <1>2, PTL DEF Spec

\* Every state is of the declared type: the index and the view lead to hosts that
\* are in the map, and a host is being terminated only on somebody's behalf.
THEOREM TypeCorrect == Spec => []TypeOK
<1>1. IInv => TypeOK
  <2> SUFFICES ASSUME IInv PROVE TypeOK
    OBVIOUS
  <2>1. /\ \A h \in Hosts : Range(queue[h]) \subseteq Calls \cup {RELOAD}
        /\ \A s \in Sessions : Range(starts[s]) \subseteq Calls
    <3>1. ASSUME NEW S, NEW q \in Seq(S) PROVE Range(q) \subseteq S
      BY ElementOfSeq, LenProperties DEF Range
    <3>2. QED
      BY <3>1 DEF IInv, Typed
  <2>2. index \in [Sessions -> runtimes \cup {None}] /\ active \in runtimes \cup {None}
    BY DEF IInv, Indexed
  <2>3. QED
    BY <2>1, <2>2 DEF IInv, Typed, TypeOK, CallRecords
<1>2. QED
  BY <1>1, ManagerInvariant, PTL

\* A worker that runs can always be reached, and no session has two of them,
\* unless a worker outlived its termination (runtimes and indexByPath).
THEOREM EveryWorkerIsReached == Spec => []WorkersAreReached
<1>1. IInv => WorkersAreReached
  <2> SUFFICES ASSUME IInv PROVE WorkersAreReached
    OBVIOUS
  <2>1. ASSUME ~survived, NEW g \in runtimes, NEW h \in runtimes, sess[g] = sess[h] PROVE g = h
    <3>1. /\ g \in Hosts /\ h \in Hosts /\ g # None /\ h # None
      BY DEF IInv, Typed, Hosts, None
    <3>2. CASE index[sess[g]] = g /\ index[sess[h]] = h
      BY <2>1, <3>2
    <3>3. ASSUME NEW c \in Calls, Boots(c, g) \/ Boots(c, h) PROVE index[sess[g]] = None
      BY <2>1, <3>1, <3>3 DEF IInv, Booting, Single, Boots
    <3>4. CASE \E c, d \in Calls : Boots(c, g) /\ Boots(d, h)
      <4>1. PICK c \in Calls, d \in Calls : Boots(c, g) /\ Boots(d, h)
        BY <3>4
      <4>2. c = d
        BY <2>1, <3>1, <4>1, OneBoots DEF Boots
      <4>3. QED
        BY <4>1, <4>2 DEF Boots
    <3>5. QED
      BY <2>1, <3>1, <3>2, <3>3, <3>4 DEF IInv, Single
  <2>2. OneWorker
    BY <2>1 DEF OneWorker
  <2>3. QED
    BY <2>2 DEF WorkersAreReached, IInv
<1>2. QED
  BY <1>1, ManagerInvariant, PTL

\* A call may move the view only to the session that was chosen last.
LEMMA ViewOfCalls ==
  ASSUME IInv, NEW c \in Calls, CallStep(c)
  PROVE  active' \in {active, None} \/ sess'[active'] = chosen'
<1>1. ASSUME Select(c), call[c].kind \in {"start", "resume"}, sess[call[c].host] = call[c].session, UNCHANGED <<sess, bookVars>>
      PROVE  active' \in {active, None} \/ sess'[active'] = chosen'
  BY <1>1 DEF Select, IInv, Called, About, bookVars
<1>2. CASE CallFollows(c)
  BY <1>2 DEF CallFollows, StartFinds, ResumeFinds, StartBegins, BootRejected, BootEnds, CleanedUp, CommandBegins, Rejection,
              removeHost, mapVars
<1>3. CASE Booted(c)
  <2>1. PICK h : h = call[c].host
    OBVIOUS
  <2>2. /\ call[c].pc = "booting" /\ h \in runtimes /\ Select(c)
        /\ UNCHANGED <<ender, sess, busy, stale, runtimes, selection, reloads, reload, closed, bookVars>>
    BY <1>3, <2>1 DEF Booted
  <2>3. h \in Hosts /\ Boots(c, h)
    BY <2>1, <2>2 DEF IInv, Typed, Boots
  <2>4. sess[h] = call[c].session /\ call[c].kind = "start"
    BY <2>3 DEF IInv, Booting
  <2>5. QED
    BY <1>1, <2>1, <2>2, <2>4
<1>4. CASE Read(c)
  <2>1. /\ call[c].pc = "reading" /\ (Select(c) \/ UNCHANGED active) /\ UNCHANGED <<hostVars, bookVars>>
    BY <1>4 DEF Read
  <2>2. call[c].kind \in {"start", "resume"} /\ sess[call[c].host] = call[c].session
    BY <2>1 DEF IInv, Called, About
  <2>3. QED
    BY <1>1, <2>1, <2>2 DEF hostVars
<1>5. CASE respondToUi(c) \/ Responds(c)
  BY <1>5 DEF respondToUi, Responds, mapVars
<1>6. QED
  BY <1>2, <1>3, <1>4, <1>5 DEF CallStep, CallProceeds

LEMMA ViewOfHosts == ASSUME NEW h \in Hosts, HostStep(h) PROVE active' = active
<1>1. CASE HostFollows(h)
  BY <1>1 DEF HostFollows, ReloadBegins, Respawns, ReloadRejected, mapVars
<1>2. CASE HostProceeds(h)
  BY <1>2 DEF HostProceeds, StateAnswered, Respawned, Terminated, TurnEnds, mapVars
<1>3. QED
  BY <1>1, <1>2 DEF HostStep

LEMMA ViewOfCallbacks == ASSUME Callback PROVE active' \in {active, None}
<1>1. CASE \E c \in Calls : AsksUser(c) \/ BootFails(c) \/ \E s \in Sessions : Start(c, s)
  BY <1>1 DEF AsksUser, BootFails, BootEnds, Start, removeHost, mapVars
<1>2. CASE \E c \in Calls : \E h \in Hosts : Resume(c, h) \/ \E k \in {"prompt", "plain", "abort"} : Command(c, h, k)
  BY <1>2 DEF Resume, Command, removeHost
<1>3. CASE \E h \in Hosts : AskReload(h) \/ Stop(h) \/ Reap(h) \/ Survives(h) \/ Exits(h)
  BY <1>3 DEF AskReload, Stop, Reap, stop, removeHost, Survives, Exits, mapVars
<1>4. CASE deactivate \/ Distrust \/ stopAll
  BY <1>4 DEF deactivate, Distrust, stopAll, mapVars
<1>5. QED
  BY <1>1, <1>2, <1>3, <1>4 DEF Callback

\* The late end of an earlier start or resume never takes the view from what the
\* user chose last (activeSelectionRevision).
THEOREM ViewIsKept == Spec => ViewFollowsChoice
<1>1. IInv /\ [Next]_vars => [active' \in {active, None} \/ sess'[active'] = chosen']_vars
  <2> SUFFICES ASSUME IInv, Next PROVE active' \in {active, None} \/ sess'[active'] = chosen'
    OBVIOUS
  <2>1. QED
    BY ViewOfCalls, ViewOfHosts, ViewOfCallbacks DEF Next, Proceed
<1>2. QED
  BY <1>1, ManagerInvariant, PTL DEF Spec, ViewFollowsChoice
=============================================================================
