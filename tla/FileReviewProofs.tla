----------------------------- MODULE FileReviewProofs -----------------------------
(***************************************************************************)
(* What TLAPS proves of the two parts of the file review: of GitReview,    *)
(* for any set of windows and any number of subscriptions, changes,        *)
(* refreshes and failures, and of TurnSnapshot, for every number of turns, *)
(* writes, failures and retained snapshots.                                *)
(***************************************************************************)
EXTENDS GitReview, TurnSnapshot, FiniteSetTheorems, SequenceTheorems, WellFoundedInduction, TLAPS

SubRecords == [window : Windows \cup {None}, query : Queries, open : BOOLEAN,
               bound : BOOLEAN, binds : 0..(1 + MaxRefreshes)]

AnyResult == UNION {Results(q) : q \in Queries}

GroupRecords == [phase : {"idle", "timer"} \cup Reading, stale : BOOLEAN, retried : BOOLEAN,
                 got : AnyResult, result : AnyResult]

StoreRecords == [sub : Subs \cup {None}, query : Queries, loading : BOOLEAN, result : AnyResult]

Updates == [sub : Subs, loading : BOOLEAN, result : AnyResult]

\* The subscription of a window is the one the service has open for it.
Subscribed ==
  /\ sub \in [Subs -> SubRecords]
  /\ \A s \in Subs : sub[s].binds <= 1 + refreshes
  /\ \A s \in Subs : sub[s].window = None => ~sub[s].open /\ sub[s].binds = 0
  /\ \A s \in Subs : sub[s].bound => sub[s].open
  /\ \A s \in Subs : sub[s].open => store[sub[s].window].sub = s
  /\ \A w \in Windows : store[w].sub # None =>
       sub[store[w].sub].window = w /\ sub[store[w].sub].query = store[w].query

\* What a window shows, and what is on its way there, is of the query it belongs to.
Shown ==
  /\ store \in [Windows -> StoreRecords]
  /\ toWindow \in [Windows -> Seq(Updates)]
  /\ \A w \in Windows : store[w].result \in Results(store[w].query)
  /\ \A w \in Windows : \A i \in 1..Len(toWindow[w]) :
       LET u == toWindow[w][i] IN sub[u.sub].window # None /\ u.result \in Results(sub[u.sub].query)

\* A read that has what it asked for is not outdated unless it says so, and a
\* comparison without subscriptions is at rest.
ReadsFresh ==
  /\ group \in [Queries -> GroupRecords]
  /\ \A q \in Queries : group[q].got \in Results(q) /\ group[q].result \in Results(q)
  /\ \A q \in Queries : Members(q) = {} => group[q] = NoGroup
  /\ \A q \in Queries : group[q].phase = "read" /\ ~group[q].stale =>
       group[q].got.kind = "ready" /\ \A k \in Relevant(q) : group[q].got.of[k] >= seen[k]
  /\ NoStaleResult

\* Only a project somebody looks at is watched.
Watched ==
  /\ events \subseteq Kinds /\ dead \subseteq Kinds /\ rooted \in BOOLEAN
  /\ ~watching => events = {} /\ dead = {} /\ ~rooted

Counted ==
  /\ disk \in [Kinds -> 0..MaxChanges] /\ seen \in [Kinds -> 0..MaxChanges]
  /\ \A k \in Kinds : seen[k] <= disk[k]
  /\ refreshes \in 0..MaxRefreshes /\ troubles \in 0..MaxTroubles

IInv == Counted /\ Subscribed /\ Shown /\ ReadsFresh /\ Watched

-----------------------------------------------------------------------------
(* Facts about results, members and messages.                               *)

LEMMA ResultFacts ==
  ASSUME NEW q \in Queries
  PROVE  /\ NoResult \in Results(q) /\ Failure \in Results(q) /\ Results(q) \subseteq AnyResult
         /\ \A r \in Results(q) : r.kind = "ready" => DOMAIN r.of = Relevant(q)
  BY DEF Results, AnyResult, NoResult, Failure

LEMMA ViewFacts ==
  ASSUME disk \in [Kinds -> 0..MaxChanges], NEW q \in Queries
  PROVE  /\ View(q) \in Results(q) /\ View(q).kind = "ready"
         /\ \A k \in Relevant(q) : View(q).of[k] = disk[k]
<1>1. Relevant(q) \subseteq Kinds
  BY DEF Relevant, Kinds
<1>2. Restrict(disk, Relevant(q)) \in [Relevant(q) -> 0..MaxChanges]
  BY <1>1 DEF Restrict
<1>3. QED
  BY <1>2 DEF View, Results, Restrict

LEMMA NoGroupFacts ==
  /\ NoGroup \in GroupRecords
  /\ NoGroup.phase = "idle" /\ NoGroup.got = NoResult /\ NoGroup.result = NoResult /\ NoResult.kind = "none"
<1>1. NoResult \in AnyResult
  BY ResultFacts DEF Queries, AnyResult
<1>2. QED
  BY <1>1 DEF NoGroup, GroupRecords, Reading, NoResult

\* A message that concerns a used subscription is of its query.
LEMMA Receives ==
  ASSUME IInv, store' = store,
         \A s \in Subs : sub'[s].window = sub[s].window /\ sub'[s].query = sub[s].query,
         NEW q \in Queries, NEW loading \in BOOLEAN, NEW r \in Results(q),
         \/ broadcast(q, loading, r)
         \/ \E s \in Subs : sub[s].open /\ sub[s].query = q /\ emit(s, loading, r)
  PROVE  Shown'
<1> USE DEF IInv, Subscribed, Shown
<1>1. ASSUME NEW w \in Windows
      PROVE  \/ toWindow'[w] = toWindow[w]
             \/ \E s \in Subs : /\ sub[s].window = w /\ sub[s].query = q
                                /\ toWindow'[w] = Append(toWindow[w], Update(s, loading, r))
  <2>1. CASE broadcast(q, loading, r)
    <3>1. CASE \E s \in Members(q) : sub[s].window = w
      <4> DEFINE s == CHOOSE s \in Members(q) : sub[s].window = w
      <4>1. s \in Members(q) /\ sub[s].window = w
        BY <3>1
      <4>2. toWindow'[w] = Append(toWindow[w], Update(s, loading, r))
        BY <2>1, <3>1 DEF broadcast
      <4> HIDE DEF s
      <4>3. QED
        BY <4>1, <4>2 DEF Members
    <3>2. QED
      BY <2>1, <3>1 DEF broadcast
  <2>2. CASE \E s \in Subs : sub[s].open /\ sub[s].query = q /\ emit(s, loading, r)
    <3>1. PICK s \in Subs : sub[s].open /\ sub[s].query = q /\ emit(s, loading, r)
      BY <2>2
    <3>2. CASE sub[s].window = w
      BY <3>1, <3>2 DEF emit
    <3>3. CASE sub[s].window # w
      BY <3>1, <3>3 DEF emit
    <3>4. QED
      BY <3>2, <3>3
  <2>3. QED
    BY <2>1, <2>2
<1>2. DOMAIN toWindow' = Windows /\ toWindow' = [w \in Windows |-> toWindow'[w]]
  BY DEF broadcast, emit
<1>3. ASSUME NEW s \in Subs PROVE Update(s, loading, r) \in Updates
  BY ResultFacts DEF Update, Updates
<1>4. ASSUME NEW w \in Windows
      PROVE  /\ toWindow'[w] \in Seq(Updates)
             /\ \A i \in 1..Len(toWindow'[w]) :
                  LET u == toWindow'[w][i] IN sub[u.sub].window # None /\ u.result \in Results(sub[u.sub].query)
  <2>1. CASE toWindow'[w] = toWindow[w]
    BY <2>1
  <2>2. ASSUME NEW s \in Subs, sub[s].window = w, sub[s].query = q,
               toWindow'[w] = Append(toWindow[w], Update(s, loading, r))
        PROVE  <1>4!2
    <3>1. /\ toWindow'[w] \in Seq(Updates) /\ Len(toWindow'[w]) = Len(toWindow[w]) + 1
          /\ toWindow'[w][Len(toWindow[w]) + 1] = Update(s, loading, r)
          /\ \A i \in 1..Len(toWindow[w]) : toWindow'[w][i] = toWindow[w][i]
      BY <1>3, <2>2, AppendProperties
    <3>2. Update(s, loading, r).sub = s /\ Update(s, loading, r).result = r
      BY DEF Update
    <3>3. ASSUME NEW i \in 1..Len(toWindow'[w])
          PROVE  i \in 1..Len(toWindow[w]) \/ i = Len(toWindow[w]) + 1
      BY <3>1, <3>3, LenProperties
    <3>4. QED
      BY <2>2, <3>1, <3>2, <3>3, WindowsAssumption DEF None
  <2>3. QED
    BY <1>1, <2>1, <2>2
<1>5. ASSUME NEW w \in Windows, NEW i \in 1..Len(toWindow'[w])
      PROVE  sub'[toWindow'[w][i].sub].window # None
             /\ toWindow'[w][i].result \in Results(sub'[toWindow'[w][i].sub].query)
  <2>1. PICK u \in Updates : u = toWindow'[w][i]
    BY <1>4, ElementOfSeq
  <2>2. sub[u.sub].window # None /\ u.result \in Results(sub[u.sub].query)
    BY <1>4, <2>1
  <2>3. u.sub \in Subs
    BY <2>1 DEF Updates
  <2>4. QED
    BY <2>1, <2>2, <2>3
<1>6. QED
  BY <1>2, <1>4, <1>5

\* New watches.
LEMMA Installs ==
  ASSUME IInv, install
  PROVE  events' \subseteq Kinds /\ dead' \subseteq Kinds /\ troubles' \in 0..MaxTroubles
  BY BoundsAssumption DEF IInv, Counted, Watched, install, Trouble

\* A comparison that is told of a change has its result read again or its read counted for nothing.
LEMMA Invalidates ==
  ASSUME IInv, sub' = sub, NEW Q \in SUBSET Live, NEW again \in BOOLEAN, changed(Q, again),
         \A q \in Live \ Q : \A k \in Relevant(q) : seen'[k] = seen[k]
  PROVE  ReadsFresh'
<1> USE DEF IInv, ReadsFresh
<1>1. \A q \in Queries : Members(q)' = Members(q)
  BY DEF Members
<1>2. Q \subseteq Queries /\ Live \subseteq Queries
  BY DEF Live
<1>3. ASSUME NEW q \in Queries
      PROVE  /\ group'[q] \in GroupRecords
             /\ group'[q].got \in Results(q) /\ group'[q].result \in Results(q)
             /\ Members(q) = {} => group'[q] = NoGroup
             /\ group'[q].phase = "read" /\ ~group'[q].stale =>
                  group'[q].got.kind = "ready" /\ \A k \in Relevant(q) : group'[q].got.of[k] >= seen'[k]
             /\ group'[q].phase = "idle" /\ group'[q].result.kind = "ready" =>
                  \A k \in Relevant(q) : group'[q].result.of[k] >= seen'[k]
  <2>1. CASE q \in Q
    <3>1. group'[q] = Invalidated(group[q], again)
      BY <2>1 DEF changed
    <3>2. Members(q) # {}
      BY <2>1 DEF Live
    <3>3. group[q] \in GroupRecords
      OBVIOUS
    <3>4. CASE group[q].phase = "idle"
      BY <3>1, <3>2, <3>3, <3>4 DEF Invalidated, GroupRecords, Reading
    <3>5. CASE group[q].phase = "timer"
      BY <3>1, <3>2, <3>3, <3>5 DEF Invalidated, Reading
    <3>6. CASE group[q].phase \in Reading
      BY <3>1, <3>2, <3>3, <3>6 DEF Invalidated, GroupRecords, Reading
    <3>7. QED
      BY <3>3, <3>4, <3>5, <3>6 DEF GroupRecords
  <2>2. CASE q \in Live \ Q
    <3>1. group'[q] = group[q]
      BY <2>2 DEF changed
    <3>2. QED
      BY <2>2, <3>1 DEF NoStaleResult
  <2>3. CASE q \notin Live
    <3>1. group'[q] = NoGroup /\ group[q] = NoGroup
      BY <1>2, <2>3 DEF changed, Live
    <3>2. QED
      BY <3>1, NoGroupFacts
  <2>4. QED
    BY <2>1, <2>2, <2>3
<1>4. group' \in [Queries -> GroupRecords]
  BY <1>3 DEF changed
<1>5. QED
  BY <1>1, <1>3, <1>4 DEF NoStaleResult

\* The step of one comparison that is on its way.
LEMMA Advances ==
  ASSUME IInv, UNCHANGED <<sub, seen>>, NEW q \in Queries, group[q].phase # "idle", NEW g \in GroupRecords,
         group' = [group EXCEPT ![q] = g],
         g.got \in Results(q), g.result \in Results(q),
         g.phase = "read" /\ ~g.stale => g.got.kind = "ready" /\ \A k \in Relevant(q) : g.got.of[k] >= seen[k],
         g.phase = "idle" /\ g.result.kind = "ready" => \A k \in Relevant(q) : g.result.of[k] >= seen[k]
  PROVE  ReadsFresh'
<1> USE DEF IInv, ReadsFresh
<1>1. \A p \in Queries : Members(p)' = Members(p)
  BY DEF Members
<1>2. Members(q) # {}
  BY NoGroupFacts
<1>3. group'[q] = g /\ \A p \in Queries \ {q} : group'[p] = group[p]
  OBVIOUS
<1>4. QED
  BY <1>1, <1>2, <1>3 DEF NoStaleResult

\* Messages stay of their query as long as used subscriptions keep it.
LEMMA StillShown ==
  ASSUME IInv, toWindow' = toWindow, store' \in [Windows -> StoreRecords],
         \A w \in Windows : store'[w].result \in Results(store'[w].query),
         \A s \in Subs : sub[s].window # None => sub'[s].window = sub[s].window /\ sub'[s].query = sub[s].query
  PROVE  Shown'
<1>1. ASSUME NEW w \in Windows, NEW i \in 1..Len(toWindow[w])
      PROVE  toWindow[w][i] \in Updates
  BY <1>1, ElementOfSeq DEF IInv, Shown
<1>2. ASSUME NEW w \in Windows, NEW i \in 1..Len(toWindow[w])
      PROVE  toWindow[w][i].sub \in Subs
  BY <1>1 DEF Updates
<1>3. ASSUME NEW w \in Windows, NEW i \in 1..Len(toWindow[w])
      PROVE  sub'[toWindow[w][i].sub].window # None
             /\ toWindow[w][i].result \in Results(sub'[toWindow[w][i].sub].query)
  BY <1>2 DEF IInv, Shown
<1>4. QED
  BY <1>3 DEF IInv, Shown

LEMMA Closes ==
  ASSUME NEW subs \in [Subs -> SubRecords], NEW s \in Subs \cup {None}, unsubscribe(s, subs)
  PROVE  /\ sub' \in [Subs -> SubRecords]
         /\ \A t \in Subs :
              /\ sub'[t].window = subs[t].window /\ sub'[t].query = subs[t].query /\ sub'[t].binds = subs[t].binds
              /\ sub'[t].open <=> subs[t].open /\ t # s
              /\ sub'[t].bound <=> subs[t].bound /\ t # s
<1>1. sub' = IF s = None THEN subs ELSE [subs EXCEPT ![s].open = FALSE, ![s].bound = FALSE]
  BY DEF unsubscribe
<1>2. CASE s = None
  BY <1>1, <1>2 DEF None, Subs
<1>3. CASE s # None
  <2>1. s \in Subs
    BY <1>3
  <2>2. ASSUME NEW r \in SubRecords PROVE [r EXCEPT !.open = FALSE, !.bound = FALSE] \in SubRecords
    BY DEF SubRecords
  <2>3. sub' = [subs EXCEPT ![s] = [subs[s] EXCEPT !.open = FALSE, !.bound = FALSE]]
    BY <1>1, <1>3, <2>1 DEF SubRecords
  <2>4. sub' \in [Subs -> SubRecords] /\ \A t \in Subs \ {s} : sub'[t] = subs[t]
    BY <2>1, <2>2, <2>3
  <2>5. /\ ~sub'[s].open /\ ~sub'[s].bound
        /\ sub'[s].window = subs[s].window /\ sub'[s].query = subs[s].query /\ sub'[s].binds = subs[s].binds
    BY <2>1, <2>3 DEF SubRecords
  <2>6. QED
    BY <2>4, <2>5
<1>4. QED
  BY <1>2, <1>3

\* A subscription that ends takes the work of its comparison and, if it was the
\* last of the project, the watches along; "t" is one that begins.
LEMMA Unsubscribes ==
  ASSUME IInv, UNCHANGED <<disk, seen>>, NEW s \in Subs \cup {None}, NEW subs, unsubscribe(s, subs),
         \/ subs = sub
         \/ \E t \in Subs : /\ t # s /\ ~sub[t].bound
                            /\ \E r \in SubRecords : ~r.bound /\ subs = [sub EXCEPT ![t] = r]
  PROVE  ReadsFresh' /\ Watched'
<1> USE DEF IInv, Subscribed
<1>1. \A q \in Queries : Members(q)' = Members(q) \ {s}
  <2>1. subs \in [Subs -> SubRecords] /\ \A t \in Subs : subs[t].bound = sub[t].bound /\ (sub[t].bound => subs[t] = sub[t])
    BY DEF SubRecords
  <2>2. \A t \in Subs : t # s => sub'[t] = subs[t]
    BY <2>1 DEF unsubscribe
  <2>3. s # None => s \in Subs /\ ~sub'[s].bound
    BY <2>1 DEF unsubscribe, SubRecords
  <2>4. QED
    BY <2>1, <2>2, <2>3 DEF Members, Subs, None
<1> DEFINE last == s # None /\ sub[s].bound /\ Members(sub[s].query) = {s}
<1>2. CASE ~last
  <2>1. group' = group /\ UNCHANGED watchVars
    BY <1>2 DEF unsubscribe
  <2>2. \A q \in Queries : Members(q)' = {} => Members(q) = {}
    BY <1>1, <1>2 DEF Members, None, Subs
  <2>3. Live' = Live
    BY <1>1, <2>2 DEF Live
  <2>4. QED
    BY <2>1, <2>2, <2>3 DEF ReadsFresh, NoStaleResult, Watched, watching, watchVars
<1>3. CASE last
  <2>0. s \in Subs /\ sub[s].query \in Queries
    BY <1>3 DEF SubRecords
  <2>1. PICK p \in Queries : p = sub[s].query
    BY <2>0
  <2>2. group' = [group EXCEPT ![p] = NoGroup]
    BY <1>3, <2>1 DEF unsubscribe
  <2>3. Members(p)' = {} /\ \A q \in Queries \ {p} : Members(q)' = Members(q)
    <3>1. \A q \in Queries \ {p} : s \notin Members(q)
      BY <2>1 DEF Members
    <3>2. Members(p) = {s}
      BY <1>3, <2>1
    <3>3. Members(p)' = Members(p) \ {s} /\ \A q \in Queries \ {p} : Members(q)' = Members(q) \ {s}
      BY Zenon, <1>1
    <3>4. Members(p) \ {s} = {}
      BY <3>2
    <3>5. \A q \in Queries \ {p} : Members(q) \ {s} = Members(q)
      BY <3>1
    <3>6. QED
      BY Zenon, <3>3, <3>4, <3>5
  <2>4. Live' = Live \ {p}
    BY <1>3, <2>1, <2>3 DEF Live
  <2>5. ReadsFresh'
    <3>1. group'[p] = NoGroup /\ \A q \in Queries \ {p} : group'[q] = group[q]
      BY <2>1, <2>2 DEF ReadsFresh
    <3>2. group' \in [Queries -> GroupRecords]
      BY <2>1, <2>2, NoGroupFacts DEF ReadsFresh
    <3>3. QED
      BY <2>1, <2>3, <3>1, <3>2, NoGroupFacts, ResultFacts DEF ReadsFresh, NoStaleResult
  <2>6. Watched'
    <3>1. CASE Live = {p}
      BY <1>3, <2>1, <3>1 DEF unsubscribe, Watched, Kinds
    <3>2. CASE Live # {p}
      <4>1. p \in Live
        BY <1>3, <2>1 DEF Live
      <4>2. watching' /\ watching
        BY <2>4, <3>2, <4>1 DEF watching
      <4>3. UNCHANGED watchVars
        BY <1>3, <2>1, <3>2 DEF unsubscribe
      <4>4. QED
        BY <4>2, <4>3 DEF Watched, watchVars
    <3>3. QED
      BY <3>1, <3>2
  <2>7. QED
    BY <2>5, <2>6
<1>4. QED
  BY <1>2, <1>3

-----------------------------------------------------------------------------
(* The invariant.                                                           *)

LEMMA Initially == Init => IInv
<1> SUFFICES ASSUME Init PROVE IInv
  OBVIOUS
<1>1. Counted
  BY BoundsAssumption DEF Init, Counted, Kinds
<1>2. Subscribed
  <2>1. Unused \in SubRecords
    BY BoundsAssumption DEF Unused, SubRecords, Queries
  <2>2. QED
    BY <2>1 DEF Init, Subscribed, Unused, Blank
<1>3. Shown
  <2>1. Blank \in StoreRecords /\ Blank.result \in Results(Blank.query)
    BY ResultFacts DEF Blank, StoreRecords, Queries
  <2>2. QED
    BY <2>1 DEF Init, Shown
<1>4. ReadsFresh
  BY NoGroupFacts, ResultFacts DEF Init, ReadsFresh, NoStaleResult
<1>5. Watched
  BY DEF Init, Watched
<1>6. QED
  BY <1>1, <1>2, <1>3, <1>4, <1>5 DEF IInv

LEMMA ConnectKeeps == ASSUME IInv, NEW w \in Windows, NEW q \in Queries, connect(w, q) PROVE IInv'
<1> DEFINE old == store[w].sub
           new == [window |-> w, query |-> q, open |-> TRUE, bound |-> FALSE, binds |-> 1]
<1>1. PICK s \in Subs :
        /\ sub[s].window = None
        /\ unsubscribe(old, [sub EXCEPT ![s] = new])
        /\ store' = [store EXCEPT ![w] = [sub |-> s, query |-> q, loading |-> TRUE,
                                          result |-> IF store[w].query = q THEN store[w].result ELSE NoResult]]
  BY DEF connect
<1>2. UNCHANGED <<disk, toWindow, seen, bookVars>>
  BY DEF connect
<1>3. old \in Subs \cup {None} /\ old # s /\ ~sub[s].open /\ ~sub[s].bound /\ w # None
  BY <1>1, WindowsAssumption DEF IInv, Subscribed, Shown, StoreRecords, None, Subs
<1>4. new \in SubRecords
  BY BoundsAssumption DEF SubRecords
<1>5. /\ sub' \in [Subs -> SubRecords]
      /\ sub'[s].window = w /\ sub'[s].query = q /\ sub'[s].open /\ ~sub'[s].bound /\ sub'[s].binds = 1
      /\ \A t \in Subs : t # s =>
           /\ sub'[t].window = sub[t].window /\ sub'[t].query = sub[t].query /\ sub'[t].binds = sub[t].binds
           /\ sub'[t].open <=> sub[t].open /\ t # old
           /\ sub'[t].bound <=> sub[t].bound /\ t # old
  <2> DEFINE mid == [sub EXCEPT ![s] = new]
  <2>1. /\ mid \in [Subs -> SubRecords]
        /\ mid[s].window = w /\ mid[s].query = q /\ mid[s].open /\ ~mid[s].bound /\ mid[s].binds = 1
        /\ \A t \in Subs : t # s => mid[t] = sub[t]
    BY <1>4 DEF IInv, Subscribed
  <2>2. unsubscribe(old, mid)
    BY <1>1
  <2> HIDE DEF mid, new
  <2>3. QED
    BY <1>3, <2>1, <2>2, Closes
<1> HIDE DEF new
<1>6. Counted'
  BY <1>2 DEF IInv, Counted, bookVars
<1>7. /\ store' \in [Windows -> StoreRecords] /\ store'[w].sub = s /\ store'[w].query = q
      /\ store'[w].result \in Results(q)
      /\ \A v \in Windows \ {w} : store'[v] = store[v]
  BY <1>1, ResultFacts DEF IInv, Shown, StoreRecords
<1>8. Subscribed'
  <2>1. \A t \in Subs : t # s /\ t # old /\ sub[t].open => sub[t].window # w
    BY <1>3 DEF IInv, Subscribed
  <2>2. \A t \in Subs : sub[t].open => sub[t].window \in Windows
    BY DEF IInv, Subscribed, SubRecords
  <2>3. \A v \in Windows \ {w} : store[v].sub # None => store[v].sub # s /\ store[v].sub # old /\ store[v].sub \in Subs
    BY <1>1, WindowsAssumption DEF IInv, Subscribed, Shown, StoreRecords, None
  <2>4. old # None => old \in Subs /\ sub[old].window = w /\ sub[old].binds <= 1 + refreshes
    BY <1>3 DEF IInv, Subscribed
  <2>5. refreshes' = refreshes /\ refreshes >= 0
    BY <1>2 DEF bookVars, IInv, Counted
  <2>6. ASSUME NEW t \in Subs PROVE sub'[t].binds <= 1 + refreshes'
    <3>1. CASE t = s
      BY <1>5, <2>5, <3>1 DEF IInv, Counted
    <3>2. CASE t # s
      BY <1>5, <2>5, <3>2 DEF IInv, Subscribed
    <3>3. QED
      BY <3>1, <3>2
  <2>7. \A t \in Subs : (sub'[t].window = None => ~sub'[t].open /\ sub'[t].binds = 0) /\ (sub'[t].bound => sub'[t].open)
    BY <1>3, <1>5, <2>4 DEF IInv, Subscribed, SubRecords
  <2>8. \A t \in Subs : sub'[t].open => store'[sub'[t].window].sub = t
    BY <1>5, <1>7, <2>1, <2>2, <2>4 DEF IInv, Subscribed, SubRecords
  <2>9. \A v \in Windows : store'[v].sub # None =>
          sub'[store'[v].sub].window = v /\ sub'[store'[v].sub].query = store'[v].query
    BY <1>5, <1>7, <2>3 DEF IInv, Subscribed
  <2>10. QED
    BY <1>5, <2>6, <2>7, <2>8, <2>9 DEF Subscribed
<1>9. Shown'
  <2>1. ASSUME NEW v \in Windows PROVE store'[v].result \in Results(store'[v].query)
    BY <1>7 DEF IInv, Shown
  <2>2. \A t \in Subs : sub[t].window # None => sub'[t].window = sub[t].window /\ sub'[t].query = sub[t].query
    BY <1>1, <1>5
  <2>3. QED
    BY <1>2, <1>7, <2>1, <2>2, StillShown
<1>10. ReadsFresh' /\ Watched'
  <2>1. \E t \in Subs : t # old /\ ~sub[t].bound /\ \E r \in SubRecords : ~r.bound /\ [sub EXCEPT ![s] = new] = [sub EXCEPT ![t] = r]
    BY <1>3, <1>4 DEF new
  <2>2. QED
    BY <1>1, <1>2, <1>3, <2>1, Unsubscribes
<1>11. QED
  BY <1>6, <1>8, <1>9, <1>10 DEF IInv

\* What a step leaves alone stays as it was.
LEMMA Rests ==
  ASSUME IInv
  PROVE  /\ UNCHANGED <<disk, seen, bookVars>> => Counted'
         /\ UNCHANGED <<sub, store, refreshes>> => Subscribed'
         /\ UNCHANGED <<sub, store, toWindow>> => Shown'
         /\ UNCHANGED <<sub, group, seen>> => ReadsFresh'
         /\ UNCHANGED <<sub, watchVars>> => Watched'
<1> USE DEF IInv
<1>1. UNCHANGED <<disk, seen, bookVars>> => Counted'
  BY DEF Counted, bookVars
<1>2. UNCHANGED <<sub, store, refreshes>> => Subscribed'
  BY DEF Subscribed
<1>3. UNCHANGED <<sub, store, toWindow>> => Shown'
  BY DEF Shown
<1>4. UNCHANGED sub => Live' = Live /\ \A q \in Queries : Members(q)' = Members(q)
  BY DEF Live, Members
<1>5. UNCHANGED <<sub, group, seen>> => ReadsFresh'
  BY <1>4 DEF ReadsFresh, NoStaleResult
<1>6. UNCHANGED <<sub, watchVars>> => Watched'
  BY <1>4 DEF Watched, watching, watchVars
<1>7. QED
  BY <1>1, <1>2, <1>3, <1>5, <1>6

LEMMA DisconnectKeeps == ASSUME IInv, NEW w \in Windows, disconnect(w) PROVE IInv'
<1> DEFINE old == store[w].sub
<1>1. /\ old # None /\ unsubscribe(old, sub) /\ store' = [store EXCEPT ![w].sub = None]
      /\ UNCHANGED <<disk, toWindow, seen, bookVars>>
  BY DEF disconnect
<1>2. old \in Subs /\ sub \in [Subs -> SubRecords]
  BY <1>1 DEF IInv, Subscribed, Shown, StoreRecords
<1>3. /\ sub' \in [Subs -> SubRecords]
      /\ \A t \in Subs :
           /\ sub'[t].window = sub[t].window /\ sub'[t].query = sub[t].query /\ sub'[t].binds = sub[t].binds
           /\ sub'[t].open <=> sub[t].open /\ t # old
           /\ sub'[t].bound <=> sub[t].bound /\ t # old
  BY <1>1, <1>2, Closes
<1>4. /\ store' \in [Windows -> StoreRecords] /\ store'[w].sub = None
      /\ \A v \in Windows : store'[v].query = store[v].query /\ store'[v].result = store[v].result
      /\ \A v \in Windows \ {w} : store'[v] = store[v]
  BY <1>1 DEF IInv, Shown, StoreRecords
<1>5. Subscribed'
  <2>1. refreshes' = refreshes
    BY <1>1 DEF bookVars
  <2>2. sub[old].window = w
    BY <1>1 DEF IInv, Subscribed
  <2>3. ASSUME NEW t \in Subs, sub'[t].open PROVE store'[sub'[t].window].sub = t
    <3>1. sub[t].open /\ t # old /\ store[sub[t].window].sub = t /\ sub[t].window # w
      BY <1>3, <2>2, <2>3 DEF IInv, Subscribed
    <3>2. sub[t].window \in Windows
      BY <3>1 DEF IInv, Subscribed, SubRecords
    <3>3. QED
      BY <1>3, <1>4, <3>1, <3>2
  <2>4. ASSUME NEW v \in Windows, store'[v].sub # None
        PROVE  sub'[store'[v].sub].window = v /\ sub'[store'[v].sub].query = store'[v].query
    <3>1. v # w /\ store'[v] = store[v] /\ store[v].sub \in Subs
      BY <1>4, <2>4 DEF IInv, Shown, StoreRecords
    <3>2. QED
      BY <1>3, <2>4, <3>1 DEF IInv, Subscribed
  <2>5. QED
    BY <1>3, <2>1, <2>3, <2>4 DEF IInv, Subscribed
<1>6. Shown'
  <2>1. ASSUME NEW v \in Windows PROVE store'[v].result \in Results(store'[v].query)
    BY <1>4 DEF IInv, Shown
  <2>2. QED
    BY <1>1, <1>3, <1>4, <2>1, StillShown
<1>7. QED
  BY <1>1, <1>2, <1>5, <1>6, Rests, Unsubscribes DEF IInv

LEMMA RefreshKeeps == ASSUME IInv, NEW w \in Windows, refresh(w) PROVE IInv'
<1> DEFINE s == store[w].sub
<1>1. /\ s # None /\ refreshes < MaxRefreshes /\ refreshes' = refreshes + 1
      /\ store' = [store EXCEPT ![w].loading = TRUE]
      /\ UNCHANGED <<disk, watchVars, toWindow, seen, troubles>>
      /\ IF sub[s].bound THEN changed({sub[s].query}, FALSE) /\ UNCHANGED sub
         ELSE sub' = [sub EXCEPT ![s].binds = @ + 1] /\ UNCHANGED group
  BY DEF refresh
<1>2. s \in Subs /\ sub[s].window # None
  BY <1>1, WindowsAssumption DEF IInv, Subscribed, Shown, StoreRecords, None
<1>3. /\ sub' \in [Subs -> SubRecords]
      /\ \A t \in Subs :
           /\ sub'[t].window = sub[t].window /\ sub'[t].query = sub[t].query
           /\ sub'[t].open = sub[t].open /\ sub'[t].bound = sub[t].bound
           /\ sub'[t].binds = sub[t].binds \/ (t = s /\ sub'[t].binds = sub[t].binds + 1)
  <2>1. CASE sub[s].bound
    BY <1>1, <2>1 DEF IInv, Subscribed
  <2>2. CASE ~sub[s].bound
    <3>1. sub[s] \in SubRecords /\ sub[s].binds <= 1 + refreshes /\ refreshes \in Nat /\ MaxRefreshes \in Nat
      BY <1>2, BoundsAssumption DEF IInv, Subscribed, Counted
    <3>2. sub[s].binds + 1 \in 0..(1 + MaxRefreshes)
      BY <1>1, <3>1 DEF SubRecords
    <3>3. QED
      BY <1>1, <1>2, <2>2, <3>1, <3>2 DEF IInv, Subscribed, SubRecords
  <2>3. QED
    BY <2>1, <2>2
<1>4. /\ store' \in [Windows -> StoreRecords]
      /\ \A v \in Windows : /\ store'[v].sub = store[v].sub /\ store'[v].query = store[v].query
                            /\ store'[v].result = store[v].result
  BY <1>1 DEF IInv, Shown, StoreRecords
<1>5. Counted'
  BY <1>1, BoundsAssumption DEF IInv, Counted
<1>6. Subscribed'
  <2>1. ASSUME NEW t \in Subs PROVE sub'[t].binds <= 1 + refreshes'
    BY <1>1, <1>3 DEF IInv, Subscribed, SubRecords, Counted
  <2>2. ASSUME NEW t \in Subs, sub'[t].window = None PROVE ~sub'[t].open /\ sub'[t].binds = 0
    BY <1>2, <1>3, <2>2 DEF IInv, Subscribed
  <2>3. ASSUME NEW t \in Subs, sub'[t].open PROVE store'[sub'[t].window].sub = t
    <3>1. sub[t].window \in Windows
      BY <1>3, <2>3 DEF IInv, Subscribed, SubRecords
    <3>2. QED
      BY <1>3, <1>4, <2>3, <3>1 DEF IInv, Subscribed
  <2>4. ASSUME NEW v \in Windows, store'[v].sub # None
        PROVE  sub'[store'[v].sub].window = v /\ sub'[store'[v].sub].query = store'[v].query
    <3>1. store[v].sub \in Subs
      BY <1>4, <2>4 DEF IInv, Shown, StoreRecords
    <3>2. QED
      BY <1>3, <1>4, <2>4, <3>1 DEF IInv, Subscribed
  <2>5. QED
    BY <1>3, <2>1, <2>2, <2>3, <2>4 DEF IInv, Subscribed
<1>7. Shown'
  <2>1. ASSUME NEW v \in Windows PROVE store'[v].result \in Results(store'[v].query)
    BY <1>4 DEF IInv, Shown
  <2>2. QED
    BY <1>1, <1>3, <1>4, <2>1, StillShown
<1>8. \A q \in Queries : Members(q)' = Members(q)
  BY <1>3 DEF Members
<1>9. Live' = Live
  BY <1>8 DEF Live
<1>10. ReadsFresh'
  <2>1. CASE sub[s].bound
    <3>1. sub[s].query \in Live
      BY <1>2, <2>1 DEF Live, Members, IInv, Subscribed, SubRecords
    <3>2. QED
      BY <1>1, <2>1, <3>1, Invalidates
  <2>2. CASE ~sub[s].bound
    BY <1>1, <1>8, <2>2 DEF IInv, ReadsFresh, NoStaleResult
  <2>3. QED
    BY <2>1, <2>2
<1>11. Watched'
  BY <1>1, <1>9 DEF IInv, Watched, watching, watchVars
<1>12. QED
  BY <1>5, <1>6, <1>7, <1>10, <1>11 DEF IInv

LEMMA OnUpdateKeeps == ASSUME IInv, NEW w \in Windows, onUpdate(w) PROVE IInv'
<1> DEFINE u == Head(toWindow[w])
<1>1. /\ toWindow[w] # <<>> /\ toWindow' = [toWindow EXCEPT ![w] = Tail(@)]
      /\ store' = IF u.sub = store[w].sub
                  THEN [store EXCEPT ![w].loading = u.loading,
                                     ![w].result = IF u.result = NoResult THEN @ ELSE u.result]
                  ELSE store
      /\ UNCHANGED <<disk, watchVars, mainVars, seen, bookVars>>
  BY DEF onUpdate, Concerns
<1>2. toWindow[w] \in Seq(Updates) /\ Len(toWindow[w]) # 0
  BY <1>1, EmptySeq DEF IInv, Shown
<1>3. /\ u \in Updates /\ u = toWindow[w][1] /\ 1 \in 1..Len(toWindow[w])
      /\ Tail(toWindow[w]) \in Seq(Updates) /\ Len(Tail(toWindow[w])) = Len(toWindow[w]) - 1
      /\ \A i \in 1..Len(Tail(toWindow[w])) : Tail(toWindow[w])[i] = toWindow[w][i + 1]
  BY <1>1, <1>2, HeadTailProperties
<1>4. u.result \in Results(sub[u.sub].query) /\ u.sub \in Subs /\ u.loading \in BOOLEAN /\ u.result \in AnyResult
  BY <1>3 DEF IInv, Shown, Updates
<1> HIDE DEF u
<1>5. /\ store' \in [Windows -> StoreRecords]
      /\ \A v \in Windows : store'[v].sub = store[v].sub /\ store'[v].query = store[v].query
      /\ \A v \in Windows : store'[v].result \in Results(store'[v].query)
  <2>1. CASE u.sub = store[w].sub
    <3>1. sub[u.sub].query = store[w].query
      BY <1>4, <2>1 DEF IInv, Subscribed, None, Subs
    <3>2. /\ store \in [Windows -> StoreRecords]
          /\ \A v \in Windows : store[v].result \in Results(store[v].query)
      BY DEF IInv, Shown
    <3>3. /\ store' = [store EXCEPT ![w].loading = u.loading,
                                    ![w].result = IF u.result = NoResult THEN @ ELSE u.result]
          /\ u.result \in Results(store[w].query)
      BY <1>1, <1>4, <2>1, <3>1
    <3>4. store' \in [Windows -> StoreRecords]
      BY ZenonT(30), <1>4, <3>2, <3>3 DEF StoreRecords
    <3>5. ASSUME NEW v \in Windows
          PROVE  /\ store'[v].sub = store[v].sub /\ store'[v].query = store[v].query
                 /\ store'[v].result \in Results(store[v].query)
      <4>1. CASE v = w
        BY <3>2, <3>3, <4>1 DEF StoreRecords
      <4>2. CASE v # w
        BY <3>2, <3>3, <4>2
      <4>3. QED
        BY <4>1, <4>2
    <3>6. QED
      BY <3>4, <3>5
  <2>2. CASE u.sub # store[w].sub
    BY <1>1, <2>2 DEF IInv, Shown
  <2>3. QED
    BY <2>1, <2>2
<1>6. Subscribed'
  <2>1. \A s \in Subs : sub[s].open => sub[s].window \in Windows
    BY DEF IInv, Subscribed, SubRecords
  <2>2. QED
    BY <1>1, <1>5, <2>1 DEF IInv, Subscribed, mainVars, bookVars
<1>7. Shown'
  <2>1. ASSUME NEW v \in Windows
        PROVE  /\ toWindow'[v] \in Seq(Updates)
               /\ \A i \in 1..Len(toWindow'[v]) : \E j \in 1..Len(toWindow[v]) : toWindow'[v][i] = toWindow[v][j]
    <3>1. CASE v = w
      <4>1. ASSUME NEW i \in 1..Len(Tail(toWindow[w])) PROVE i + 1 \in 1..Len(toWindow[w])
        BY <1>2, <1>3, <4>1, LenProperties
      <4>2. QED
        BY <1>1, <1>3, <3>1, <4>1 DEF IInv, Shown
    <3>2. CASE v # w
      BY <1>1, <3>2 DEF IInv, Shown
    <3>3. QED
      BY <3>1, <3>2
  <2>2. toWindow' \in [Windows -> Seq(Updates)]
    BY <1>1, <2>1 DEF IInv, Shown
  <2>3. sub' = sub
    BY <1>1 DEF mainVars
  <2>4. ASSUME NEW v \in Windows, NEW i \in 1..Len(toWindow'[v])
        PROVE  sub'[toWindow'[v][i].sub].window # None
               /\ toWindow'[v][i].result \in Results(sub'[toWindow'[v][i].sub].query)
    <3>1. PICK j \in 1..Len(toWindow[v]) : toWindow'[v][i] = toWindow[v][j]
      BY <2>1
    <3>2. QED
      BY <2>3, <3>1 DEF IInv, Shown
  <2>5. QED
    BY <1>5, <2>2, <2>4 DEF Shown
<1>8. QED
  BY <1>1, <1>6, <1>7, Rests DEF IInv, mainVars

LEMMA BindKeeps == ASSUME IInv, NEW s \in Subs, bind(s) PROVE IInv'
<1> DEFINE q == sub[s].query
           g == group[q]
<1>1. /\ sub[s].binds > 0 /\ sub[s].window # None /\ q \in Queries /\ sub[s] \in SubRecords
      /\ UNCHANGED <<disk, store, seen, refreshes>>
  <2>1. sub[s].binds > 0 /\ UNCHANGED <<disk, store, seen, refreshes>>
    BY DEF bind
  <2>2. sub[s] \in SubRecords
    BY DEF IInv, Subscribed
  <2>3. q \in Queries
    BY <2>2 DEF SubRecords
  <2>4. QED
    BY <2>1, <2>2, <2>3 DEF IInv, Subscribed
<1>2. PICK b \in BOOLEAN :
        /\ b = Joins(s) /\ b = (sub[s].open /\ ~sub[s].bound)
        /\ sub' = IF b THEN [sub EXCEPT ![s].binds = @ - 1, ![s].bound = TRUE]
                  ELSE [sub EXCEPT ![s].binds = @ - 1]
  BY DEF bind, Joins, IInv, Subscribed, SubRecords
<1>3. /\ sub' \in [Subs -> SubRecords]
      /\ \A t \in Subs :
           /\ sub'[t].window = sub[t].window /\ sub'[t].query = sub[t].query /\ sub'[t].open = sub[t].open
           /\ sub'[t].binds <= sub[t].binds
           /\ t # s \/ ~b => sub'[t].bound = sub[t].bound
      /\ b => sub'[s].bound
  <2>1. sub[s].binds - 1 \in 0..(1 + MaxRefreshes)
    BY <1>1, BoundsAssumption DEF SubRecords
  <2>2. CASE b
    <3>1. sub' = [sub EXCEPT ![s] = [sub[s] EXCEPT !.binds = @ - 1, !.bound = TRUE]]
      BY <1>1, <1>2, <2>2 DEF IInv, Subscribed, SubRecords
    <3>2. [sub[s] EXCEPT !.binds = @ - 1, !.bound = TRUE] \in SubRecords
      BY <1>1, <2>1 DEF SubRecords
    <3>3. sub' \in [Subs -> SubRecords] /\ \A t \in Subs \ {s} : sub'[t] = sub[t]
      BY <3>1, <3>2 DEF IInv, Subscribed
    <3>4. /\ sub'[s].window = sub[s].window /\ sub'[s].query = sub[s].query /\ sub'[s].open = sub[s].open
          /\ sub'[s].binds = sub[s].binds - 1 /\ sub'[s].bound
      BY <1>1, <3>1 DEF IInv, Subscribed, SubRecords
    <3>5. \A t \in Subs : sub[t].binds \in Int
      BY BoundsAssumption DEF IInv, Subscribed, SubRecords
    <3>6. QED
      BY <2>2, <3>3, <3>4, <3>5
  <2>3. CASE ~b
    BY <1>1, <1>2, <2>1, <2>3 DEF IInv, Subscribed, SubRecords
  <2>4. QED
    BY <2>2, <2>3
<1>4. Counted'
  BY <1>1, Installs DEF IInv, Counted, bind
<1>5. Subscribed'
  <2>1. ASSUME NEW t \in Subs PROVE sub'[t].binds <= 1 + refreshes'
    BY <1>1, <1>3 DEF IInv, Subscribed, SubRecords, Counted
  <2>2. ASSUME NEW t \in Subs, sub'[t].window = None PROVE ~sub'[t].open /\ sub'[t].binds = 0
    <3>1. t # s /\ sub[t].window = None
      BY <1>1, <1>3, <2>2
    <3>2. sub'[t] = sub[t]
      BY <1>2, <3>1 DEF IInv, Subscribed
    <3>3. QED
      BY <3>1, <3>2 DEF IInv, Subscribed
  <2>3. ASSUME NEW t \in Subs PROVE (sub'[t].bound => sub'[t].open) /\ (sub'[t].open => store'[sub'[t].window].sub = t)
    <3>1. sub'[t].bound => sub'[t].open
      <4>1. CASE t = s /\ b
        BY <1>2, <1>3, <4>1
      <4>2. CASE ~(t = s /\ b)
        BY <1>3, <4>2 DEF IInv, Subscribed
      <4>3. QED
        BY <4>1, <4>2
    <3>2. sub'[t].open => store'[sub'[t].window].sub = t
      BY <1>1, <1>3 DEF IInv, Subscribed
    <3>3. QED
      BY <3>1, <3>2
  <2>4. ASSUME NEW v \in Windows, store'[v].sub # None
        PROVE  sub'[store'[v].sub].window = v /\ sub'[store'[v].sub].query = store'[v].query
    <3>1. store[v].sub \in Subs
      BY <1>1, <2>4 DEF IInv, Shown, StoreRecords
    <3>2. QED
      BY <1>1, <1>3, <2>4, <3>1 DEF IInv, Subscribed
  <2>5. QED
    BY <1>3, <2>1, <2>2, <2>3, <2>4 DEF Subscribed
<1>6. Shown'
  <2>1. CASE ~b
    BY <1>1, <1>2, <1>3, <2>1, StillShown DEF bind, IInv, Shown
  <2>2. CASE b
    <3>1. PICK loading \in BOOLEAN : emit(s, loading, g.result)
      BY <1>2, <2>2 DEF bind
    <3>2. g.result \in Results(q) /\ sub[s].open
      BY <1>1, <1>2, <2>2 DEF IInv, ReadsFresh
    <3>3. QED
      BY <1>1, <1>3, <3>1, <3>2, Receives
  <2>3. QED
    BY <2>1, <2>2
<1>7. CASE ~b
  <2>1. \A p \in Queries : Members(p)' = Members(p)
    BY <1>3, <1>7 DEF Members
  <2>2. Live' = Live
    BY <2>1 DEF Live
  <2>3. UNCHANGED <<watchVars, group>>
    BY <1>2, <1>7 DEF bind
  <2>4. ReadsFresh'
    BY <1>1, <2>1, <2>3 DEF IInv, ReadsFresh, NoStaleResult
  <2>5. Watched'
    BY <2>2, <2>3 DEF IInv, Watched, watching, watchVars
  <2>6. QED
    BY <1>4, <1>5, <1>6, <2>4, <2>5 DEF IInv
<1>8. CASE b
  <2>1. PICK p \in Queries : p = q
    BY <1>1
  <2>2. s \in Members(p)' /\ \A o \in Queries \ {p} : Members(o)' = Members(o)
    BY <1>3, <1>8, <2>1 DEF Members
  <2>3. /\ group' = IF g.result = NoResult /\ g.phase = "idle" THEN [group EXCEPT ![p].phase = "timer"] ELSE group
        /\ IF watching THEN UNCHANGED <<events, dead, troubles>> ELSE install
        /\ UNCHANGED rooted
    BY <1>2, <1>8, <2>1 DEF bind
  <2>4. ReadsFresh'
    <3>1. /\ group' \in [Queries -> GroupRecords]
          /\ \A o \in Queries \ {p} : group'[o] = group[o]
          /\ \/ group'[p] = group[p]
             \/ group'[p].phase = "timer" /\ group'[p].got = group[p].got /\ group'[p].result = group[p].result
      BY <2>1, <2>3 DEF IInv, ReadsFresh, GroupRecords
    <3>2. QED
      BY <1>1, <2>2, <3>1 DEF IInv, ReadsFresh, NoStaleResult
  <2>5. Watched'
    <3>1. watching'
      BY <2>2 DEF watching, Live
    <3>2. QED
      BY <2>3, <3>1, Installs DEF IInv, Watched
  <2>6. QED
    BY <1>4, <1>5, <1>6, <2>4, <2>5 DEF IInv
<1>9. QED
  BY <1>7, <1>8

LEMMA BindFailsKeeps == ASSUME IInv, NEW s \in Subs, bindFails(s) PROVE IInv'
<1>1. /\ sub[s].binds > 0 /\ sub[s].window # None /\ sub[s].query \in Queries /\ sub[s] \in SubRecords
      /\ sub' = [sub EXCEPT ![s].binds = @ - 1]
      /\ IF sub[s].open THEN emit(s, FALSE, Failure) ELSE UNCHANGED toWindow
      /\ UNCHANGED <<disk, watchVars, group, store, seen, refreshes>>
      /\ Trouble
  <2>1. sub[s].binds > 0
    BY DEF bindFails
  <2>2. sub[s] \in SubRecords
    BY DEF IInv, Subscribed
  <2>3. sub[s].query \in Queries
    BY <2>2 DEF SubRecords
  <2>4. sub[s].window # None
    BY <2>1 DEF IInv, Subscribed
  <2>5. QED
    BY <2>1, <2>2, <2>3, <2>4 DEF bindFails
<1>2. /\ sub' \in [Subs -> SubRecords]
      /\ \A t \in Subs :
           /\ sub'[t].window = sub[t].window /\ sub'[t].query = sub[t].query
           /\ sub'[t].open = sub[t].open /\ sub'[t].bound = sub[t].bound
           /\ sub'[t].binds <= sub[t].binds
  <2>1. sub[s].binds - 1 \in 0..(1 + MaxRefreshes)
    BY <1>1, BoundsAssumption DEF SubRecords
  <2>2. QED
    BY <1>1, <2>1 DEF IInv, Subscribed, SubRecords
<1>3. Counted'
  BY <1>1, BoundsAssumption DEF IInv, Counted, Trouble
<1>4. Subscribed'
  <2>1. ASSUME NEW t \in Subs PROVE sub'[t].binds <= 1 + refreshes'
    BY <1>1, <1>2 DEF IInv, Subscribed, SubRecords, Counted
  <2>2. ASSUME NEW t \in Subs, sub'[t].window = None PROVE ~sub'[t].open /\ sub'[t].binds = 0
    BY <1>1, <1>2, <2>2 DEF IInv, Subscribed, SubRecords
  <2>3. ASSUME NEW v \in Windows, store'[v].sub # None
        PROVE  sub'[store'[v].sub].window = v /\ sub'[store'[v].sub].query = store'[v].query
    <3>1. store[v].sub \in Subs
      BY <1>1, <2>3 DEF IInv, Shown, StoreRecords
    <3>2. QED
      BY <1>1, <1>2, <2>3, <3>1 DEF IInv, Subscribed
  <2>4. QED
    BY <1>1, <1>2, <2>1, <2>2, <2>3 DEF IInv, Subscribed
<1>5. Shown'
  <2>1. CASE sub[s].open
    BY <1>1, <1>2, <2>1, Receives, ResultFacts
  <2>2. CASE ~sub[s].open
    BY <1>1, <1>2, <2>2, StillShown DEF IInv, Shown
  <2>3. QED
    BY <2>1, <2>2
<1>6. Live' = Live /\ \A q \in Queries : Members(q)' = Members(q)
  BY <1>2 DEF Live, Members
<1>7. ReadsFresh' /\ Watched'
  BY <1>1, <1>6 DEF IInv, ReadsFresh, NoStaleResult, Watched, watching, watchVars
<1>8. QED
  BY <1>3, <1>4, <1>5, <1>7 DEF IInv

LEMMA ReadingKeeps ==
  ASSUME IInv, NEW q \in Queries, TimerFires(q) \/ Inspected(q) \/ Captured(q) \/ ReadEnds(q) \/ ReadFails(q)
  PROVE  IInv'
<1> DEFINE g == group[q]
<1>1. /\ g \in GroupRecords /\ g.got \in Results(q) /\ g.result \in Results(q)
      /\ group \in [Queries -> GroupRecords]
  BY DEF IInv, ReadsFresh
<1>2. Results(q) \subseteq AnyResult /\ NoResult \in Results(q) /\ Failure \in Results(q) /\ NoResult \in AnyResult
  BY ResultFacts
<1>3. CASE TimerFires(q)
  <2>1. /\ group' = [group EXCEPT ![q] = [g EXCEPT !.phase = "inspecting", !.stale = FALSE]]
        /\ g.phase = "timer" /\ broadcast(q, TRUE, NoResult)
        /\ UNCHANGED <<disk, watchVars, sub, store, seen, bookVars>>
    BY <1>1, <1>3 DEF TimerFires, GroupRecords
  <2>2. [g EXCEPT !.phase = "inspecting", !.stale = FALSE] \in GroupRecords
    BY <1>1 DEF GroupRecords, Reading
  <2>3. ReadsFresh'
    BY <1>1, <2>1, <2>2, Advances DEF GroupRecords
  <2>4. Shown'
    BY <1>2, <2>1, Receives
  <2>5. QED
    BY <2>1, <2>3, <2>4, Rests DEF IInv, bookVars
<1>4. CASE Inspected(q)
  <2>1. /\ group' = [group EXCEPT ![q] = [g EXCEPT !.phase = "reading"]]
        /\ g.phase = "inspecting" /\ rooted' = TRUE
        /\ IF rooted THEN UNCHANGED <<events, dead, troubles>> ELSE install
        /\ UNCHANGED <<disk, sub, store, toWindow, seen, refreshes>>
    BY <1>1, <1>4 DEF Inspected, GroupRecords
  <2>2. [g EXCEPT !.phase = "reading"] \in GroupRecords
    BY <1>1 DEF GroupRecords, Reading
  <2>3. ReadsFresh'
    BY <1>1, <2>1, <2>2, Advances DEF GroupRecords
  <2>4. Members(q) # {}
    BY <2>1, NoGroupFacts DEF IInv, ReadsFresh
  <2>5. watching' /\ Counted' /\ Watched'
    <3>1. Members(q)' # {}
      BY <2>1, <2>4 DEF Members
    <3>2. watching'
      BY <3>1 DEF watching, Live
    <3>3. QED
      BY <2>1, <3>2, Installs DEF IInv, Counted, Watched
  <2>6. QED
    BY <2>1, <2>3, <2>5, Rests DEF IInv
<1>5. CASE Captured(q)
  <2>1. /\ group' = [group EXCEPT ![q] = [g EXCEPT !.phase = "read", !.got = View(q)]]
        /\ g.phase = "reading"
        /\ UNCHANGED <<disk, watchVars, sub, store, toWindow, seen, bookVars>>
    BY <1>1, <1>5 DEF Captured, GroupRecords
  <2>2. View(q) \in Results(q) /\ View(q).kind = "ready" /\ \A k \in Relevant(q) : View(q).of[k] = disk[k]
    BY ViewFacts DEF IInv, Counted
  <2>3. \A k \in Relevant(q) : disk[k] >= seen[k]
    BY BoundsAssumption DEF IInv, Counted, Relevant, Kinds
  <2>4. [g EXCEPT !.phase = "read", !.got = View(q)] \in GroupRecords
    BY <1>1, <1>2, <2>2 DEF GroupRecords, Reading
  <2>5. ReadsFresh'
    BY <1>1, <2>1, <2>2, <2>3, <2>4, Advances DEF GroupRecords
  <2>6. QED
    BY <2>1, <2>5, Rests DEF IInv, bookVars
<1>6. ASSUME NEW r \in Results(q), Finished(q, r), g.phase # "idle",
             UNCHANGED <<disk, watchVars, sub, store, seen, refreshes>>,
             ~g.stale /\ r.kind = "ready" => \A k \in Relevant(q) : r.of[k] >= seen[k]
      PROVE  Shown' /\ ReadsFresh' /\ Subscribed' /\ Watched'
  <2>1. CASE g.stale
    <3>1. /\ group' = [group EXCEPT ![q] = [g EXCEPT !.phase = "timer", !.got = NoResult]]
          /\ UNCHANGED toWindow
      BY <1>1, <1>6, <2>1 DEF Finished, GroupRecords
    <3>2. [g EXCEPT !.phase = "timer", !.got = NoResult] \in GroupRecords
      BY <1>1, <1>2 DEF GroupRecords
    <3>3. ReadsFresh'
      BY <1>1, <1>2, <1>6, <3>1, <3>2, Advances DEF GroupRecords
    <3>4. QED
      BY <1>6, <3>1, <3>3, Rests
  <2>2. CASE ~g.stale
    <3>1. /\ group' = [group EXCEPT ![q] = [NoGroup EXCEPT !.result = r]]
          /\ broadcast(q, FALSE, r)
      BY <1>6, <2>2 DEF Finished
    <3>2. /\ [NoGroup EXCEPT !.result = r] \in GroupRecords
          /\ [NoGroup EXCEPT !.result = r].phase = "idle" /\ [NoGroup EXCEPT !.result = r].got = NoResult
          /\ [NoGroup EXCEPT !.result = r].result = r
      BY <1>2 DEF GroupRecords, NoGroup
    <3>3. ReadsFresh'
      BY <1>2, <1>6, <2>2, <3>1, <3>2, Advances
    <3>4. Shown'
      BY <1>6, <3>1, Receives
    <3>5. QED
      BY <1>6, <3>3, <3>4, Rests
  <2>3. QED
    BY <2>1, <2>2
<1>7. CASE ReadEnds(q)
  <2>1. g.phase = "read" /\ Finished(q, g.got) /\ UNCHANGED <<disk, watchVars, sub, store, seen, bookVars>>
    BY <1>7 DEF ReadEnds
  <2>2. ~g.stale => \A k \in Relevant(q) : g.got.of[k] >= seen[k]
    BY <2>1 DEF IInv, ReadsFresh
  <2>3. Shown' /\ ReadsFresh' /\ Subscribed' /\ Watched'
    BY <1>1, <1>6, <2>1, <2>2 DEF bookVars
  <2>4. QED
    BY <2>1, <2>3, Rests DEF IInv
<1>8. CASE ReadFails(q)
  <2>1. /\ g.phase \in Reading /\ Trouble /\ Finished(q, Failure)
        /\ UNCHANGED <<disk, watchVars, sub, store, seen, refreshes>>
    BY <1>8 DEF ReadFails
  <2>2. Failure.kind # "ready" /\ g.phase # "idle"
    BY <2>1 DEF Failure, Reading
  <2>3. Shown' /\ ReadsFresh' /\ Subscribed' /\ Watched'
    BY <1>2, <1>6, <2>1, <2>2
  <2>4. Counted'
    BY <2>1, BoundsAssumption DEF Trouble, IInv, Counted
  <2>5. QED
    BY <2>3, <2>4 DEF IInv
<1>9. QED
  BY <1>3, <1>4, <1>5, <1>7, <1>8

LEMMA ChangeKeeps == ASSUME IInv, NEW k \in Kinds, Change(k) PROVE IInv'
<1>1. /\ disk[k] < MaxChanges /\ disk' = [disk EXCEPT ![k] = @ + 1]
      /\ events' = IF watching /\ WatchOf(k) \notin dead THEN events \cup {k} ELSE events
      /\ UNCHANGED <<dead, rooted, mainVars, store, toWindow, seen, bookVars>>
  BY DEF Change
<1>2. Counted'
  <2>1. disk' \in [Kinds -> 0..MaxChanges] /\ \A e \in Kinds : disk'[e] >= disk[e]
    BY <1>1, BoundsAssumption DEF IInv, Counted
  <2>2. QED
    BY <1>1, <2>1, BoundsAssumption DEF IInv, Counted, bookVars
<1>3. watching' = watching
  BY <1>1 DEF watching, Live, Members, mainVars
<1>4. Watched'
  BY <1>1, <1>3 DEF IInv, Watched
<1>5. QED
  BY <1>1, <1>2, <1>4, Rests DEF IInv, mainVars, bookVars

LEMMA ToldKeeps == ASSUME IInv, NEW k \in Kinds, Told(k) PROVE IInv'
<1>1. /\ k \in events /\ events' = events \ {k}
      /\ changed({q \in Live : k \in Relevant(q)}, FALSE)
      /\ seen' = IF k = "repository" THEN disk ELSE [seen EXCEPT ![k] = disk[k]]
      /\ UNCHANGED <<disk, dead, rooted, sub, store, toWindow, bookVars>>
  BY DEF Told
<1>2. Counted'
  <2>1. CASE k = "repository"
    BY <1>1, <2>1, BoundsAssumption DEF IInv, Counted, bookVars
  <2>2. CASE k # "repository"
    BY <1>1, <2>2, BoundsAssumption DEF IInv, Counted, bookVars
  <2>3. QED
    BY <2>1, <2>2
<1>3. \A q \in Live \ {p \in Live : k \in Relevant(p)} : \A e \in Relevant(q) : seen'[e] = seen[e]
  <2>1. \A q \in Queries : "repository" \in Relevant(q) /\ Relevant(q) \subseteq Kinds
    BY DEF Relevant, Kinds
  <2>2. QED
    BY <1>1, <2>1 DEF Live, IInv, Counted
<1>4. ReadsFresh'
  BY <1>1, <1>3, Invalidates
<1>5. watching' = watching
  BY <1>1 DEF watching, Live, Members
<1>6. Watched'
  BY <1>1, <1>5 DEF IInv, Watched
<1>7. QED
  BY <1>1, <1>2, <1>4, <1>6, Rests DEF IInv, bookVars

LEMMA WatchFailsKeeps == ASSUME IInv, NEW k \in Kinds, WatchFails(k) PROVE IInv'
<1>1. /\ watching /\ Trouble /\ dead' = dead \cup {k} /\ events' \subseteq events
      /\ UNCHANGED <<disk, rooted, mainVars, store, toWindow, seen, refreshes>>
  BY DEF WatchFails
<1>2. Counted'
  BY <1>1, BoundsAssumption DEF IInv, Counted, Trouble
<1>3. watching' = watching
  BY <1>1 DEF watching, Live, Members, mainVars
<1>4. Watched'
  BY <1>1, <1>3 DEF IInv, Watched
<1>5. QED
  BY <1>1, <1>2, <1>4, Rests DEF IInv, mainVars

LEMMA PollingKeeps == ASSUME IInv, Poll \/ Retry PROVE IInv'
<1>1. CASE Poll
  <2>1. changed(Polled, FALSE) /\ Polled \subseteq Live /\ UNCHANGED <<disk, watchVars, sub, store, toWindow, seen, bookVars>>
    BY <1>1 DEF Poll, Polled
  <2>2. ReadsFresh'
    BY <2>1, Invalidates
  <2>3. QED
    BY <2>1, <2>2, Rests DEF IInv, bookVars
<1>2. CASE Retry
  <2>1. /\ dead # {} /\ install /\ changed(Live, TRUE) /\ seen' = disk
        /\ UNCHANGED <<disk, rooted, sub, store, toWindow, refreshes>>
    BY <1>2 DEF Retry
  <2>2. ReadsFresh'
    BY <2>1, Invalidates
  <2>3. Counted'
    BY <2>1, Installs, BoundsAssumption DEF IInv, Counted
  <2>4. watching /\ watching'
    BY <2>1 DEF IInv, Watched, watching, Live, Members
  <2>5. Watched'
    BY <2>1, <2>4, Installs DEF IInv, Watched
  <2>6. QED
    BY <2>1, <2>2, <2>3, <2>5, Rests DEF IInv
<1>3. QED
  BY <1>1, <1>2

LEMMA StepKeeps == IInv /\ [Next]_vars => IInv'
<1> SUFFICES ASSUME IInv, [Next]_vars PROVE IInv'
  OBVIOUS
<1>1. CASE \E w \in Windows : (\E q \in Queries : connect(w, q)) \/ disconnect(w) \/ refresh(w) \/ onUpdate(w)
  BY <1>1, ConnectKeeps, DisconnectKeeps, RefreshKeeps, OnUpdateKeeps
<1>2. CASE \E s \in Subs : bind(s) \/ bindFails(s)
  BY <1>2, BindKeeps, BindFailsKeeps
<1>3. CASE \E q \in Queries : TimerFires(q) \/ Inspected(q) \/ Captured(q) \/ ReadEnds(q) \/ ReadFails(q)
  BY <1>3, ReadingKeeps
<1>4. CASE \E k \in Kinds : Change(k) \/ Told(k) \/ WatchFails(k)
  BY <1>4, ChangeKeeps, ToldKeeps, WatchFailsKeeps
<1>5. CASE Poll \/ Retry
  BY <1>5, PollingKeeps
<1>6. CASE UNCHANGED vars
  BY <1>6, Rests DEF IInv, vars, mainVars, watchVars, bookVars
<1>7. QED
  BY <1>1, <1>2, <1>3, <1>4, <1>5, <1>6 DEF Next

-----------------------------------------------------------------------------
(* The theorems.                                                            *)

\* The invariant: subscriptions of the windows and of the service belong together,
\* messages are of the query of their subscription, reads that are not outdated
\* have what was told, and nothing works for nobody.
THEOREM ReviewInvariant == Spec => []IInv
  BY Initially, StepKeeps, PTL DEF Spec

\* Every variable keeps its type, and a window has one subscription at a time.
THEOREM TypeCorrect == Spec => []TypeOK
<1>1. IInv => TypeOK
  <2> SUFFICES ASSUME IInv PROVE TypeOK
    OBVIOUS
  <2>1. ASSUME NEW s \in Subs, NEW t \in Subs, sub[s].open, sub[t].open, sub[s].window = sub[t].window
        PROVE  s = t
    BY <2>1 DEF IInv, Subscribed
  <2>2. ASSUME NEW q \in Queries
        PROVE  group[q] \in [phase : {"idle", "timer"} \cup Reading, stale : BOOLEAN, retried : BOOLEAN,
                             got : Results(q), result : Results(q)]
    <3>1. group[q] \in GroupRecords /\ group[q].got \in Results(q) /\ group[q].result \in Results(q)
      BY DEF IInv, ReadsFresh
    <3>2. QED
      BY <3>1 DEF GroupRecords
  <2>3. store \in [Windows -> [sub : Subs \cup {None}, query : Queries, loading : BOOLEAN,
                               result : UNION {Results(q) : q \in Queries}]]
    BY DEF IInv, Shown, StoreRecords, AnyResult
  <2>4. QED
    BY <2>1, <2>2, <2>3 DEF IInv, Counted, Subscribed, Watched, SubRecords, TypeOK
<1>2. QED
  BY <1>1, ReviewInvariant, PTL

\* A comparison at rest is as new as what was told, and a window never shows one
\* comparison as another.
THEOREM ComparisonsFit == Spec => []ResultsFit
<1>1. IInv => ResultsFit
  <2> SUFFICES ASSUME IInv PROVE ResultsFit
    OBVIOUS
  <2>1. ASSUME NEW w \in Windows, store[w].result.kind = "ready"
        PROVE  DOMAIN store[w].result.of = Relevant(store[w].query)
    <3>1. store[w].query \in Queries /\ store[w].result \in Results(store[w].query)
      BY DEF IInv, Shown, StoreRecords
    <3>2. QED
      BY <2>1, <3>1, ResultFacts
  <2>2. QED
    BY <2>1 DEF IInv, ReadsFresh, ResultsFit, ViewIsOfQuery
<1>2. QED
  BY <1>1, ReviewInvariant, PTL

\* Timers, reads and watches are there only for subscriptions that are open.
THEOREM ClosedIsIdle == Spec => []NoIdleWork
<1>1. IInv => NoIdleWork
  BY DEF IInv, Subscribed, ReadsFresh, Watched, NoIdleWork
<1>2. QED
  BY <1>1, ReviewInvariant, PTL

-----------------------------------------------------------------------------
(* TurnSnapshot.                                                           *)

\* The type of what a turn is made of.
TurnRecords ==
  [pc : {"none", "running", "stored", "failed", "lost"} \cup InCapture,
   runtime : Runtimes \cup {0}, ready : {"no", "yes", "unavailable"},
   baseline : {"none", "done", "failed"}, good : BOOLEAN, tool : BOOLEAN,
   early : BOOLEAN, background : BOOLEAN, unfinished : BOOLEAN,
   base : SUBSET Nat, target : SUBSET Nat, unread : SUBSET Nat]

Jobs == [turn : Turns, what : {"base", "target"}]

Typed ==
  /\ writer \in Seq(Turns)
  /\ turn \in [Turns -> TurnRecords]
  /\ queue \in Seq(Jobs)
  /\ from \in {NotBegun} \cup 0..Len(writer)
  /\ from # NotBegun => queue # <<>>
  /\ \A t \in Turns : turn[t].base \subseteq 1..Len(writer)

\* A capture waits or runs once, for a turn that is where it left it.
Queued ==
  /\ \A i, j \in 1..Len(queue) : queue[i] = queue[j] => i = j
  /\ \A i \in 1..Len(queue) :
       IF queue[i].what = "base"
       THEN turn[queue[i].turn].ready = "yes" /\ turn[queue[i].turn].baseline = "none"
       ELSE turn[queue[i].turn].pc = "target"
  /\ \A t \in Turns :
       /\ turn[t].baseline # "none" => turn[t].ready = "yes"
       /\ turn[t].pc = "none" => turn[t].ready = "no"
       /\ turn[t].pc = "target" => turn[t].baseline = "done"

\* Only a running turn has a tool; who writes in the background is listed.
Attributed ==
  \A t \in Turns :
    /\ turn[t].tool => turn[t].pc = "running"
    /\ turn[t].background => turn[t].unfinished /\ turn[t].pc # "none"
    /\ turn[t].pc = "none" => \A w \in 1..Len(writer) : writer[w] # t

\* A turn without the warning has written nothing before its baseline was there.
AfterBaseline ==
  \A t \in Turns : ~turn[t].early =>
    /\ turn[t].tool \/ turn[t].background => turn[t].baseline = "done"
    /\ \A w \in 1..Len(writer) : writer[w] = t => turn[t].baseline = "done" /\ w \notin turn[t].base

\* The capture of the target of t is under way.
Targeting(t) == from # NotBegun /\ Head(queue) = Job(t, "target")

HasTarget(t) == turn[t].pc \in {"ranged", "stored"} \/ (turn[t].pc \in {"writing", "renamed"} /\ turn[t].good)

\* A turn that left nothing behind wrote nothing after its target began, which has all
\* of it but what could not be read.
BeforeTarget ==
  \A t \in Turns : ~turn[t].unfinished =>
    \A w \in 1..Len(writer) : writer[w] = t =>
      /\ Targeting(t) => w <= from
      /\ HasTarget(t) => w \in turn[t].target \cup turn[t].unread

Inductive == Typed /\ Queued /\ Attributed /\ AfterBaseline /\ BeforeTarget

-----------------------------------------------------------------------------
\* What waits in the queue concerns turns.
LEMMA QueueJobs == Typed => \A i \in 1..Len(queue) : queue[i] \in Jobs /\ queue[i].turn \in Turns
  <1>1. ASSUME queue \in Seq(Jobs), NEW i \in 1..Len(queue) PROVE queue[i] \in Jobs
    BY <1>1
  <1>2. ASSUME NEW j \in Jobs PROVE j.turn \in Turns
    BY DEF Jobs
  <1> QED BY <1>1, <1>2 DEF Typed

\* The initial state satisfies the invariant.
LEMMA InitInductive == TSInit => Inductive
  BY DEF TSInit, Inductive, Typed, Queued, Attributed, AfterBaseline, BeforeTarget, HasTarget, Targeting,
         TurnRecords, UnusedTurn, InCapture, Jobs, NotBegun, Turns

\* What a step that moves the turn t to "new" may do to it.
Harmless(t, new) ==
  /\ turn[t].ready = "no" \/ new.ready = turn[t].ready
  /\ new.baseline = turn[t].baseline /\ new.base = turn[t].base
  /\ new.target = turn[t].target /\ new.unread = turn[t].unread
  /\ new.pc \in {"none", "target"} \/ turn[t].pc \in {"none", "target"} => new.pc = turn[t].pc
  /\ turn[t].pc = "none" => new.ready = "no"
  /\ turn[t].baseline # "none" => new.ready = "yes"
  /\ new.tool => new.pc = "running"
  /\ new.background => new.unfinished /\ new.pc # "none"
  /\ turn[t].early => new.early
  /\ turn[t].unfinished => new.unfinished
  /\ (new.tool \/ new.background) /\ ~new.early => new.baseline = "done"
  /\ new.pc \in {"ranged", "stored"} \/ (new.pc \in {"writing", "renamed"} /\ new.good) => HasTarget(t)

\* A step that moves one turn only keeps the invariant when it leaves the captures
\* of the turn alone, and forgets neither the warning nor what goes on.
LEMMA TurnMoves ==
  ASSUME Inductive, NEW t \in Turns, NEW new \in TurnRecords,
         turn' = [turn EXCEPT ![t] = new],
         UNCHANGED <<writer, queue, from>>,
         Harmless(t, new)
  PROVE  Inductive'
  <1>1. turn[t] \in TurnRecords /\ turn \in [Turns -> TurnRecords]
    BY DEF Inductive, Typed
  <1>2. turn' \in [Turns -> TurnRecords]
    BY <1>1
  <1>3. turn'[t] = new /\ \A u \in Turns : u # t => turn'[u] = turn[u]
    BY <1>1
  <1>4. Typed'
    BY <1>1, <1>2, <1>3 DEF Inductive, Typed, Harmless
  <1>5. Queued'
    <2>1. \A u \in Turns :
            /\ turn'[u].baseline = turn[u].baseline /\ (turn[u].ready = "yes" => turn'[u].ready = "yes")
            /\ turn'[u].pc \in {"none", "target"} \/ turn[u].pc \in {"none", "target"} => turn'[u].pc = turn[u].pc
            /\ turn[u].pc = "none" => turn'[u].ready = "no"
      BY <1>3 DEF Inductive, Queued, Harmless
    <2>2. \A i \in 1..Len(queue) : queue[i].turn \in Turns
      BY QueueJobs DEF Inductive
    <2> QED BY <2>1, <2>2 DEF Inductive, Queued
  <1>6. Attributed'
    BY <1>3 DEF Inductive, Attributed, Harmless
  <1>7. AfterBaseline'
    BY <1>3 DEF Inductive, AfterBaseline, Harmless
  <1>8. BeforeTarget'
    BY <1>3 DEF Inductive, BeforeTarget, HasTarget, Targeting, Harmless
  <1> QED BY <1>4, <1>5, <1>6, <1>7, <1>8 DEF Inductive

\* A tool starts: without a baseline, the warning is due.
LEMMA ToolExecutionStartStep == ASSUME Inductive, NEW t \in Turns, tool_execution_start(t) PROVE Inductive'
  <1> DEFINE new == [turn[t] EXCEPT !.tool = TRUE, !.early = (turn[t].early \/ Early(t))]
  <1>1. turn[t] \in TurnRecords /\ turn \in [Turns -> TurnRecords]
    BY DEF Inductive, Typed
  <1>2. new \in TurnRecords
    BY <1>1 DEF TurnRecords, InCapture, Early
  <1>3. turn' = [turn EXCEPT ![t] = new] /\ UNCHANGED <<writer, queue, from>>
    BY <1>1 DEF tool_execution_start, TurnRecords
  <1>4. Harmless(t, new)
    BY <1>1 DEF Harmless, Inductive, Queued, Attributed, AfterBaseline, HasTarget, tool_execution_start, Early, TurnRecords
  <1> QED BY <1>2, <1>3, <1>4, TurnMoves

\* A tool ends; what it leaves in the background is listed.
LEMMA ToolExecutionEndStep == ASSUME Inductive, NEW t \in Turns, tool_execution_end(t) PROVE Inductive'
  <1>0. PICK running \in BOOLEAN : turn' = [turn EXCEPT ![t].tool = FALSE, ![t].background = @ \/ running, ![t].unfinished = @ \/ running]
    BY DEF tool_execution_end
  <1> DEFINE new == [turn[t] EXCEPT !.tool = FALSE, !.background = (turn[t].background \/ running), !.unfinished = (turn[t].unfinished \/ running)]
  <1>1. turn[t] \in TurnRecords /\ turn \in [Turns -> TurnRecords]
    BY DEF Inductive, Typed
  <1>2. new \in TurnRecords
    BY <1>1 DEF TurnRecords, InCapture
  <1>3. turn' = [turn EXCEPT ![t] = new] /\ UNCHANGED <<writer, queue, from>>
    BY <1>0, <1>1 DEF tool_execution_end, TurnRecords
  <1>4. Harmless(t, new)
    BY <1>0, <1>1 DEF Harmless, Inductive, Queued, Attributed, AfterBaseline, HasTarget, tool_execution_end, TurnRecords
  <1> QED BY <1>2, <1>3, <1>4, TurnMoves

\* A turn settles without a tool.
LEMMA AgentSettledStep == ASSUME Inductive, NEW t \in Turns, agent_settled(t) PROVE Inductive'
  <1> DEFINE new == [turn[t] EXCEPT !.pc = "settled"]
  <1>1. turn[t] \in TurnRecords /\ turn \in [Turns -> TurnRecords]
    BY DEF Inductive, Typed
  <1>2. new \in TurnRecords
    BY <1>1 DEF TurnRecords, InCapture
  <1>3. turn' = [turn EXCEPT ![t] = new] /\ UNCHANGED <<writer, queue, from>>
    BY <1>1 DEF agent_settled, TurnRecords
  <1>4. Harmless(t, new)
    BY <1>1 DEF Harmless, Inductive, Queued, Attributed, AfterBaseline, HasTarget, agent_settled, TurnRecords
  <1> QED BY <1>2, <1>3, <1>4, TurnMoves

\* A turn is stopped together with its commands.
LEMMA DesktopRuntimeStoppedStep == ASSUME Inductive, NEW t \in Turns, desktop_runtime_stopped(t) PROVE Inductive'
  <1> DEFINE new == [turn[t] EXCEPT !.pc = "settled", !.tool = FALSE, !.background = FALSE]
  <1>1. turn[t] \in TurnRecords /\ turn \in [Turns -> TurnRecords]
    BY DEF Inductive, Typed
  <1>2. new \in TurnRecords
    BY <1>1 DEF TurnRecords, InCapture
  <1>3. turn' = [turn EXCEPT ![t] = new] /\ UNCHANGED <<writer, queue, from>>
    BY <1>1 DEF desktop_runtime_stopped, TurnRecords
  <1>4. Harmless(t, new)
    BY <1>1 DEF Harmless, Inductive, Queued, Attributed, AfterBaseline, HasTarget, desktop_runtime_stopped, TurnRecords
  <1> QED BY <1>2, <1>3, <1>4, TurnMoves

\* A turn that cannot be captured has nothing in the queue.
LEMMA UnavailableStep == ASSUME Inductive, NEW t \in Turns, unavailable(t) PROVE Inductive'
  <1> DEFINE new == [turn[t] EXCEPT !.ready = "unavailable"]
  <1>1. turn[t] \in TurnRecords /\ turn \in [Turns -> TurnRecords]
    BY DEF Inductive, Typed
  <1>2. new \in TurnRecords
    BY <1>1 DEF TurnRecords, InCapture
  <1>3. turn' = [turn EXCEPT ![t] = new] /\ UNCHANGED <<writer, queue, from>>
    BY <1>1 DEF unavailable, TurnRecords
  <1>4. Harmless(t, new)
    BY <1>1 DEF Harmless, Inductive, Queued, Attributed, AfterBaseline, HasTarget, unavailable, TurnRecords
  <1> QED BY <1>2, <1>3, <1>4, TurnMoves

\* A capture without a baseline fails.
LEMMA CannotCaptureStep == ASSUME Inductive, NEW t \in Turns, cannotCapture(t) PROVE Inductive'
  <1> DEFINE new == [turn[t] EXCEPT !.pc = "failing"]
  <1>1. turn[t] \in TurnRecords /\ turn \in [Turns -> TurnRecords]
    BY DEF Inductive, Typed
  <1>2. new \in TurnRecords
    BY <1>1 DEF TurnRecords, InCapture
  <1>3. turn' = [turn EXCEPT ![t] = new] /\ UNCHANGED <<writer, queue, from>>
    BY <1>1 DEF cannotCapture, TurnRecords
  <1>4. Harmless(t, new)
    BY <1>1 DEF Harmless, Inductive, Queued, Attributed, AfterBaseline, HasTarget, cannotCapture, TurnRecords
  <1> QED BY <1>2, <1>3, <1>4, TurnMoves

\* The manifest is loaded; what failed stays failed.
LEMMA LoadStep == ASSUME Inductive, NEW t \in Turns, load(t) PROVE Inductive'
  <1> DEFINE new == [turn[t] EXCEPT !.pc = "writing", !.good = (turn[t].pc = "ranged")]
  <1>1. turn[t] \in TurnRecords /\ turn \in [Turns -> TurnRecords]
    BY DEF Inductive, Typed
  <1>2. new \in TurnRecords
    BY <1>1 DEF TurnRecords, InCapture
  <1>3. turn' = [turn EXCEPT ![t] = new] /\ UNCHANGED <<writer, queue, from>>
    BY <1>1 DEF load, TurnRecords
  <1>4. Harmless(t, new)
    BY <1>1 DEF Harmless, Inductive, Queued, Attributed, AfterBaseline, HasTarget, load, TurnRecords
  <1> QED BY <1>2, <1>3, <1>4, TurnMoves

\* The manifest is replaced.
LEMMA RenamesStep == ASSUME Inductive, NEW t \in Turns, renames(t) PROVE Inductive'
  <1> DEFINE new == [turn[t] EXCEPT !.pc = "renamed"]
  <1>1. turn[t] \in TurnRecords /\ turn \in [Turns -> TurnRecords]
    BY DEF Inductive, Typed
  <1>2. new \in TurnRecords
    BY <1>1 DEF TurnRecords, InCapture
  <1>3. turn' = [turn EXCEPT ![t] = new] /\ UNCHANGED <<writer, queue, from>>
    BY <1>1 DEF renames, TurnRecords
  <1>4. Harmless(t, new)
    BY <1>1 DEF Harmless, Inductive, Queued, Attributed, AfterBaseline, HasTarget, renames, TurnRecords
  <1> QED BY <1>2, <1>3, <1>4, TurnMoves

\* A snapshot is stored only with its target.
LEMMA WrittenStep == ASSUME Inductive, NEW t \in Turns, written(t) PROVE Inductive'
  <1> DEFINE new == [turn[t] EXCEPT !.pc = IF turn[t].good THEN "stored" ELSE "failed"]
  <1>1. turn[t] \in TurnRecords /\ turn \in [Turns -> TurnRecords]
    BY DEF Inductive, Typed
  <1>2. new \in TurnRecords
    BY <1>1 DEF TurnRecords, InCapture
  <1>3. turn' = [turn EXCEPT ![t] = new] /\ UNCHANGED <<writer, queue, from>>
    BY <1>1 DEF written, TurnRecords
  <1>4. Harmless(t, new)
    BY <1>1 DEF Harmless, Inductive, Queued, Attributed, AfterBaseline, HasTarget, written, TurnRecords
  <1> QED BY <1>2, <1>3, <1>4, TurnMoves

\* A capture that fails has no snapshot.
LEMMA CaptureEndsBadlyStep == ASSUME Inductive, NEW t \in Turns, captureEndsBadly(t) PROVE Inductive'
  <1> DEFINE new == [turn[t] EXCEPT !.pc = IF turn[t].pc = "writing" /\ ~turn[t].good THEN "failed" ELSE "failing"]
  <1>1. turn[t] \in TurnRecords /\ turn \in [Turns -> TurnRecords]
    BY DEF Inductive, Typed
  <1>2. new \in TurnRecords
    BY <1>1 DEF TurnRecords, InCapture
  <1>3. turn' = [turn EXCEPT ![t] = new] /\ UNCHANGED <<writer, queue, from>>
    BY <1>1 DEF captureEndsBadly, TurnRecords
  <1>4. Harmless(t, new)
    BY <1>1 DEF Harmless, Inductive, Queued, Attributed, AfterBaseline, HasTarget, captureEndsBadly, TurnRecords
  <1> QED BY <1>2, <1>3, <1>4, TurnMoves

\* A new turn starts clean; one that had not settled is settled.
LEMMA AgentStartStep == ASSUME Inductive, NEW r \in Runtimes, agent_start(r) PROVE Inductive'
  <1>1. PICK t \in Turns :
          /\ turn[t].pc = "none"
          /\ turn' = [u \in Turns |->
               IF u = t THEN [UnusedTurn EXCEPT !.pc = "running", !.runtime = r]
               ELSE IF turn[u].pc = "running" /\ turn[u].runtime = r
                    THEN [turn[u] EXCEPT !.pc = "settled", !.tool = FALSE] ELSE turn[u]]
    BY DEF agent_start
  <1>2. UNCHANGED <<writer, queue, from>>
    BY DEF agent_start
  <1>3. \A u \in Turns : turn[u] \in TurnRecords
    BY DEF Inductive, Typed
  <1>4. turn' \in [Turns -> TurnRecords]
    <2>1. [UnusedTurn EXCEPT !.pc = "running", !.runtime = r] \in TurnRecords
      BY DEF UnusedTurn, TurnRecords
    <2>2. ASSUME NEW u \in Turns PROVE [turn[u] EXCEPT !.pc = "settled", !.tool = FALSE] \in TurnRecords
      BY <1>3 DEF TurnRecords, InCapture
    <2> QED BY <1>1, <1>3, <2>1, <2>2
  <1>5. /\ turn'[t].pc = "running" /\ turn'[t].ready = "no" /\ turn'[t].baseline = "none" /\ turn'[t].base = {}
        /\ ~turn'[t].tool /\ ~turn'[t].background
    BY <1>1 DEF UnusedTurn
  <1>6. \A u \in Turns : u # t =>
          /\ turn'[u].pc = turn[u].pc \/ (turn[u].pc = "running" /\ turn'[u].pc = "settled" /\ ~turn'[u].tool)
          /\ turn'[u].tool => turn[u].tool
          /\ turn'[u].ready = turn[u].ready /\ turn'[u].baseline = turn[u].baseline
          /\ turn'[u].base = turn[u].base /\ turn'[u].target = turn[u].target /\ turn'[u].good = turn[u].good
          /\ turn'[u].early = turn[u].early /\ turn'[u].background = turn[u].background
          /\ turn'[u].unfinished = turn[u].unfinished /\ turn'[u].unread = turn[u].unread
    BY <1>1, <1>3 DEF TurnRecords
  <1>7. Typed'
    BY <1>2, <1>4, <1>5, <1>6 DEF Inductive, Typed
  <1>8. Queued'
    <2>1. \A i \in 1..Len(queue) : queue[i].turn \in Turns /\ queue[i].turn # t
      BY <1>1, QueueJobs DEF Inductive, Queued
    <2> QED BY <1>2, <1>5, <1>6, <2>1 DEF Inductive, Queued
  <1>9. Attributed'
    BY <1>2, <1>5, <1>6 DEF Inductive, Attributed
  <1>12. \A w \in 1..Len(writer) : writer[w] # t
    BY <1>1 DEF Inductive, Attributed
  <1>10. AfterBaseline'
    <2>1. ASSUME NEW u \in Turns, u # t, ~turn'[u].early
          PROVE  /\ turn'[u].tool \/ turn'[u].background => turn'[u].baseline = "done"
                 /\ \A w \in 1..Len(writer) : writer[w] = u => turn'[u].baseline = "done" /\ w \notin turn'[u].base
      BY <1>6, <2>1 DEF Inductive, AfterBaseline
    <2> QED BY <1>2, <1>5, <1>12, <2>1 DEF AfterBaseline
  <1>11. BeforeTarget'
    <2>1. ASSUME NEW u \in Turns, u # t, ~turn'[u].unfinished, NEW w \in 1..Len(writer), writer[w] = u
          PROVE  (Targeting(u) => w <= from) /\ (HasTarget(u)' => w \in turn'[u].target \cup turn'[u].unread)
      BY <1>6, <2>1 DEF Inductive, BeforeTarget, HasTarget
    <2>2. \A u \in Turns : Targeting(u)' <=> Targeting(u)
      BY <1>2 DEF Targeting
    <2> QED BY <1>2, <1>12, <2>1, <2>2 DEF BeforeTarget
  <1> QED BY <1>7, <1>8, <1>9, <1>10, <1>11 DEF Inductive

\* Who writes is running a tool or goes on in the background: a write after the
\* baseline, and not after the target unless it is listed.
LEMMA WritesStep == ASSUME Inductive, NEW t \in Turns, Writes(t) PROVE Inductive'
  <1>1. writer' = Append(writer, t) /\ UNCHANGED <<turn, queue, from>>
    BY DEF Writes
  <1>2. writer \in Seq(Turns) /\ (turn[t].tool \/ turn[t].background)
    BY DEF Inductive, Typed, Writes
  <1>3. /\ writer' \in Seq(Turns) /\ Len(writer') = Len(writer) + 1 /\ Len(writer) \in Nat
        /\ \A w \in 1..Len(writer) : writer'[w] = writer[w]
        /\ writer'[Len(writer) + 1] = t
    BY <1>1, <1>2
  <1>4. \A w \in 1..Len(writer') : w \in 1..Len(writer) \/ w = Len(writer) + 1
    BY <1>3
  <1>5. Typed'
    BY <1>1, <1>3 DEF Inductive, Typed, NotBegun
  <1>6. Queued'
    BY <1>1 DEF Inductive, Queued
  <1>7. Attributed'
    BY <1>1, <1>2, <1>3, <1>4 DEF Inductive, Attributed
  <1>8. AfterBaseline'
    <2>1. Len(writer) + 1 \notin turn[t].base
      BY <1>3 DEF Inductive, Typed
    <2> QED BY <1>1, <1>2, <1>3, <1>4, <2>1 DEF Inductive, AfterBaseline
  <1>9. BeforeTarget'
    <2>1. ~turn[t].unfinished => turn[t].pc = "running"
      BY <1>2 DEF Inductive, Attributed
    <2>2. Targeting(t) => turn[t].pc = "target"
      BY DEF Inductive, Typed, Queued, Targeting, Job
    <2> QED BY <1>1, <1>3, <1>4, <2>1, <2>2 DEF Inductive, BeforeTarget, HasTarget, Targeting
  <1> QED BY <1>5, <1>6, <1>7, <1>8, <1>9 DEF Inductive

\* The baseline joins the queue, which has no other of the same turn.
LEMMA InitializeStep == ASSUME Inductive, NEW t \in Turns, initialize(t) PROVE Inductive'
  <1>1. /\ turn[t].pc \in {"running", "settled"} /\ turn[t].ready = "no"
        /\ turn' = [turn EXCEPT ![t].ready = "yes"]
        /\ queue' = Append(queue, Job(t, "base")) /\ UNCHANGED <<writer, from>>
    BY DEF initialize
  <1>2. turn \in [Turns -> TurnRecords] /\ queue \in Seq(Jobs) /\ Job(t, "base") \in Jobs
    BY DEF Inductive, Typed, Job, Jobs
  <1>3. /\ turn' \in [Turns -> TurnRecords]
        /\ \A u \in Turns : u # t => turn'[u] = turn[u]
        /\ turn'[t].ready = "yes" /\ turn'[t].pc = turn[t].pc /\ turn'[t].baseline = turn[t].baseline
        /\ turn'[t].base = turn[t].base /\ turn'[t].target = turn[t].target /\ turn'[t].good = turn[t].good
        /\ turn'[t].tool = turn[t].tool /\ turn'[t].early = turn[t].early
        /\ turn'[t].background = turn[t].background /\ turn'[t].unfinished = turn[t].unfinished
        /\ turn'[t].unread = turn[t].unread
    BY <1>1, <1>2 DEF TurnRecords
  <1>4. /\ queue' \in Seq(Jobs) /\ Len(queue') = Len(queue) + 1 /\ Len(queue) \in Nat
        /\ \A i \in 1..Len(queue) : queue'[i] = queue[i]
        /\ queue'[Len(queue) + 1] = Job(t, "base")
    BY <1>1, <1>2
  <1>5. \A i \in 1..Len(queue') : i \in 1..Len(queue) \/ i = Len(queue) + 1
    BY <1>4
  <1>6. Typed'
    BY <1>1, <1>2, <1>3, <1>4 DEF Inductive, Typed
  <1>7. Queued'
    <2>1. \A i \in 1..Len(queue) : queue[i].turn \in Turns /\ queue[i] # Job(t, "base")
      BY <1>1, QueueJobs DEF Inductive, Queued, Job
    <2>2. turn[t].baseline = "none"
      BY <1>1, <1>2 DEF Inductive, Queued, TurnRecords
    <2>3. Job(t, "base").turn = t /\ Job(t, "base").what = "base"
      BY DEF Job
    <2>4. \A i, j \in 1..Len(queue') : queue'[i] = queue'[j] => i = j
      BY <1>4, <1>5, <2>1 DEF Inductive, Queued
    <2>5. \A i \in 1..Len(queue') :
            IF queue'[i].what = "base"
            THEN turn'[queue'[i].turn].ready = "yes" /\ turn'[queue'[i].turn].baseline = "none"
            ELSE turn'[queue'[i].turn].pc = "target"
      <3>1. ASSUME NEW i \in 1..Len(queue)
            PROVE  IF queue[i].what = "base"
                   THEN turn'[queue[i].turn].ready = "yes" /\ turn'[queue[i].turn].baseline = "none"
                   ELSE turn'[queue[i].turn].pc = "target"
        BY <1>3, <2>1 DEF Inductive, Queued
      <3> QED BY <1>3, <1>4, <1>5, <2>2, <2>3, <3>1
    <2>6. \A u \in Turns :
            /\ turn'[u].baseline # "none" => turn'[u].ready = "yes"
            /\ turn'[u].pc = "none" => turn'[u].ready = "no"
            /\ turn'[u].pc = "target" => turn'[u].baseline = "done"
      BY <1>1, <1>3 DEF Inductive, Queued
    <2> QED BY <2>4, <2>5, <2>6 DEF Queued
  <1>8. Attributed'
    BY <1>1, <1>3 DEF Inductive, Attributed
  <1>9. AfterBaseline'
    BY <1>1, <1>3 DEF Inductive, AfterBaseline
  <1>10. BeforeTarget'
    <2>1. \A u \in Turns : Targeting(u)' => Targeting(u)
      BY <1>1, <1>2, <1>4 DEF Inductive, Typed, Targeting
    <2> QED BY <1>1, <1>3, <2>1 DEF Inductive, BeforeTarget, HasTarget
  <1> QED BY <1>6, <1>7, <1>8, <1>9, <1>10 DEF Inductive

\* The target joins the queue of a turn that waited for its baseline only.
LEMMA CaptureStep == ASSUME Inductive, NEW t \in Turns, capture(t) PROVE Inductive'
  <1>1. /\ turn[t].pc = "settled" /\ turn[t].baseline = "done"
        /\ turn' = [turn EXCEPT ![t].pc = "target"]
        /\ queue' = Append(queue, Job(t, "target")) /\ UNCHANGED <<writer, from>>
    BY DEF capture
  <1>2. turn \in [Turns -> TurnRecords] /\ queue \in Seq(Jobs) /\ Job(t, "target") \in Jobs
    BY DEF Inductive, Typed, Job, Jobs
  <1>3. /\ turn' \in [Turns -> TurnRecords]
        /\ \A u \in Turns : u # t => turn'[u] = turn[u]
        /\ turn'[t].pc = "target" /\ turn'[t].ready = turn[t].ready /\ turn'[t].baseline = turn[t].baseline
        /\ turn'[t].base = turn[t].base /\ turn'[t].target = turn[t].target /\ turn'[t].good = turn[t].good
        /\ turn'[t].tool = turn[t].tool /\ turn'[t].early = turn[t].early
        /\ turn'[t].background = turn[t].background /\ turn'[t].unfinished = turn[t].unfinished
        /\ turn'[t].unread = turn[t].unread
    <2> DEFINE new == [turn[t] EXCEPT !.pc = "target"]
    <2>1. new \in TurnRecords
      BY <1>2 DEF TurnRecords, InCapture
    <2>2. turn' = [turn EXCEPT ![t] = new]
      BY <1>1
    <2> QED BY <1>2, <2>1, <2>2 DEF TurnRecords
  <1>4. /\ queue' \in Seq(Jobs) /\ Len(queue') = Len(queue) + 1 /\ Len(queue) \in Nat
        /\ \A i \in 1..Len(queue) : queue'[i] = queue[i]
        /\ queue'[Len(queue) + 1] = Job(t, "target")
    BY <1>1, <1>2
  <1>5. \A i \in 1..Len(queue') : i \in 1..Len(queue) \/ i = Len(queue) + 1
    BY <1>4
  <1>6. Typed'
    BY <1>1, <1>2, <1>3, <1>4 DEF Inductive, Typed
  <1>7. Queued'
    <2>1. \A i \in 1..Len(queue) : queue[i].turn \in Turns /\ queue[i] # Job(t, "target")
      BY <1>1, QueueJobs DEF Inductive, Queued, Job
    <2>2. turn[t].baseline = "done" /\ turn[t].ready = "yes"
      BY <1>1 DEF Inductive, Queued
    <2>3. Job(t, "target").turn = t /\ Job(t, "target").what = "target"
      BY DEF Job
    <2>4. \A i, j \in 1..Len(queue') : queue'[i] = queue'[j] => i = j
      BY <1>4, <1>5, <2>1 DEF Inductive, Queued
    <2>5. \A i \in 1..Len(queue') :
            IF queue'[i].what = "base"
            THEN turn'[queue'[i].turn].ready = "yes" /\ turn'[queue'[i].turn].baseline = "none"
            ELSE turn'[queue'[i].turn].pc = "target"
      <3>1. ASSUME NEW i \in 1..Len(queue)
            PROVE  IF queue[i].what = "base"
                   THEN turn'[queue[i].turn].ready = "yes" /\ turn'[queue[i].turn].baseline = "none"
                   ELSE turn'[queue[i].turn].pc = "target"
        BY <1>3, <2>1 DEF Inductive, Queued
      <3> QED BY <1>3, <1>4, <1>5, <2>2, <2>3, <3>1
    <2>6. \A u \in Turns :
            /\ turn'[u].baseline # "none" => turn'[u].ready = "yes"
            /\ turn'[u].pc = "none" => turn'[u].ready = "no"
            /\ turn'[u].pc = "target" => turn'[u].baseline = "done"
      BY <1>1, <1>3, <2>2 DEF Inductive, Queued
    <2> QED BY <2>4, <2>5, <2>6 DEF Queued
  <1>8. Attributed'
    BY <1>1, <1>3 DEF Inductive, Attributed
  <1>9. AfterBaseline'
    BY <1>1, <1>3 DEF Inductive, AfterBaseline
  <1>10. BeforeTarget'
    <2>1. \A u \in Turns : Targeting(u)' => Targeting(u)
      BY <1>1, <1>2, <1>4 DEF Inductive, Typed, Targeting
    <2> QED BY <1>1, <1>3, <2>1 DEF Inductive, BeforeTarget, HasTarget
  <1> QED BY <1>6, <1>7, <1>8, <1>9, <1>10 DEF Inductive

\* What has been written when the capture of a target begins was written before it.
LEMMA CaptureTreeStep == ASSUME Inductive, captureTree PROVE Inductive'
  <1>1. from' = Len(writer) /\ queue # <<>> /\ UNCHANGED <<writer, turn, queue>>
    BY DEF captureTree
  <1>2. Typed'
    BY <1>1 DEF Inductive, Typed
  <1>3. Queued' /\ Attributed' /\ AfterBaseline'
    BY <1>1 DEF Inductive, Queued, Attributed, AfterBaseline
  <1>4. BeforeTarget'
    <2>1. \A w \in 1..Len(writer) : w <= from'
      BY <1>1 DEF Inductive, Typed
    <2> QED BY <1>1, <2>1 DEF Inductive, BeforeTarget, HasTarget
  <1> QED BY <1>2, <1>3, <1>4 DEF Inductive

\* Without its head, which was there once, the queue is as it was.
LEMMA TailOfQueue ==
  ASSUME Inductive, queue # <<>>, queue' = Tail(queue)
  PROVE  /\ queue' \in Seq(Jobs)
         /\ Head(queue) \in Jobs /\ Head(queue).turn \in Turns
         /\ IF Head(queue).what = "base"
            THEN turn[Head(queue).turn].ready = "yes" /\ turn[Head(queue).turn].baseline = "none"
            ELSE turn[Head(queue).turn].pc = "target"
         /\ \A i, j \in 1..Len(queue') : queue'[i] = queue'[j] => i = j
         /\ \A i \in 1..Len(queue') :
              /\ queue'[i].turn \in Turns /\ queue'[i] # Head(queue)
              /\ queue'[i] \in Jobs
              /\ IF queue'[i].what = "base"
                 THEN turn[queue'[i].turn].ready = "yes" /\ turn[queue'[i].turn].baseline = "none"
                 ELSE turn[queue'[i].turn].pc = "target"
  <1>1. queue \in Seq(Jobs)
    BY DEF Inductive, Typed
  <1>2. /\ queue' \in Seq(Jobs) /\ Len(queue') = Len(queue) - 1 /\ Len(queue) \in Nat \ {0}
        /\ \A i \in 1..Len(queue') : queue'[i] = queue[i + 1]
        /\ Head(queue) = queue[1]
    BY <1>1
  <1>3. \A i \in 1..Len(queue') : i + 1 \in 1..Len(queue) /\ i + 1 # 1
    BY <1>2
  <1>4. 1 \in 1..Len(queue)
    BY <1>2
  <1>5. \A i \in 1..Len(queue) : queue[i] \in Jobs /\ queue[i].turn \in Turns
    BY QueueJobs DEF Inductive
  <1>6. \A i, j \in 1..Len(queue) : queue[i] = queue[j] => i = j
    BY DEF Inductive, Queued
  <1>7. \A i \in 1..Len(queue) :
          IF queue[i].what = "base"
          THEN turn[queue[i].turn].ready = "yes" /\ turn[queue[i].turn].baseline = "none"
          ELSE turn[queue[i].turn].pc = "target"
    BY DEF Inductive, Queued
  <1>8. \A i, j \in 1..Len(queue') : queue'[i] = queue'[j] => i = j
    <2> SUFFICES ASSUME NEW i \in 1..Len(queue'), NEW j \in 1..Len(queue'), queue'[i] = queue'[j]
                 PROVE  i = j
      OBVIOUS
    <2>1. i + 1 = j + 1
      BY <1>2, <1>3, <1>6
    <2> QED BY <2>1
  <1>9. \A i \in 1..Len(queue') : queue'[i] # Head(queue)
    BY <1>2, <1>3, <1>4, <1>6
  <1> QED BY <1>2, <1>3, <1>4, <1>5, <1>7, <1>8, <1>9

\* A capture at the head of the queue ends for its turn, which becomes "new".
LEMMA HeadEnds ==
  ASSUME Inductive, from # NotBegun, NEW new \in TurnRecords,
         queue' = Tail(queue), from' = NotBegun, UNCHANGED writer,
         turn' = [turn EXCEPT ![Head(queue).turn] = new],
         Queued', AfterBaseline',
         new.base \subseteq 1..Len(writer),
         new.pc = turn[Head(queue).turn].pc \/ new.pc \in {"ranged", "failing"},
         turn[Head(queue).turn].pc # "none",
         new.tool = turn[Head(queue).turn].tool, new.pc # turn[Head(queue).turn].pc => ~new.tool,
         new.background = turn[Head(queue).turn].background, new.unfinished = turn[Head(queue).turn].unfinished,
         new.good = turn[Head(queue).turn].good,
         \/ /\ new.target = turn[Head(queue).turn].target /\ new.unread = turn[Head(queue).turn].unread
            /\ new.pc \in {turn[Head(queue).turn].pc, "failing"}
         \/ /\ new.pc = "ranged"
            /\ ~new.unfinished => \A w \in 1..Len(writer) :
                                     writer[w] = Head(queue).turn => w \in new.target \cup new.unread
  PROVE  Inductive'
  <1> DEFINE t == Head(queue).turn
  <1>1. queue # <<>> /\ turn \in [Turns -> TurnRecords]
    BY DEF Inductive, Typed
  <1>2. t \in Turns /\ queue' \in Seq(Jobs)
    BY <1>1, TailOfQueue
  <1>3. turn' \in [Turns -> TurnRecords] /\ turn'[t] = new /\ \A u \in Turns : u # t => turn'[u] = turn[u]
    BY <1>1, <1>2
  <1>4. Typed'
    BY <1>2, <1>3 DEF Inductive, Typed
  <1>5. Attributed'
    BY <1>2, <1>3 DEF Inductive, Attributed
  <1>6. BeforeTarget'
    BY <1>2, <1>3 DEF Inductive, BeforeTarget, HasTarget, Targeting
  <1> QED BY <1>4, <1>5, <1>6 DEF Inductive

\* A tree holds writes only; of those before the capture it misses the unread ones, none
\* of which the index has.
LEMMA TreeFacts ==
  ASSUME writer \in Seq(Turns), from \in 0..Len(writer), NEW unread \in Unreadable, NEW some \in During
  PROVE  /\ unread \in SUBSET Nat /\ unread \subseteq 1..Len(writer) /\ unread \cap index = {}
         /\ Tree(unread, some) \in SUBSET Nat /\ Tree(unread, some) \subseteq 1..Len(writer)
         /\ 1..from \subseteq Tree(unread, some) \cup unread
         /\ (1..from) \ unread \subseteq Tree(unread, some)
  <1>1. Len(writer) \in Nat /\ from \in Nat /\ from <= Len(writer)
    OBVIOUS
  <1>2. unread \subseteq 1..from /\ unread \cap index = {}
    BY DEF Unreadable
  <1>3. some \subseteq (from + 1)..Len(writer)
    BY DEF During
  <1>4. 1..from \subseteq 1..Len(writer) /\ (from + 1)..Len(writer) \subseteq 1..Len(writer)
    BY <1>1
  <1>5. 1..Len(writer) \subseteq Nat
    BY <1>1
  <1> QED BY <1>2, <1>3, <1>4, <1>5 DEF Tree

\* A baseline of a turn without the warning has none of its writes, a target that is
\* there all that were not listed and could be read.
LEMMA CapturedStep == ASSUME Inductive, captured PROVE Inductive'
  <1> DEFINE t == Head(queue).turn
  <1>1. PICK unread \in Unreadable, some \in During :
          turn' = IF Head(queue).what = "base"
                  THEN [turn EXCEPT ![t].baseline = "done", ![t].base = Tree(unread, some)]
                  ELSE [turn EXCEPT ![t].pc = "ranged", ![t].target = Tree(unread, some),
                                    ![t].unread = unread]
    BY DEF captured
  <1> DEFINE tree == Tree(unread, some)
  <1>2. from # NotBegun /\ queue' = Tail(queue) /\ from' = NotBegun /\ UNCHANGED writer
    BY DEF captured
  <1>3. /\ queue # <<>> /\ turn \in [Turns -> TurnRecords]
        /\ from \in 0..Len(writer) /\ Len(writer) \in Nat
    BY <1>2 DEF Inductive, Typed
  <1>4. t \in Turns /\ Head(queue) \in Jobs
    BY <1>2, <1>3, TailOfQueue
  <1>5. turn[t] \in TurnRecords
    BY <1>3, <1>4
  <1>6. /\ tree \subseteq 1..Len(writer) /\ tree \in SUBSET Nat /\ unread \in SUBSET Nat
        /\ 1..from \subseteq tree \cup unread
    BY <1>3, TreeFacts DEF Inductive, Typed
  <1> HIDE DEF tree
  <1>7. CASE Head(queue).what = "base"
    <2> DEFINE new == [turn[t] EXCEPT !.baseline = "done", !.base = tree]
    <2>1. new \in TurnRecords
      BY <1>5, <1>6 DEF TurnRecords
    <2>2. turn' = [turn EXCEPT ![t] = new]
      BY <1>1, <1>3, <1>4, <1>5, <1>7 DEF TurnRecords, tree
    <2>3. /\ new.pc = turn[t].pc /\ new.ready = turn[t].ready /\ new.baseline = "done"
          /\ new.base = tree /\ new.target = turn[t].target /\ new.unread = turn[t].unread
          /\ new.good = turn[t].good
          /\ new.tool = turn[t].tool /\ new.early = turn[t].early
          /\ new.background = turn[t].background /\ new.unfinished = turn[t].unfinished
      BY <1>5 DEF TurnRecords
    <2> HIDE DEF new
    <2>4. turn'[t] = new /\ \A u \in Turns : u # t => turn'[u] = turn[u]
      BY <1>3, <1>4, <2>2
    <2>5. turn[t].ready = "yes" /\ turn[t].baseline = "none"
      BY <1>2, <1>3, <1>7, TailOfQueue
    <2>6. \A i \in 1..Len(queue') : queue'[i].what = "base" => queue'[i].turn # t
      <3> SUFFICES ASSUME NEW i \in 1..Len(queue'), queue'[i].what = "base", queue'[i].turn = t
                   PROVE  FALSE
        OBVIOUS
      <3>1. queue'[i] \in Jobs /\ queue'[i] # Head(queue)
        BY <1>2, <1>3, TailOfQueue
      <3> QED BY <1>4, <1>7, <3>1 DEF Jobs
    <2>7. Queued'
      <3>1. \A i \in 1..Len(queue') :
              IF queue'[i].what = "base"
              THEN turn'[queue'[i].turn].ready = "yes" /\ turn'[queue'[i].turn].baseline = "none"
              ELSE turn'[queue'[i].turn].pc = "target"
        <4>1. \A i \in 1..Len(queue') :
                /\ queue'[i].turn \in Turns
                /\ IF queue'[i].what = "base"
                   THEN turn[queue'[i].turn].ready = "yes" /\ turn[queue'[i].turn].baseline = "none"
                   ELSE turn[queue'[i].turn].pc = "target"
          BY <1>2, <1>3, TailOfQueue
        <4> QED BY <1>4, <2>3, <2>4, <2>6, <4>1
      <3>2. \A i, j \in 1..Len(queue') : queue'[i] = queue'[j] => i = j
        BY <1>2, <1>3, TailOfQueue
      <3>3. \A u \in Turns :
              /\ turn'[u].baseline # "none" => turn'[u].ready = "yes"
              /\ turn'[u].pc = "none" => turn'[u].ready = "no"
              /\ turn'[u].pc = "target" => turn'[u].baseline = "done"
        BY <1>4, <2>3, <2>4, <2>5 DEF Inductive, Queued
      <3> QED BY <3>1, <3>2, <3>3 DEF Queued
    <2>8. AfterBaseline'
      BY <1>2, <1>4, <2>3, <2>4, <2>5 DEF Inductive, AfterBaseline
    <2>9. turn[t].pc # "none"
      BY <1>4, <2>5 DEF Inductive, Queued
    <2> QED BY <1>2, <1>6, <2>1, <2>2, <2>3, <2>7, <2>8, <2>9, HeadEnds
  <1>8. CASE Head(queue).what # "base"
    <2> DEFINE new == [turn[t] EXCEPT !.pc = "ranged", !.target = tree, !.unread = unread]
    <2>1. new \in TurnRecords
      BY <1>5, <1>6 DEF TurnRecords, InCapture
    <2>2. turn' = [turn EXCEPT ![t] = new]
      BY <1>1, <1>3, <1>4, <1>5, <1>8 DEF TurnRecords, tree
    <2>3. /\ new.pc = "ranged" /\ new.ready = turn[t].ready /\ new.baseline = turn[t].baseline
          /\ new.base = turn[t].base /\ new.target = tree /\ new.unread = unread /\ new.good = turn[t].good
          /\ new.tool = turn[t].tool /\ new.early = turn[t].early
          /\ new.background = turn[t].background /\ new.unfinished = turn[t].unfinished
      BY <1>5 DEF TurnRecords
    <2> HIDE DEF new
    <2>4. turn'[t] = new /\ \A u \in Turns : u # t => turn'[u] = turn[u]
      BY <1>3, <1>4, <2>2
    <2>5. turn[t].pc = "target" /\ ~turn[t].tool
      BY <1>2, <1>3, <1>4, <1>8, TailOfQueue DEF Inductive, Attributed
    <2>6. \A i \in 1..Len(queue') : queue'[i].what # "base" => queue'[i].turn # t
      <3> SUFFICES ASSUME NEW i \in 1..Len(queue'), queue'[i].what # "base", queue'[i].turn = t
                   PROVE  FALSE
        OBVIOUS
      <3>1. queue'[i] \in Jobs /\ queue'[i] # Head(queue)
        BY <1>2, <1>3, TailOfQueue
      <3> QED BY <1>4, <1>8, <3>1 DEF Jobs
    <2>7. Queued'
      <3>1. \A i \in 1..Len(queue') :
              IF queue'[i].what = "base"
              THEN turn'[queue'[i].turn].ready = "yes" /\ turn'[queue'[i].turn].baseline = "none"
              ELSE turn'[queue'[i].turn].pc = "target"
        <4>1. \A i \in 1..Len(queue') :
                /\ queue'[i].turn \in Turns
                /\ IF queue'[i].what = "base"
                   THEN turn[queue'[i].turn].ready = "yes" /\ turn[queue'[i].turn].baseline = "none"
                   ELSE turn[queue'[i].turn].pc = "target"
          BY <1>2, <1>3, TailOfQueue
        <4> QED BY <1>4, <2>3, <2>4, <2>6, <4>1
      <3>2. \A i, j \in 1..Len(queue') : queue'[i] = queue'[j] => i = j
        BY <1>2, <1>3, TailOfQueue
      <3>3. \A u \in Turns :
              /\ turn'[u].baseline # "none" => turn'[u].ready = "yes"
              /\ turn'[u].pc = "none" => turn'[u].ready = "no"
              /\ turn'[u].pc = "target" => turn'[u].baseline = "done"
        BY <1>4, <2>3, <2>4, <2>5 DEF Inductive, Queued
      <3> QED BY <3>1, <3>2, <3>3 DEF Queued
    <2>8. AfterBaseline'
      BY <1>2, <1>4, <2>3, <2>4, <2>5 DEF Inductive, AfterBaseline
    <2>9. ~turn[t].unfinished => \A w \in 1..Len(writer) : writer[w] = t => w \in 1..from
      <3>1. Targeting(t)
        BY <1>2, <1>4, <1>8 DEF Targeting, Job, Jobs
      <3> QED BY <1>3, <1>4, <3>1 DEF Inductive, BeforeTarget
    <2> QED BY <1>2, <1>6, <2>1, <2>2, <2>3, <2>5, <2>7, <2>8, <2>9, <1>3, <1>4, HeadEnds DEF Inductive, Typed
  <1> QED BY <1>7, <1>8

\* A capture that fails leaves the turn without a baseline, or without a target.
LEMMA CaptureFailsStep == ASSUME Inductive, captureFails PROVE Inductive'
  <1> DEFINE t == Head(queue).turn
  <1> DEFINE isBase == Head(queue).what = "base"
  <1> DEFINE new == IF isBase THEN [turn[t] EXCEPT !.baseline = "failed"] ELSE [turn[t] EXCEPT !.pc = "failing"]
  <1>1. /\ turn' = IF isBase THEN [turn EXCEPT ![t].baseline = "failed"] ELSE [turn EXCEPT ![t].pc = "failing"]
        /\ from # NotBegun /\ queue' = Tail(queue) /\ from' = NotBegun /\ UNCHANGED writer
    BY DEF captureFails
  <1>2. queue # <<>> /\ turn \in [Turns -> TurnRecords]
    BY <1>1 DEF Inductive, Typed
  <1>3. /\ t \in Turns /\ Head(queue) \in Jobs
        /\ IF isBase THEN turn[t].ready = "yes" /\ turn[t].baseline = "none" ELSE turn[t].pc = "target"
        /\ \A i \in 1..Len(queue') :
             /\ queue'[i].turn \in Turns /\ queue'[i] # Head(queue) /\ queue'[i] \in Jobs
             /\ IF queue'[i].what = "base"
                THEN turn[queue'[i].turn].ready = "yes" /\ turn[queue'[i].turn].baseline = "none"
                ELSE turn[queue'[i].turn].pc = "target"
        /\ \A i, j \in 1..Len(queue') : queue'[i] = queue'[j] => i = j
    BY <1>1, <1>2, TailOfQueue
  <1>4. turn[t] \in TurnRecords
    BY <1>2, <1>3
  <1>5. new \in TurnRecords
    BY <1>4 DEF TurnRecords, InCapture
  <1>6. turn' = [turn EXCEPT ![t] = new]
    BY <1>1, <1>2, <1>3
  <1>7. /\ new.pc = IF isBase THEN turn[t].pc ELSE "failing"
        /\ new.baseline = IF isBase THEN "failed" ELSE turn[t].baseline
        /\ new.ready = turn[t].ready /\ new.base = turn[t].base
        /\ new.target = turn[t].target /\ new.unread = turn[t].unread
        /\ new.good = turn[t].good /\ new.tool = turn[t].tool /\ new.early = turn[t].early
        /\ new.background = turn[t].background /\ new.unfinished = turn[t].unfinished
    BY <1>4 DEF TurnRecords
  <1> HIDE DEF new, isBase
  <1>8. turn'[t] = new /\ \A u \in Turns : u # t => turn'[u] = turn[u]
    BY <1>2, <1>3, <1>6
  <1>9. Queued'
    <2>1. \A i \in 1..Len(queue') : queue'[i].turn = t => (queue'[i].what = "base" <=> ~isBase)
      BY <1>3 DEF isBase, Jobs
    <2>2. \A i \in 1..Len(queue') :
            IF queue'[i].what = "base"
            THEN turn'[queue'[i].turn].ready = "yes" /\ turn'[queue'[i].turn].baseline = "none"
            ELSE turn'[queue'[i].turn].pc = "target"
      BY <1>3, <1>7, <1>8, <2>1
    <2>3. \A u \in Turns :
            /\ turn'[u].baseline # "none" => turn'[u].ready = "yes"
            /\ turn'[u].pc = "none" => turn'[u].ready = "no"
            /\ turn'[u].pc = "target" => turn'[u].baseline = "done"
      <3>1. ~isBase => turn[t].ready = "yes"
        BY <1>3 DEF Inductive, Queued
      <3>2. isBase => turn[t].pc # "target"
        BY <1>3 DEF Inductive, Queued
      <3> QED BY <1>3, <1>7, <1>8, <3>1, <3>2 DEF Inductive, Queued
    <2> QED BY <1>3, <2>2, <2>3 DEF Queued
  <1>10. AfterBaseline'
    <2>1. ASSUME NEW u \in Turns, u # t, ~turn'[u].early
          PROVE  /\ turn'[u].tool \/ turn'[u].background => turn'[u].baseline = "done"
                 /\ \A w \in 1..Len(writer') : writer'[w] = u => turn'[u].baseline = "done" /\ w \notin turn'[u].base
      BY <1>1, <1>8, <2>1 DEF Inductive, AfterBaseline
    <2>2. ASSUME ~turn'[t].early
          PROVE  /\ turn'[t].tool \/ turn'[t].background => turn'[t].baseline = "done"
                 /\ \A w \in 1..Len(writer') : writer'[w] = t => turn'[t].baseline = "done" /\ w \notin turn'[t].base
      <3>1. ~turn[t].early /\ writer' = writer
        BY <1>1, <1>7, <1>8, <2>2
      <3>2. /\ turn[t].tool \/ turn[t].background => turn[t].baseline = "done"
            /\ \A w \in 1..Len(writer) : writer[w] = t => turn[t].baseline = "done" /\ w \notin turn[t].base
        BY <1>3, <3>1 DEF Inductive, AfterBaseline
      <3>3. isBase => turn[t].baseline # "done"
        BY <1>3
      <3> QED BY <1>7, <1>8, <3>1, <3>2, <3>3
    <2> QED BY <2>1, <2>2 DEF AfterBaseline
  <1>11. turn[t].pc # "none"
    BY <1>3 DEF Inductive, Queued
  <1>12. ~isBase => ~turn[t].tool
    BY <1>3 DEF Inductive, Attributed
  <1>13. turn[t].base \subseteq 1..Len(writer)
    BY <1>3 DEF Inductive, Typed
  <1> QED BY <1>1, <1>5, <1>6, <1>7, <1>9, <1>10, <1>11, <1>12, <1>13, HeadEnds

\* What was under way is given up; nothing is captured any more.
LEMMA RestartStep == ASSUME Inductive, Restart PROVE Inductive'
  <1>1. /\ queue' = <<>> /\ from' = NotBegun /\ UNCHANGED writer
        /\ turn' = [t \in Turns |->
             IF turn[t].pc \in {"running"} \cup InCapture
             THEN [turn[t] EXCEPT !.pc = "lost", !.tool = FALSE, !.background = FALSE]
             ELSE [turn[t] EXCEPT !.background = FALSE]]
    BY DEF Restart
  <1>2. \A t \in Turns : turn[t] \in TurnRecords
    BY DEF Inductive, Typed
  <1> DEFINE given == [t \in Turns |-> [turn[t] EXCEPT !.pc = "lost", !.tool = FALSE, !.background = FALSE]]
  <1> DEFINE kept  == [t \in Turns |-> [turn[t] EXCEPT !.background = FALSE]]
  <1>11. ASSUME NEW t \in Turns
         PROVE  /\ given[t] \in TurnRecords
                /\ given[t].pc = "lost" /\ ~given[t].tool /\ ~given[t].background
                /\ given[t].ready = turn[t].ready /\ given[t].baseline = turn[t].baseline
                /\ given[t].base = turn[t].base /\ given[t].target = turn[t].target
                /\ given[t].good = turn[t].good /\ given[t].early = turn[t].early
                /\ given[t].unfinished = turn[t].unfinished /\ given[t].unread = turn[t].unread
    <2>1. turn[t] \in TurnRecords /\ given[t] = [turn[t] EXCEPT !.pc = "lost", !.tool = FALSE, !.background = FALSE]
      BY <1>2
    <2> HIDE DEF given, kept
    <2> QED BY <2>1 DEF TurnRecords
  <1>12. ASSUME NEW t \in Turns
         PROVE  /\ kept[t] \in TurnRecords
                /\ kept[t].pc = turn[t].pc /\ kept[t].tool = turn[t].tool /\ ~kept[t].background
                /\ kept[t].ready = turn[t].ready /\ kept[t].baseline = turn[t].baseline
                /\ kept[t].base = turn[t].base /\ kept[t].target = turn[t].target
                /\ kept[t].good = turn[t].good /\ kept[t].early = turn[t].early
                /\ kept[t].unfinished = turn[t].unfinished /\ kept[t].unread = turn[t].unread
    <2>1. turn[t] \in TurnRecords /\ kept[t] = [turn[t] EXCEPT !.background = FALSE]
      BY <1>2
    <2> HIDE DEF given, kept
    <2> QED BY <2>1 DEF TurnRecords
  <1>13. turn' = [t \in Turns |-> IF turn[t].pc \in {"running"} \cup InCapture THEN given[t] ELSE kept[t]]
    BY <1>1
  <1> HIDE DEF given, kept
  <1>14. \A t \in Turns : turn'[t] = IF turn[t].pc \in {"running"} \cup InCapture THEN given[t] ELSE kept[t]
    BY <1>13
  <1>3. \A t \in Turns :
          /\ turn'[t].pc = turn[t].pc \/ (turn'[t].pc = "lost" /\ ~turn'[t].tool)
          /\ turn'[t].pc # "target"
          /\ turn'[t].tool => turn[t].tool
          /\ ~turn'[t].background
          /\ turn'[t].ready = turn[t].ready /\ turn'[t].baseline = turn[t].baseline
          /\ turn'[t].base = turn[t].base /\ turn'[t].target = turn[t].target
          /\ turn'[t].good = turn[t].good /\ turn'[t].early = turn[t].early
          /\ turn'[t].unfinished = turn[t].unfinished /\ turn'[t].unread = turn[t].unread
    BY <1>11, <1>12, <1>14 DEF InCapture
  <1>16. queue' = <<>> /\ from' = NotBegun /\ writer' = writer
    BY DEF Restart
  <1>15. Len(queue') = 0 /\ queue' \in Seq(Jobs) /\ from' = NotBegun /\ writer' = writer
    BY <1>16
  <1>4. Typed'
    <2>1. turn' \in [Turns -> TurnRecords]
      BY <1>11, <1>12, <1>13
    <2> QED BY <1>15, <1>3, <2>1 DEF Inductive, Typed
  <1>5. Queued'
    BY <1>15, <1>3 DEF Inductive, Queued
  <1>6. Attributed'
    BY <1>15, <1>3 DEF Inductive, Attributed
  <1>7. AfterBaseline'
    BY <1>15, <1>3 DEF Inductive, AfterBaseline
  <1>8. BeforeTarget'
    BY <1>15, <1>3 DEF Inductive, BeforeTarget, HasTarget, Targeting
  <1> QED BY <1>4, <1>5, <1>6, <1>7, <1>8 DEF Inductive

-----------------------------------------------------------------------------
\* Every step keeps the invariant.
LEMMA NextInductive == Inductive /\ [TSNext]_TSvars => Inductive'
  <1> SUFFICES ASSUME Inductive, [TSNext]_TSvars PROVE Inductive'
    OBVIOUS
  <1>1. CASE \E r \in Runtimes : agent_start(r)
    BY <1>1, AgentStartStep
  <1>2. ASSUME NEW t \in Turns,
               \/ tool_execution_start(t) \/ tool_execution_end(t) \/ Writes(t)
               \/ agent_settled(t) \/ desktop_runtime_stopped(t)
               \/ initialize(t) \/ unavailable(t) \/ capture(t) \/ cannotCapture(t)
               \/ load(t) \/ renames(t) \/ written(t) \/ captureEndsBadly(t)
        PROVE  Inductive'
    BY <1>2, ToolExecutionStartStep, ToolExecutionEndStep, WritesStep, AgentSettledStep,
       DesktopRuntimeStoppedStep, InitializeStep, UnavailableStep, CaptureStep, CannotCaptureStep,
       LoadStep, RenamesStep, WrittenStep, CaptureEndsBadlyStep
  <1>3. CASE captureTree \/ captured \/ captureFails
    BY <1>3, CaptureTreeStep, CapturedStep, CaptureFailsStep
  <1>4. CASE Restart
    BY <1>4, RestartStep
  <1>5. CASE UNCHANGED TSvars
    BY <1>5 DEF TSvars, Inductive, Typed, Queued, Attributed, AfterBaseline, BeforeTarget, HasTarget, Targeting
  <1> QED BY <1>1, <1>2, <1>3, <1>4, <1>5 DEF TSNext

\* The invariant of the captures: what a turn without a warning and without a command
\* left behind wrote is in no baseline of it, and in its target unless it could not be read
\* (src/main/git/turn-snapshot.ts, capture and captureTree).
THEOREM CapturesBracketTurns == TSSpec => []Inductive
  BY InitInductive, NextInductive, PTL DEF TSSpec

-----------------------------------------------------------------------------
(* The entries of the manifest that store keeps, in their order.           *)

\* A finite set of numbers that is not empty has a greatest member: a smallest
\* subset without one could not have lost a member.
LEMMA Greatest ==
  ASSUME NEW S \in SUBSET Nat, IsFiniteSet(S), S # {}
  PROVE  \E x \in S : \A y \in S : y <= x
  <1> DEFINE HasTop(A) == \E x \in A : \A y \in A : y <= x
  <1> DEFINE Odd == {A \in FiniteSubsetsOf(S) : A # {} /\ ~HasTop(A)}
  <1> SUFFICES ASSUME S \in Odd PROVE FALSE
    BY DEF FiniteSubsetsOf
  <1> HIDE DEF HasTop
  <1>1. PICK A \in Odd : \A B \in Odd : <<B, A>> \notin StrictSubsetOrdering(S)
    <2>1. IsWellFoundedOn(StrictSubsetOrdering(S), FiniteSubsetsOf(S))
      BY FS_StrictSubsetOrderingWellFounded
    <2>2. Odd \subseteq FiniteSubsetsOf(S) /\ Odd # {}
      OBVIOUS
    <2> HIDE DEF Odd
    <2> QED BY <2>1, <2>2, WFMin
  <1>2. A \subseteq S /\ IsFiniteSet(A) /\ A # {} /\ ~HasTop(A)
    BY DEF FiniteSubsetsOf
  <1>3. PICK a \in A : TRUE
    BY <1>2
  <1> DEFINE B == A \ {a}
  <1>4. B \in FiniteSubsetsOf(S)
    BY <1>2, FS_RemoveElement DEF FiniteSubsetsOf
  <1>5. <<B, A>> \in StrictSubsetOrdering(S)
    BY <1>2, <1>3 DEF StrictSubsetOrdering
  <1>6. B = {} \/ HasTop(B)
    BY <1>1, <1>4, <1>5
  <1>7. a \in Nat /\ A \subseteq Nat
    BY <1>2, <1>3
  <1>8. CASE B = {}
    BY <1>2, <1>7, <1>8 DEF HasTop
  <1>9. CASE HasTop(B)
    <2>1. PICK x \in B : \A y \in B : y <= x
      BY <1>9 DEF HasTop
    <2>2. (\A y \in A : y <= x) \/ (\A y \in A : y <= a)
      BY <1>7, <2>1
    <2> QED BY <1>2, <1>3, <2>1, <2>2 DEF HasTop
  <1> QED BY <1>6, <1>8, <1>9

\* Every number up to the size of a finite set is the rank of a member.
LEMMA RankExists ==
  ASSUME NEW S \in SUBSET Nat, IsFiniteSet(S)
  PROVE  \A k \in 1..Cardinality(S) : \E i \in S : Cardinality({j \in S : j <= i}) = k
  <1> DEFINE Ranked(A) == \A k \in 1..Cardinality(A) : \E i \in A : Cardinality({j \in A : j <= i}) = k
  <1> DEFINE Odd == {A \in FiniteSubsetsOf(S) : ~Ranked(A)}
  <1> SUFFICES ASSUME S \in Odd PROVE FALSE
    BY DEF FiniteSubsetsOf
  <1> HIDE DEF Ranked
  <1>1. PICK A \in Odd : \A B \in Odd : <<B, A>> \notin StrictSubsetOrdering(S)
    <2>1. IsWellFoundedOn(StrictSubsetOrdering(S), FiniteSubsetsOf(S))
      BY FS_StrictSubsetOrderingWellFounded
    <2>2. Odd \subseteq FiniteSubsetsOf(S) /\ Odd # {}
      OBVIOUS
    <2> HIDE DEF Odd
    <2> QED BY <2>1, <2>2, WFMin
  <1>2. A \in SUBSET Nat /\ A \subseteq S /\ IsFiniteSet(A) /\ ~Ranked(A)
    BY DEF FiniteSubsetsOf
  <1>3. Cardinality(A) \in Nat /\ A # {}
    <2>1. Cardinality(A) \in Nat
      BY <1>2, FS_CardinalityType
    <2>2. A = {} => 1..Cardinality(A) = {}
      BY FS_EmptySet
    <2> QED BY <1>2, <2>1, <2>2 DEF Ranked
  <1>4. PICK top \in A : \A y \in A : y <= top
    BY <1>2, <1>3, Greatest
  <1> DEFINE B == A \ {top}
  <1>5. B \in FiniteSubsetsOf(S) /\ Cardinality(B) = Cardinality(A) - 1
    BY <1>2, <1>4, FS_RemoveElement DEF FiniteSubsetsOf
  <1>6. <<B, A>> \in StrictSubsetOrdering(S)
    BY <1>2, <1>4 DEF StrictSubsetOrdering
  <1>7. Ranked(B)
    BY <1>1, <1>5, <1>6
  <1>8. ASSUME NEW k \in 1..Cardinality(A) PROVE \E i \in A : Cardinality({j \in A : j <= i}) = k
    <2>1. CASE k = Cardinality(A)
      <3>1. {j \in A : j <= top} = A
        BY <1>4
      <3> QED BY <1>4, <2>1, <3>1
    <2>2. CASE k # Cardinality(A)
      <3>1. k \in 1..Cardinality(B)
        BY <1>3, <1>5, <2>2
      <3>2. PICK i \in B : Cardinality({j \in B : j <= i}) = k
        BY <1>7, <3>1 DEF Ranked
      <3>3. {j \in A : j <= i} = {j \in B : j <= i}
        BY <1>2, <1>4
      <3> QED BY <3>2, <3>3
    <2> QED BY <2>1, <2>2
  <1> QED BY <1>2, <1>8 DEF Ranked

\* What store keeps of the manifest are snapshots of turns.
LEMMA OthersType ==
  ASSUME NEW t \in Turns, NEW p \in Records, previous[t] = p
  PROVE  Others(t) \in Seq(Turns)
  <1> DEFINE snaps == p.snaps
             kept  == {i \in 1..Len(snaps) : ~sameId(t, snaps[i])}
  <1>1. PICK n \in 0..Retained : snaps \in [1..n -> Turns]
    BY DEF Records
  <1>2. n \in Nat /\ Len(snaps) = n
    BY <1>1, RetainedAssumption
  <1>3. kept \in SUBSET Nat /\ IsFiniteSet(kept) /\ Cardinality(kept) \in Nat
    <2>1. kept \in SUBSET (1..n) /\ 1 \in Int /\ n \in Int
      BY <1>2
    <2>2. IsFiniteSet(1..n)
      BY <2>1, FS_Interval
    <2> HIDE DEF kept
    <2>3. IsFiniteSet(kept)
      BY <2>1, <2>2, FS_Subset
    <2> QED BY <2>1, <2>3, FS_CardinalityType
  <1>4. ASSUME NEW k \in 1..Cardinality(kept) PROVE snaps[Nth(kept, k)] \in Turns
    <2>1. Nth(kept, k) \in kept
      BY <1>3, RankExists DEF Nth
    <2> QED BY <1>1, <1>2, <2>1
  <1>5. Others(t) = [k \in 1..Cardinality(kept) |-> snaps[Nth(kept, k)]]
    BY DEF Others
  <1> DEFINE c == Cardinality(kept)
  <1>6. Others(t) \in [1..c -> Turns] /\ c \in Nat
    BY <1>3, <1>4, <1>5
  <1> HIDE DEF c
  <1> QED BY <1>6

\* The manifest keeps at most RETAINED snapshots.
LEMMA RecordOfType ==
  ASSUME NEW t \in Turns, previous[t] \in Records
  PROVE  RecordOf(t) \in Records
  <1>1. storeSnapshot(t) \in Records
    <2> DEFINE all == <<t>> \o Others(t)
               n   == IF Len(all) < Retained THEN Len(all) ELSE Retained
               some == SubSeq(all, 1, n)
    <2>1. all \in Seq(Turns)
      <3>1. Others(t) \in Seq(Turns)
        BY OthersType
      <3> QED BY <3>1
    <2>2. n \in 0..Retained /\ n <= Len(all) /\ Len(all) \in Nat
      BY <2>1, RetainedAssumption
    <2> HIDE DEF all, n
    <2>3. some \in [1..n -> Turns]
      <3>1. 1 \in 1..Len(all) + 1 /\ n \in (1 - 1)..Len(all) /\ n \in Nat
        BY <2>2
      <3>2. some \in Seq(Turns) /\ Len(some) = n
        <4>1. some \in Seq(Turns) /\ Len(some) = IF 1 <= n THEN n - 1 + 1 ELSE 0
          BY <2>1, <3>1, SubSeqProperties
        <4> HIDE DEF some
        <4> QED BY <3>1, <4>1
      <3> HIDE DEF some
      <3> QED BY <3>1, <3>2
    <2>4. storeSnapshot(t) = [snaps |-> some, failed |-> FALSE]
      BY DEF storeSnapshot, all, n
    <2> HIDE DEF some
    <2> QED BY <2>2, <2>3, <2>4 DEF Records
  <1>2. recordFailure(t) \in Records
    BY DEF recordFailure, Records
  <1> QED BY <1>1, <1>2 DEF RecordOf

-----------------------------------------------------------------------------
(* Types: the manifest, and that a runtime runs one turn at a time.        *)

\* What the captures do not depend on.
Bounded ==
  /\ Len(writer) <= MaxWrites
  /\ \A t \in Turns : turn[t].target \subseteq 1..Len(writer) /\ turn[t].unread \subseteq 1..Len(writer)
  /\ \A t, u \in Turns :
       turn[t].pc = "running" /\ turn[u].pc = "running" /\ turn[t].runtime = turn[u].runtime => t = u
  /\ previous \in [Turns -> Records]
  /\ file \in Records /\ cache \in Records \cup {Nothing} /\ failures \in 0..MaxFailures

LEMMA InitBounded == TSInit => Bounded
  <1>1. NoRecord \in Records
    <2>1. <<>> \in [1..0 -> Turns] /\ 0 \in 0..Retained
      BY RetainedAssumption
    <2> QED BY <2>1 DEF NoRecord, Records
  <1> QED BY <1>1, TSBoundsAssumption DEF TSInit, Bounded, UnusedTurn

\* A step that is no capture, and for which the turn is not a new one, leaves its trees
\* alone; a turn only leaves "running", and only a capture brings a baseline or a target.
Remains(t) ==
  /\ turn'[t].pc = "running" => turn[t].pc = "running"
  /\ turn'[t].runtime = turn[t].runtime
  /\ turn'[t].base = turn[t].base /\ turn'[t].target = turn[t].target /\ turn'[t].unread = turn[t].unread
  /\ turn'[t].baseline = "done" <=> turn[t].baseline = "done"
  /\ HasTarget(t)' => HasTarget(t)

LEMMA TurnsBounded ==
  ASSUME Inductive, TSNext, ~captured, \A r \in Runtimes : ~agent_start(r)
  PROVE  \A t \in Turns : Remains(t)
  <1> SUFFICES ASSUME NEW u \in Turns PROVE Remains(u)
    OBVIOUS
  <1>0. turn \in [Turns -> TurnRecords] /\ turn[u] \in TurnRecords
    BY DEF Inductive, Typed
  <1>1. ASSUME NEW t \in Turns,
               \/ tool_execution_start(t) \/ tool_execution_end(t) \/ Writes(t)
               \/ agent_settled(t) \/ desktop_runtime_stopped(t)
        PROVE  Remains(u)
    <2>1. CASE tool_execution_start(t) \/ agent_settled(t)
      BY <1>0, <2>1 DEF TurnRecords, Remains, HasTarget, tool_execution_start, agent_settled
    <2>2. CASE tool_execution_end(t)
      BY <1>0, <2>2 DEF TurnRecords, Remains, HasTarget, tool_execution_end
    <2>3. CASE Writes(t) \/ desktop_runtime_stopped(t)
      BY <1>0, <2>3 DEF TurnRecords, Remains, HasTarget, Writes, desktop_runtime_stopped
    <2> QED BY <1>1, <2>1, <2>2, <2>3
  <1>2. ASSUME NEW t \in Turns, initialize(t) \/ unavailable(t) \/ capture(t) \/ cannotCapture(t)
        PROVE  Remains(u)
    BY <1>0, <1>2 DEF TurnRecords, Remains, HasTarget, initialize, unavailable, capture, cannotCapture
  <1>3. ASSUME NEW t \in Turns, load(t) \/ renames(t) \/ written(t) \/ captureEndsBadly(t)
        PROVE  Remains(u)
    BY <1>0, <1>3 DEF TurnRecords, Remains, HasTarget, load, renames, written, captureEndsBadly
  <1>4. CASE captureTree
    BY <1>0, <1>4 DEF TurnRecords, Remains, HasTarget, captureTree
  <1>6. CASE captureFails
    <2>1. queue # <<>> /\ queue' = Tail(queue)
      BY <1>6 DEF captureFails, Inductive, Typed
    <2>2. Head(queue).what = "base" => turn[Head(queue).turn].baseline = "none"
      BY <2>1, TailOfQueue
    <2> QED BY <1>0, <1>6, <2>2 DEF TurnRecords, Remains, HasTarget, captureFails
  <1>5. CASE Restart
    BY <1>0, <1>5 DEF TurnRecords, Remains, HasTarget, Restart
  <1> QED BY <1>1, <1>2, <1>3, <1>4, <1>5, <1>6 DEF TSNext

LEMMA NextBounded ==
  ASSUME Inductive, Bounded, [TSNext]_TSvars
  PROVE  Bounded'
  <1>0. /\ turn \in [Turns -> TurnRecords] /\ \A t \in Turns : turn[t] \in TurnRecords
        /\ writer \in Seq(Turns) /\ Len(writer) \in Nat /\ MaxWrites \in Nat /\ MaxFailures \in Nat
    BY TSBoundsAssumption DEF Inductive, Typed
  <1>1. CASE UNCHANGED TSvars
    BY <1>1 DEF TSvars, Bounded
  <1>2. CASE TSNext
    <2>1. /\ Len(writer') <= MaxWrites /\ Len(writer') >= Len(writer) /\ Len(writer') \in Nat
      <3>1. ASSUME NEW t \in Turns, Writes(t)
            PROVE  Len(writer') <= MaxWrites /\ Len(writer') >= Len(writer) /\ Len(writer') \in Nat
        BY <1>0, <3>1 DEF Writes
      <3>2. CASE UNCHANGED writer
        BY <1>0, <3>2 DEF Bounded
      <3> QED
        BY <1>2, <3>1, <3>2
        DEF TSNext, agent_start, tool_execution_start, tool_execution_end, agent_settled, desktop_runtime_stopped,
            initialize, unavailable, capture, cannotCapture, load, renames, written, captureEndsBadly,
            captureTree, captured, captureFails, Restart
    <2>2. failures' \in 0..MaxFailures
      <3>1. CASE Fails
        BY <1>0, <3>1 DEF Fails, Bounded
      <3>2. CASE UNCHANGED failures
        BY <3>2 DEF Bounded
      <3> QED
        BY <1>2, <3>1, <3>2
        DEF TSNext, agent_start, tool_execution_start, tool_execution_end, agent_settled, desktop_runtime_stopped, Writes,
            initialize, unavailable, capture, cannotCapture, load, renames, written, captureEndsBadly,
            captureTree, captured, captureFails, Restart
    <2>3. /\ previous' \in [Turns -> Records] /\ file' \in Records /\ cache' \in Records \cup {Nothing}
      <3>1. ASSUME NEW t \in Turns, load(t)
            PROVE  previous' \in [Turns -> Records] /\ file' \in Records /\ cache' \in Records \cup {Nothing}
        BY <3>1 DEF load, Bounded
      <3>2. ASSUME NEW t \in Turns, renames(t) \/ written(t)
            PROVE  previous' \in [Turns -> Records] /\ file' \in Records /\ cache' \in Records \cup {Nothing}
        <4>1. RecordOf(t) \in Records
          BY RecordOfType DEF Bounded
        <4> QED BY <3>2, <4>1 DEF renames, written, Bounded
      <3>3. CASE Restart
        BY <3>3 DEF Restart, Bounded
      <3>4. CASE UNCHANGED <<previous, file, cache>>
        BY <3>4 DEF Bounded
      <3> QED
        BY <1>2, <3>1, <3>2, <3>3, <3>4
        DEF TSNext, agent_start, tool_execution_start, tool_execution_end, agent_settled, desktop_runtime_stopped, Writes,
            initialize, unavailable, capture, cannotCapture, captureEndsBadly,
            captureTree, captured, captureFails
    <2>4. CASE ~captured /\ \A r \in Runtimes : ~agent_start(r)
      <3>1. \A t \in Turns : Remains(t)
        BY <1>2, <2>4, TurnsBounded
      <3>2. 1..Len(writer) \subseteq 1..Len(writer')
        BY <1>0, <2>1
      <3> QED BY <2>1, <2>2, <2>3, <3>1, <3>2 DEF Bounded, Remains
    <2>5. CASE captured
      <3> DEFINE t == Head(queue).turn
      <3>1. PICK unread \in Unreadable, some \in During :
              turn' = IF Head(queue).what = "base"
                      THEN [turn EXCEPT ![t].baseline = "done", ![t].base = Tree(unread, some)]
                      ELSE [turn EXCEPT ![t].pc = "ranged", ![t].target = Tree(unread, some),
                                        ![t].unread = unread]
        BY <2>5 DEF captured
      <3> DEFINE tree == Tree(unread, some)
      <3>2. UNCHANGED writer /\ from \in 0..Len(writer)
        BY <2>5 DEF captured, Inductive, Typed
      <3>3. tree \subseteq 1..Len(writer) /\ unread \subseteq 1..Len(writer)
        BY <1>0, <3>2, TreeFacts
      <3>4. \A u \in Turns :
              /\ turn'[u].pc = "running" => turn[u].pc = "running"
              /\ turn'[u].runtime = turn[u].runtime
              /\ \/ turn'[u].target = turn[u].target /\ turn'[u].unread = turn[u].unread
                 \/ turn'[u].target = tree /\ turn'[u].unread = unread
        BY <1>0, <3>1 DEF TurnRecords
      <3> HIDE DEF tree
      <3> QED BY <2>1, <2>2, <2>3, <3>2, <3>3, <3>4 DEF Bounded
    <2>6. ASSUME NEW r \in Runtimes, agent_start(r) PROVE Bounded'
      <3>1. PICK t \in Turns :
              turn' = [u \in Turns |->
                IF u = t THEN [UnusedTurn EXCEPT !.pc = "running", !.runtime = r]
                ELSE IF turn[u].pc = "running" /\ turn[u].runtime = r
                     THEN [turn[u] EXCEPT !.pc = "settled", !.tool = FALSE] ELSE turn[u]]
        BY <2>6 DEF agent_start
      <3>2. turn'[t].runtime = r /\ turn'[t].target = {} /\ turn'[t].unread = {}
        BY <3>1 DEF UnusedTurn
      <3>3. \A u \in Turns : u # t =>
              /\ turn'[u].pc = "running" => turn[u].pc = "running" /\ turn[u].runtime # r
              /\ turn'[u].runtime = turn[u].runtime
              /\ turn'[u].target = turn[u].target /\ turn'[u].unread = turn[u].unread
        BY <1>0, <3>1 DEF TurnRecords
      <3>4. UNCHANGED writer
        BY <2>6 DEF agent_start
      <3> QED BY <2>1, <2>2, <2>3, <3>2, <3>3, <3>4 DEF Bounded
    <2> QED BY <2>4, <2>5, <2>6
  <1> QED BY <1>1, <1>2

-----------------------------------------------------------------------------
(* The private index.                                                      *)

\* The index only grows, a baseline lies in it, and a target has what it had.
Kept ==
  /\ index \subseteq 1..Len(writer)
  /\ from # NotBegun => index \subseteq 1..from
  /\ \A t \in Turns :
       /\ turn[t].baseline = "done" => turn[t].base \subseteq index
       /\ HasTarget(t) => turn[t].baseline = "done" /\ turn[t].base \subseteq turn[t].target

LEMMA InitKept == TSInit => Kept
  BY DEF TSInit, Kept, HasTarget, UnusedTurn

\* No capture takes anything out of the index, and work goes on below.
LEMMA IndexGrows ==
  ASSUME Inductive, Kept, TSNext
  PROVE  /\ index \subseteq index' /\ index' \subseteq 1..Len(writer')
         /\ from' # NotBegun => index' \subseteq 1..from'
  <1>0. writer \in Seq(Turns) /\ Len(writer) \in Nat /\ from \in {NotBegun} \cup 0..Len(writer)
    BY DEF Inductive, Typed
  <1>1. ASSUME NEW unread \in Unreadable, NEW some \in During, from # NotBegun
        PROVE  index \subseteq Tree(unread, some) /\ Tree(unread, some) \subseteq 1..Len(writer)
    <2>1. from \in 0..Len(writer) /\ index \subseteq 1..from
      BY <1>0, <1>1 DEF Kept
    <2>2. /\ unread \cap index = {} /\ Tree(unread, some) \subseteq 1..Len(writer)
          /\ (1..from) \ unread \subseteq Tree(unread, some)
      BY <1>0, <2>1, TreeFacts
    <2> QED BY <2>1, <2>2
  <1>2. CASE captured
    BY <1>1, <1>2 DEF captured
  <1>3. CASE captureFails \/ Restart
    BY <1>1, <1>3 DEF captureFails, Restart, CutShort, Kept
  <1>4. CASE captureTree
    BY <1>4 DEF captureTree, Kept
  <1>5. ASSUME NEW t \in Turns, Writes(t)
        PROVE  UNCHANGED <<index, from>> /\ index \subseteq 1..Len(writer')
    <2>1. Len(writer') = Len(writer) + 1
      BY <1>0, <1>5 DEF Writes
    <2> QED BY <1>0, <1>5, <2>1 DEF Writes, Kept
  <1>6. CASE UNCHANGED <<writer, index, from>>
    BY <1>6 DEF Kept
  <1>7. CASE \E t \in Turns : Writes(t)
    BY <1>5, <1>7 DEF Kept
  <1> QED
    BY <1>2, <1>3, <1>4, <1>6, <1>7
    DEF TSNext, agent_start, tool_execution_start, tool_execution_end, agent_settled, desktop_runtime_stopped,
        initialize, unavailable, capture, cannotCapture, load, renames, written, captureEndsBadly

\* Every step keeps the invariant: a target takes over the whole index, which has the
\* baseline of its turn.
LEMMA NextKept ==
  ASSUME Inductive, Kept, [TSNext]_TSvars
  PROVE  Kept'
  <1>0. turn \in [Turns -> TurnRecords] /\ \A t \in Turns : turn[t] \in TurnRecords
    BY DEF Inductive, Typed
  <1>1. CASE UNCHANGED TSvars
    BY <1>1 DEF TSvars, Kept, HasTarget
  <1>2. CASE TSNext
    <2>1. /\ index \subseteq index' /\ index' \subseteq 1..Len(writer')
          /\ from' # NotBegun => index' \subseteq 1..from'
      BY <1>2, IndexGrows
    <2>2. SUFFICES ASSUME NEW u \in Turns
                   PROVE  /\ turn'[u].baseline = "done" => turn'[u].base \subseteq index'
                          /\ HasTarget(u)' => turn'[u].baseline = "done" /\ turn'[u].base \subseteq turn'[u].target
      BY <2>1 DEF Kept
    <2>3. CASE ~captured /\ \A r \in Runtimes : ~agent_start(r)
      <3>1. Remains(u)
        BY <1>2, <2>3, TurnsBounded
      <3> QED BY <2>1, <3>1 DEF Remains, Kept
    <2>4. CASE captured
      <3> DEFINE t == Head(queue).turn
      <3>1. PICK unread \in Unreadable, some \in During :
              /\ turn' = IF Head(queue).what = "base"
                         THEN [turn EXCEPT ![t].baseline = "done", ![t].base = Tree(unread, some)]
                         ELSE [turn EXCEPT ![t].pc = "ranged", ![t].target = Tree(unread, some),
                                           ![t].unread = unread]
              /\ index' = Tree(unread, some)
        BY <2>4 DEF captured
      <3>2. queue # <<>> /\ queue' = Tail(queue)
        BY <2>4 DEF captured, Inductive, Typed
      <3>3. /\ t \in Turns
            /\ IF Head(queue).what = "base"
               THEN turn[t].ready = "yes" /\ turn[t].baseline = "none" ELSE turn[t].pc = "target"
        BY <3>2, TailOfQueue
      <3>4. CASE u # t
        <4>1. turn'[u] = turn[u]
          BY <1>0, <3>1, <3>3, <3>4
        <4> QED BY <2>1, <4>1 DEF Kept, HasTarget
      <3>5. CASE u = t /\ Head(queue).what = "base"
        <4>1. turn'[u].base = index' /\ turn'[u].pc = turn[u].pc /\ turn'[u].good = turn[u].good
          BY <1>0, <3>1, <3>3, <3>5 DEF TurnRecords
        <4>2. ~HasTarget(u)
          BY <3>3, <3>5 DEF Kept
        <4> QED BY <4>1, <4>2 DEF HasTarget
      <3>6. CASE u = t /\ Head(queue).what # "base"
        <4>1. /\ turn'[u].base = turn[u].base /\ turn'[u].baseline = turn[u].baseline
              /\ turn'[u].target = index'
          BY <1>0, <3>1, <3>3, <3>6 DEF TurnRecords
        <4>2. turn[u].baseline = "done"
          BY <3>3, <3>6 DEF Inductive, Queued
        <4> QED BY <2>1, <4>1, <4>2 DEF Kept
      <3> QED BY <3>4, <3>5, <3>6
    <2>5. ASSUME NEW r \in Runtimes, agent_start(r)
          PROVE  /\ turn'[u].baseline = "done" => turn'[u].base \subseteq index'
                 /\ HasTarget(u)' => turn'[u].baseline = "done" /\ turn'[u].base \subseteq turn'[u].target
      <3>1. PICK t \in Turns :
              turn' = [v \in Turns |->
                IF v = t THEN [UnusedTurn EXCEPT !.pc = "running", !.runtime = r]
                ELSE IF turn[v].pc = "running" /\ turn[v].runtime = r
                     THEN [turn[v] EXCEPT !.pc = "settled", !.tool = FALSE] ELSE turn[v]]
        BY <2>5 DEF agent_start
      <3>2. CASE u = t
        BY <3>1, <3>2 DEF UnusedTurn, HasTarget
      <3>3. CASE u # t
        <4>1. turn[u] \in TurnRecords
          BY <1>0
        <4>2. turn'[u] = IF turn[u].pc = "running" /\ turn[u].runtime = r
                         THEN [turn[u] EXCEPT !.pc = "settled", !.tool = FALSE] ELSE turn[u]
          BY <3>1, <3>3
        <4>3. /\ turn'[u].baseline = turn[u].baseline /\ turn'[u].base = turn[u].base
              /\ turn'[u].target = turn[u].target /\ turn'[u].good = turn[u].good
              /\ turn'[u].pc = turn[u].pc \/ turn'[u].pc = "settled"
          BY <4>1, <4>2 DEF TurnRecords
        <4>4. HasTarget(u)' => HasTarget(u)
          BY <4>3 DEF HasTarget
        <4> QED BY <2>1, <4>3, <4>4 DEF Kept
      <3> QED BY <3>2, <3>3
    <2> QED BY <2>3, <2>4, <2>5
  <1> QED BY <1>1, <1>2

\* What a snapshot misses could not be read at the end of the turn, or the snapshot says
\* so; and it shows no write as undone because a file could not be read or a capture was
\* cut short, for the captures of a project go through one index.  Whatever the number of
\* agents in a project, of turns, writes, failures and files that cannot be read
\* (src/main/git/turn-snapshot.ts, capture and captureTree).
THEOREM SnapshotsAreHonest == TSSpec => []RangesAreHonest
  <1>1. Inductive => SaysWhatItMisses
    BY DEF Inductive, AfterBaseline, BeforeTarget, HasTarget, SaysWhatItMisses, Missing
  <1>2. Kept => NothingTakenBack
    BY DEF Kept, HasTarget, NothingTakenBack
  <1>3. Inductive /\ Kept => RangesAreHonest
    BY <1>1, <1>2 DEF RangesAreHonest
  <1> QED BY <1>3, InitKept, NextKept, CapturesBracketTurns, PTL DEF TSSpec

\* A manifest never grows beyond RETAINED snapshots, a tree only holds what was
\* written, and an agent has one running turn (turn-snapshot.ts, observe and store).
THEOREM TurnsTyped == TSSpec => []TSTypeOK
  <1>1. ASSUME Inductive, Bounded, Kept PROVE TSTypeOK
    <2>1. turn \in [Turns -> TurnRecords] /\ writer \in Seq(Turns) /\ queue \in Seq(Jobs)
      BY <1>1 DEF Inductive, Typed
    <2>2. \A i \in 1..Len(writer) : writer[i] \in Turns
      BY <2>1
    <2>3. \A i \in 1..Len(queue) : queue[i] \in [turn : Turns, what : {"base", "target"}]
      <3>1. ASSUME NEW i \in 1..Len(queue) PROVE queue[i] \in Jobs
        BY <2>1
      <3> QED BY <3>1 DEF Jobs
    <2>4. ASSUME NEW r \in Runtimes
          PROVE  Cardinality({t \in Turns : turn[t].pc = "running" /\ turn[t].runtime = r}) <= 1
      <3> DEFINE its == {t \in Turns : turn[t].pc = "running" /\ turn[t].runtime = r}
      <3>1. its = {} \/ \E t \in Turns : its = {t}
        BY <1>1 DEF Bounded
      <3>2. Cardinality({}) = 0 /\ \A t : Cardinality({t}) = 1
        BY FS_EmptySet, FS_Singleton
      <3> HIDE DEF its
      <3>3. Cardinality(its) \in {0, 1}
        BY <3>1, <3>2
      <3> QED BY <3>3 DEF its
    <2>5. turn \in [Turns ->
                   [pc : {"none", "running", "stored", "failed", "lost"} \cup InCapture,
                    runtime : Runtimes \cup {0}, ready : {"no", "yes", "unavailable"},
                    baseline : {"none", "done", "failed"}, good : BOOLEAN, tool : BOOLEAN,
                    early : BOOLEAN, background : BOOLEAN, unfinished : BOOLEAN,
                    base : SUBSET (1..Len(writer)), target : SUBSET (1..Len(writer)),
                    unread : SUBSET (1..Len(writer))]]
      <3>1. \A t \in Turns :
              /\ turn[t].base \subseteq 1..Len(writer) /\ turn[t].target \subseteq 1..Len(writer)
              /\ turn[t].unread \subseteq 1..Len(writer)
        BY <1>1 DEF Inductive, Typed, Bounded
      <3> QED BY <2>1, <3>1 DEF TurnRecords
    <2> QED BY <1>1, <2>2, <2>3, <2>4, <2>5 DEF Inductive, Typed, Bounded, Kept, TSTypeOK
  <1> QED BY <1>1, InitBounded, NextBounded, InitKept, NextKept, CapturesBracketTurns, PTL DEF TSSpec
=============================================================================
