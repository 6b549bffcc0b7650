------------------------------- MODULE GitReview -------------------------------
(***************************************************************************)
(* The live comparison of the review panel: GitReviewService and           *)
(* GitProjectWatch (src/main/git/git-service.ts, git-watch.ts) with the    *)
(* GitReviewStore of each window (src/renderer/workbench/                  *)
(* git-review-store.ts), on one project that is a repository.              *)
(*                                                                         *)
(* The work tree and the repository are a number each that grows with      *)
(* every change; a comparison is the part of them that its query looks at. *)
(* A request of a window reaches the service at once, the updates reach the *)
(* window late and in order, so their sequence numbers are left out.  A    *)
(* read is two instants: the repository is inspected, the comparison is    *)
(* captured (the reader itself fails one that changed under it).           *)
(***************************************************************************)
EXTENDS Integers, Sequences, FiniteSets, Functions

CONSTANTS
  Windows,
  MaxSubs,      \* bound: subscriptions
  MaxChanges,   \* bound: changes of the work tree, and of the repository
  MaxRefreshes, \* bound: refreshes the user asks for
  MaxTroubles,  \* bound: watches, reads and authorizations that fail
  MaxBacklog,   \* bound: updates under way to a window when a read begins
  SlowReads     \* can a read outlast the interval at which a failed watch is retried?

ASSUME BoundsAssumption == {MaxSubs, MaxChanges, MaxRefreshes, MaxTroubles, MaxBacklog} \subseteq Nat
ASSUME SlowReadsAssumption == SlowReads \in BOOLEAN
ASSUME WindowsAssumption == 0 \notin Windows

VARIABLES
  disk,      \* the versions of the work tree and of the repository
  \* GitProjectWatch
  events,    \* kinds of changes a watch has yet to tell
  dead,      \* the watches that failed: while there are any it polls and retries
  rooted,    \* metadataRoots is set: the repository has a watch of its own
  \* GitReviewService
  sub, group,
  \* GitReviewStore
  store,
  toWindow,  \* updates under way
  \* bookkeeping
  seen,      \* disk, as of the last change that was told
  refreshes, troubles

watchVars == <<events, dead, rooted>>
mainVars  == <<sub, group>>
bookVars  == <<refreshes, troubles>>
vars == <<disk, watchVars, mainVars, store, toWindow, seen, bookVars>>

-----------------------------------------------------------------------------
Kinds   == {"worktree", "repository"}
Queries == {"unstaged", "staged"}
Subs    == 1..MaxSubs
None    == 0

\* Only the unstaged comparison looks at the work tree.
Relevant(q) == IF q = "unstaged" THEN Kinds ELSE {"repository"}

NoResult == [kind |-> "none", of |-> <<>>]
Failure  == [kind |-> "error", of |-> <<>>]
View(q)  == [kind |-> "ready", of |-> Restrict(disk, Relevant(q))]
Results(q) == {NoResult, Failure} \cup [kind : {"ready"}, of : [Relevant(q) -> 0..MaxChanges]]

\* A read is delayed by a timer, inspects, reads and holds what it read.
\* "stale" says that the generation moved since the read began, "retried"
\* that a retry of the watch did it.
NoGroup == [phase |-> "idle", stale |-> FALSE, retried |-> FALSE, got |-> NoResult, result |-> NoResult]
Reading == {"inspecting", "reading", "read"}

Unused == [window |-> None, query |-> "unstaged", open |-> FALSE, bound |-> FALSE, binds |-> 0]
Blank  == [sub |-> None, query |-> "unstaged", loading |-> FALSE, result |-> NoResult]

Members(q) == {s \in Subs : sub[s].bound /\ sub[s].query = q}
Live       == {q \in Queries : Members(q) # {}}
watching   == Live # {}

TypeOK ==
  /\ disk \in [Kinds -> 0..MaxChanges] /\ seen \in [Kinds -> 0..MaxChanges]
  /\ events \subseteq Kinds /\ dead \subseteq Kinds /\ rooted \in BOOLEAN
  /\ sub \in [Subs -> [window : Windows \cup {None}, query : Queries, open : BOOLEAN,
                       bound : BOOLEAN, binds : 0..(1 + MaxRefreshes)]]
  /\ \A q \in Queries :
       group[q] \in [phase : {"idle", "timer"} \cup Reading, stale : BOOLEAN, retried : BOOLEAN,
                     got : Results(q), result : Results(q)]
  /\ store \in [Windows -> [sub : Subs \cup {None}, query : Queries, loading : BOOLEAN,
                            result : UNION {Results(q) : q \in Queries}]]
  \* a window has one subscription at a time, also in the main process
  /\ \A s, t \in Subs : sub[s].open /\ sub[t].open /\ sub[s].window = sub[t].window => s = t
  /\ refreshes \in 0..MaxRefreshes /\ troubles \in 0..MaxTroubles

Init ==
  /\ disk = [k \in Kinds |-> 0] /\ seen = disk
  /\ events = {} /\ dead = {} /\ rooted = FALSE
  /\ sub = [s \in Subs |-> Unused] /\ group = [q \in Queries |-> NoGroup]
  /\ store = [w \in Windows |-> Blank]
  /\ toWindow = [w \in Windows |-> <<>>]
  /\ refreshes = 0 /\ troubles = 0

Trouble == troubles < MaxTroubles /\ troubles' = troubles + 1

-----------------------------------------------------------------------------
(* The store of a window hears an update.                                   *)

\* Faulty variant of Concerns: an update counts for whatever is shown now.
ConcernsAnyone(w, u) == store[w].sub # None

Concerns(w, u) == u.sub = store[w].sub

onUpdate(w) ==
  /\ toWindow[w] # <<>>
  /\ LET u == Head(toWindow[w]) IN
       store' = IF Concerns(w, u)
                THEN [store EXCEPT ![w].loading = u.loading,
                                   ![w].result = IF u.result = NoResult THEN @ ELSE u.result]
                ELSE store
  /\ toWindow' = [toWindow EXCEPT ![w] = Tail(@)]
  /\ UNCHANGED <<disk, watchVars, mainVars, seen, bookVars>>

-----------------------------------------------------------------------------
(* GitReviewService: reads, and who hears of them.                          *)

Update(s, loading, r) == [sub |-> s, loading |-> loading, result |-> r]
emit(s, loading, r) ==
  toWindow' = [toWindow EXCEPT ![sub[s].window] = Append(@, Update(s, loading, r))]
broadcast(q, loading, r) ==
  toWindow' = [w \in Windows |->
    IF \E s \in Members(q) : sub[s].window = w
    THEN Append(toWindow[w], Update(CHOOSE s \in Members(q) : sub[s].window = w, loading, r))
    ELSE toWindow[w]]

\* Faulty variant of Invalidated: a change during a read is not noted.
InvalidatedIdleOnly(g, again) == IF g.phase = "idle" THEN [g EXCEPT !.phase = "timer"] ELSE g

\* The generation moves; a read follows unless one is on its way.
Invalidated(g, again) ==
  CASE g.phase = "idle"   -> [g EXCEPT !.phase = "timer"]
    [] g.phase = "timer"  -> g
    [] g.phase \in Reading -> [g EXCEPT !.stale = TRUE, !.retried = @ \/ again]

changed(Q, again) == group' = [q \in Queries |-> IF q \in Q THEN Invalidated(group[q], again) ELSE group[q]]

TimerFires(q) ==
  /\ group[q].phase = "timer" /\ \A w \in Windows : Len(toWindow[w]) < MaxBacklog
  /\ group' = [group EXCEPT ![q].phase = "inspecting", ![q].stale = FALSE]
  /\ broadcast(q, TRUE, NoResult)
  /\ UNCHANGED <<disk, watchVars, sub, store, seen, bookVars>>

\* New watches: what the old ones had yet to tell is lost.  A watch that failed
\* may fail again, any other at the price of a trouble.
install ==
  /\ events' = {}
  /\ \E D \in SUBSET Kinds :
       /\ dead' = D
       /\ IF D \subseteq dead THEN UNCHANGED troubles ELSE Trouble

\* The first inspection of the repository sets the watch on its metadata.
Inspected(q) ==
  /\ group[q].phase = "inspecting"
  /\ group' = [group EXCEPT ![q].phase = "reading"]
  /\ rooted' = TRUE
  /\ IF rooted THEN UNCHANGED <<events, dead, troubles>> ELSE install
  /\ UNCHANGED <<disk, sub, store, toWindow, seen, refreshes>>

Captured(q) ==
  /\ group[q].phase = "reading"
  /\ group' = [group EXCEPT ![q].phase = "read", ![q].got = View(q)]
  /\ UNCHANGED <<disk, watchVars, sub, store, toWindow, seen, bookVars>>

\* Faulty variant of Finished: a comparison that changed while it was read is
\* dropped and not read again.
FinishedForGood(q, r) ==
  IF group[q].stale
  THEN /\ group' = [group EXCEPT ![q].phase = "idle", ![q].got = NoResult]
       /\ UNCHANGED toWindow
  ELSE /\ group' = [group EXCEPT ![q] = [NoGroup EXCEPT !.result = r]]
       /\ broadcast(q, FALSE, r)

\* The end of a read: its result is published unless something changed meanwhile.
Finished(q, r) ==
  IF group[q].stale
  THEN /\ group' = [group EXCEPT ![q].phase = "timer", ![q].got = NoResult]
       /\ UNCHANGED toWindow
  ELSE /\ group' = [group EXCEPT ![q] = [NoGroup EXCEPT !.result = r]]
       /\ broadcast(q, FALSE, r)

ReadEnds(q) ==
  /\ group[q].phase = "read" /\ Finished(q, group[q].got)
  /\ UNCHANGED <<disk, watchVars, sub, store, seen, bookVars>>

ReadFails(q) ==
  /\ group[q].phase \in Reading /\ Trouble /\ Finished(q, Failure)
  /\ UNCHANGED <<disk, watchVars, sub, store, seen, refreshes>>

-----------------------------------------------------------------------------
(* GitReviewService: requests.                                              *)

\* Faulty variant of unsubscribe: the old subscription stays until it is replaced.
unsubscribeLater(s, subs) ==
  /\ sub' = IF s = None THEN subs ELSE [subs EXCEPT ![s].bound = FALSE]
  /\ UNCHANGED <<group, watchVars>>

\* The last subscription of a comparison takes its timer and its read along,
\* the last one of the project its watches; "subs" is what else becomes of sub.
unsubscribe(s, subs) ==
  LET last == s # None /\ sub[s].bound /\ Members(sub[s].query) = {s}
  IN  /\ sub' = IF s = None THEN subs ELSE [subs EXCEPT ![s].open = FALSE, ![s].bound = FALSE]
      /\ group' = IF last THEN [group EXCEPT ![sub[s].query] = NoGroup] ELSE group
      /\ IF last /\ Live = {sub[s].query}
         THEN events' = {} /\ dead' = {} /\ rooted' = FALSE
         ELSE UNCHANGED watchVars

\* A window shows another comparison: it leaves the one it had.  A result of the
\* same query stays while the new subscription has none.
connect(w, q) ==
  /\ store[w].sub = None \/ store[w].query # q
  /\ \E s \in Subs :
       /\ sub[s].window = None /\ \A t \in 1..(s - 1) : sub[t].window # None
       /\ unsubscribe(store[w].sub, [sub EXCEPT ![s] = [window |-> w, query |-> q, open |-> TRUE,
                                                       bound |-> FALSE, binds |-> 1]])
       /\ store' = [store EXCEPT ![w] = [sub |-> s, query |-> q, loading |-> TRUE,
                                         result |-> IF store[w].query = q THEN store[w].result ELSE NoResult]]
  /\ UNCHANGED <<disk, toWindow, seen, bookVars>>

\* What is shown stays until the next connect.
disconnect(w) ==
  /\ store[w].sub # None
  /\ unsubscribe(store[w].sub, sub)
  /\ store' = [store EXCEPT ![w].sub = None]
  /\ UNCHANGED <<disk, toWindow, seen, bookVars>>

\* A subscription whose project was not authorized tries again.
refresh(w) ==
  LET s == store[w].sub
  IN  /\ s # None /\ refreshes < MaxRefreshes
      /\ store' = [store EXCEPT ![w].loading = TRUE]
      /\ IF sub[s].bound
         THEN changed({sub[s].query}, FALSE) /\ UNCHANGED sub
         ELSE sub' = [sub EXCEPT ![s].binds = @ + 1] /\ UNCHANGED group
      /\ refreshes' = refreshes + 1
      /\ UNCHANGED <<disk, watchVars, toWindow, seen, troubles>>

\* Faulty variant of Joins: the subscription may have been closed meanwhile.
JoinsAnyway(s) == ~sub[s].bound

Joins(s) == sub[s].open /\ ~sub[s].bound

\* The project is authorized: the subscription joins the comparison, whose
\* result it gets if there is one; the first one of the project starts to watch.
bind(s) ==
  /\ sub[s].binds > 0
  /\ LET q == sub[s].query
         g == group[q]
     IN  IF ~Joins(s)
         THEN sub' = [sub EXCEPT ![s].binds = @ - 1] /\ UNCHANGED <<watchVars, group, toWindow, troubles>>
         ELSE /\ sub' = [sub EXCEPT ![s].binds = @ - 1, ![s].bound = TRUE]
              /\ emit(s, g.result = NoResult \/ g.phase # "idle", g.result)
              /\ group' = IF g.result = NoResult /\ g.phase = "idle" THEN [group EXCEPT ![q].phase = "timer"] ELSE group
              /\ IF watching THEN UNCHANGED <<events, dead, troubles>> ELSE install
              /\ UNCHANGED rooted
  /\ UNCHANGED <<disk, store, seen, refreshes>>

\* It is not: the window is told, even one that joined through another attempt.
bindFails(s) ==
  /\ sub[s].binds > 0 /\ Trouble
  /\ sub' = [sub EXCEPT ![s].binds = @ - 1]
  /\ IF sub[s].open THEN emit(s, FALSE, Failure) ELSE UNCHANGED toWindow
  /\ UNCHANGED <<disk, watchVars, group, store, seen, refreshes>>

-----------------------------------------------------------------------------
(* The project and its watches.                                             *)

\* Until the repository has a watch of its own, that of the work tree tells all.
WatchOf(k) == IF rooted THEN k ELSE "worktree"

Change(k) ==
  /\ disk[k] < MaxChanges
  /\ disk' = [disk EXCEPT ![k] = @ + 1]
  /\ events' = IF watching /\ WatchOf(k) \notin dead THEN events \cup {k} ELSE events
  /\ UNCHANGED <<dead, rooted, mainVars, store, toWindow, seen, bookVars>>

\* A change of the repository concerns every comparison.
Told(k) ==
  /\ k \in events
  /\ events' = events \ {k}
  /\ changed({q \in Live : k \in Relevant(q)}, FALSE)
  /\ seen' = IF k = "repository" THEN disk ELSE [seen EXCEPT ![k] = disk[k]]
  /\ UNCHANGED <<disk, dead, rooted, sub, store, toWindow, bookVars>>

WatchFails(k) ==
  /\ watching /\ k = WatchOf(k) /\ k \notin dead /\ Trouble
  /\ dead' = dead \cup {k}
  /\ events' = {e \in events : WatchOf(e) # k}
  /\ UNCHANGED <<disk, rooted, mainVars, store, toWindow, seen, refreshes>>

Polled == {q \in Live : group[q].phase = "idle"}

Poll ==
  /\ dead # {} /\ Polled # {}
  /\ changed(Polled, FALSE)
  /\ UNCHANGED <<disk, watchVars, sub, store, toWindow, seen, bookVars>>

\* The watches are set anew, and that counts as a change of the repository
\* whatever is being read.  Unless reads are slow, no read meets two of them,
\* nor does the read that repeats it.
Retry ==
  /\ dead # {}
  /\ SlowReads \/ \A q \in Live : ~group[q].retried
  /\ install
  /\ changed(Live, TRUE)
  /\ seen' = disk
  /\ UNCHANGED <<disk, rooted, sub, store, toWindow, refreshes>>

-----------------------------------------------------------------------------
Next ==
  \/ \E w \in Windows :
       \/ \E q \in Queries : connect(w, q)
       \/ disconnect(w) \/ refresh(w) \/ onUpdate(w)
  \/ \E s \in Subs : bind(s) \/ bindFails(s)
  \/ \E q \in Queries : TimerFires(q) \/ Inspected(q) \/ Captured(q) \/ ReadEnds(q) \/ ReadFails(q)
  \/ \E k \in Kinds : Change(k) \/ Told(k) \/ WatchFails(k)
  \/ Poll \/ Retry

Spec == Init /\ [][Next]_vars

\* Messages arrive, authorizations and timers come, reads end, changes are told,
\* and the polling goes on.
Fairness ==
  /\ \A w \in Windows : WF_vars(onUpdate(w))
  /\ \A s \in Subs : WF_vars(bind(s) \/ bindFails(s))
  /\ \A q \in Queries : /\ WF_vars(TimerFires(q)) /\ WF_vars(Inspected(q))
                        /\ WF_vars(Captured(q)) /\ WF_vars(ReadEnds(q))
  /\ \A k \in Kinds : WF_vars(Told(k))
  /\ WF_vars(Poll)

FairSpec == Spec /\ Fairness

-----------------------------------------------------------------------------
\* A comparison that is not being read is at least as new as every change that
\* was told: a change told while it was read made the read count for nothing
\* (src/main/git/git-service.ts, read).
NoStaleResult ==
  \A q \in Queries : group[q].phase = "idle" /\ group[q].result.kind = "ready" =>
    \A k \in Relevant(q) : group[q].result.of[k] >= seen[k]

\* Timers, reads and watches are there only for subscriptions that are open, also
\* when one was closed before its project was authorized
\* (src/main/git/git-service.ts, bind and unsubscribe).
NoIdleWork ==
  /\ \A s \in Subs : sub[s].bound => sub[s].open
  /\ \A q \in Queries : Members(q) = {} => group[q] = NoGroup
  /\ ~watching => events = {} /\ dead = {} /\ ~rooted

\* A window never shows one comparison as another: updates of the one it left may
\* still be under way (src/renderer/workbench/git-review-store.ts, connect).
ViewIsOfQuery ==
  \A w \in Windows : store[w].result.kind = "ready" => DOMAIN store[w].result.of = Relevant(store[w].query)

\* What is shown is as new as what was told and belongs to what was asked.
ResultsFit == NoStaleResult /\ ViewIsOfQuery

\* Whatever changes, fails or is lost on the way, an open panel ends up with the
\* comparison as it is, or with an error the user can retry; and it does not stay
\* busy for ever (src/main/git/git-watch.ts, degrade; git-service.ts, read).
CatchesUp ==
  \A w \in Windows :
    /\ <>[](store[w].sub # None => store[w].result \in {View(store[w].query), Failure})
    /\ []<>(store[w].sub # None => ~store[w].loading)

\* Polling, the fallback where there is no native watch, does not make a slow read
\* count for nothing for ever (docs/file-review-fr-03.md).
SlowReadsEnd ==
  \A w \in Windows : []<>(store[w].sub # None => ~store[w].loading)
=============================================================================
